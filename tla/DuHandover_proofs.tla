------------------------- MODULE DuHandover_proofs -------------------------
(***************************************************************************)
(* Proofs about DuHandover: type correctness, one inductive invariant that *)
(* carries its safety properties, and the refinement of HandoverProtocol.  *)
(*                                                                         *)
(* What a goroutine or the loop does next says something about the         *)
(* handover context that it tested earlier, under another lock or none.    *)
(* HandlerInv and LoopInv say what; it holds because whoever else would    *)
(* change the context needs a confirmation, a setup or a role that then    *)
(* does not exist.                                                         *)
(***************************************************************************)
EXTENDS DuHandover, Codec_proofs, TLAPS

Sides ==
    /\ ho.role = "NONE" <=> ho.state = "IDLE"
    /\ ho.role = "SOURCE" => ho.state \in {"PREPARATION", "EXECUTION", "FAILED"}
    /\ ho.role = "TARGET" => ho.state \in {"PREPARATION", "EXECUTION", "COMPLETED"}
    /\ ho.role = "TARGET" => (ho.state = "COMPLETED" => cu.admitted)
    /\ ho.role = "TARGET" /\ cu.admitted => ho.state \in {"EXECUTION", "COMPLETED"}

\* A modification is required once, by a source DU; the command follows its
\* confirmation.
Counts ==
    /\ cu.required \in {0, 1}
    /\ cu.required = 1 => ho.role = "SOURCE" /\ ho.state # "FAILED"
    /\ cu.confirmed => cu.required = 1
    /\ ue.commands \in {0, 1}
    /\ ~cu.confirmed => ue.commands = 0
    /\ ho.role = "SOURCE" /\ ho.state = "EXECUTION" => ue.commands = 1

\* What a goroutine is doing, and what it may rely on.
Fits(h) ==
    /\ handler[h].kind = "UEContextModificationConfirm" =>
          /\ cu.confirmed
          /\ handler[h].step \in {"dispatch", "forward", "execute"}
          /\ handler[h].step \in {"dispatch", "forward"} => ue.commands = 0
          /\ handler[h].step = "execute" => ue.commands = 1
    /\ handler[h].kind = "UEContextSetupRequest" => cu.outstanding
    /\ handler[h].step \in {"admit", "checkRole", "openRach", "respond"} =>
          handler[h].kind = "UEContextSetupRequest"
    /\ handler[h].step = "execute" => handler[h].kind = "UEContextModificationConfirm"
    /\ handler[h].step \in {"admit", "checkRole", "openRach"} /\ ho.role = "TARGET" =>
          ho.state = "PREPARATION" /\ ~cu.admitted
    /\ handler[h].step = "openRach" => ho.role = "TARGET"
    /\ handler[h].step \in {"forward", "respond"} /\ ho.role = "TARGET"
          /\ handler[h].kind = "UEContextSetupRequest" =>
          ho.state \in {"EXECUTION", "COMPLETED"}

\* Of confirmations and of setup requests, one at a time is handled.
Alone(g, h) ==
    g # h /\ handler[g].kind = handler[h].kind => handler[g].kind = "DLRRCMessageTransfer"

HandlerInv == (\A h \in Handler : Fits(h)) /\ (\A g, h \in Handler : Alone(g, h))

\* What the loop found when it tested the context still holds.
LoopInv ==
    /\ loop.step = "prepare" => ho.role = "NONE"
    /\ loop.step \in {"require", "fail"} =>
          ho.role = "SOURCE" /\ ho.state = "PREPARATION" /\ cu.required = 0
    /\ loop.step = "complete" => ho.role = "TARGET" /\ cu.admitted

\* Each place has its own PLMN identity.
Told ==
    \A p \in cu.told :
        p[2] = CASE p[1] = "setupCell" -> setupPlmn
                 [] p[1] = "contextSetup" -> responsePlmn(plmn)
                 [] OTHER -> convertMccMncToPlmn(plmn)

IInv == TypeOK /\ Sides /\ Counts /\ HandlerInv /\ LoopInv /\ Told

------------------------------------------------------------------------------
(* Types                                                                    *)

\* A report is a sequence of booleans.
LEMMA ReportsType == Reports \subseteq Seq(BOOLEAN)
<1>. SUFFICES ASSUME NEW n \in 0 .. MaxNeighbours, NEW r \in [1 .. n -> BOOLEAN]
             PROVE  r \in Seq(BOOLEAN)
  BY DEF Reports
<1>. QED  BY HandoverAssumption DEF HandoverAssumption

\* What the CU-CP may be told is PLMN identities.
LEMMA PlmnType ==
    ASSUME plmn \in Plmn
    PROVE  /\ plmn \in PlmnId
           /\ convertMccMncToPlmn(plmn) \in PlmnBytes
           /\ responsePlmn(plmn) \in PlmnBytes
           /\ setupPlmn \in PlmnBytes
BY HandoverAssumption, EncodersType DEF HandoverAssumption

Context == [role : Roles, state : HoStates]
Ue == [open : BOOLEAN, served : BOOLEAN, q : Seq(Kinds), commands : Nat]
Loop == [step : LoopSteps, todo : Seq(BOOLEAN), initial : BOOLEAN]
Cu == [required : Nat, confirmed : BOOLEAN, command : BOOLEAN,
       setups : 0 .. MaxSetups, outstanding : BOOLEAN, admitted : BOOLEAN,
       told : SUBSET (Places \X PlmnBytes)]
Goroutine == [step : HandlerSteps, kind : Kinds, container : BOOLEAN, id : CuId \cup {ZeroId}]

\* A goroutine that goes on, starts or ends keeps the type of all of them.
LEMMA GoroutineType ==
    ASSUME handler \in [Handler -> Goroutine], NEW h \in Handler,
           \/ \E st \in HandlerSteps : Step(h, st)
           \/ \E g \in Goroutine : handler' = [handler EXCEPT ![h] = g]
           \/ Finish(h)
    PROVE  handler' \in [Handler -> Goroutine]
<1>1. ASSUME NEW g \in Goroutine, handler' = [handler EXCEPT ![h] = g]
      PROVE  handler' \in [Handler -> Goroutine]
  BY <1>1
<1>2. ASSUME NEW st \in HandlerSteps, Step(h, st)
      PROVE  handler' \in [Handler -> Goroutine]
  <2>1. [handler[h] EXCEPT !.step = st] \in Goroutine
    BY DEF Goroutine
  <2>2. handler' = [handler EXCEPT ![h] = [handler[h] EXCEPT !.step = st]]
    BY <1>2 DEF Step
  <2>. QED  BY <1>1, <2>1, <2>2
<1>3. Idle \in Goroutine
  BY DEF Idle, Goroutine, HandlerSteps, Kinds
<1>. QED  BY <1>1, <1>2, <1>3 DEF Finish

LEMMA LoopType ==
    ASSUME loop \in Loop, NEW st \in LoopSteps, NEW todo \in Seq(BOOLEAN), LoopTo(st, todo)
    PROVE  loop' \in Loop
BY DEF Loop, LoopTo

LEMMA ForwardType ==
    ASSUME ue \in Ue, Len(ue.q) <= ChanCap, NEW kind \in Kinds, ForwardToUe(kind)
    PROVE  ue' \in Ue /\ Len(ue'.q) <= ChanCap
<1>1. /\ Append(ue.q, kind) \in Seq(Kinds)
      /\ Len(Append(ue.q, kind)) <= ChanCap
  BY HandoverAssumption DEF HandoverAssumption, Ue, ForwardToUe
<1>. DEFINE n == IF kind = "UEContextModificationConfirm" THEN ue.commands + 1 ELSE ue.commands
<1>2. n \in Nat
  BY DEF Ue
<1>3. ue' = [ue EXCEPT !.q = Append(ue.q, kind), !.commands = n]
  BY DEF ForwardToUe
<1>. QED  BY <1>1, <1>2, <1>3 DEF Ue

\* What the CU-CP is told has the type of a place and an identity.
LEMMA ToldType ==
    ASSUME cu \in Cu, plmn \in Plmn, NEW place \in {"initialUL", "contextSetup"},
           NEW bytes \in PlmnBytes
    PROVE  cu.told \cup {<<place, bytes>>} \in SUBSET (Places \X PlmnBytes)
<1>1. cu.told \in SUBSET (Places \X PlmnBytes)
  BY DEF Cu
<1>2. <<place, bytes>> \in Places \X PlmnBytes
  BY DEF Places
<1>. QED  BY <1>1, <1>2

LEMMA TypeParts ==
    TypeOK <=> /\ ho \in Context /\ cuUeId \in CuId \cup {ZeroId}
               /\ ue \in Ue /\ Len(ue.q) <= ChanCap
               /\ handler \in [Handler -> Goroutine]
               /\ loop \in Loop /\ cu \in Cu /\ plmn \in Plmn
BY DEF TypeOK, Context, Ue, Goroutine, Loop, Cu

LEMMA TypePartsNext ==
    TypeOK' <=> /\ ho' \in Context /\ cuUeId' \in CuId \cup {ZeroId}
                /\ ue' \in Ue /\ Len(ue'.q) <= ChanCap
                /\ handler' \in [Handler -> Goroutine]
                /\ loop' \in Loop /\ cu' \in Cu /\ plmn' \in Plmn
BY DEF TypeOK, Context, Ue, Goroutine, Loop, Cu

LEMMA TypeInit == Init => TypeOK
<1>. SUFFICES ASSUME Init PROVE TypeOK
  OBVIOUS
<1>1. ho \in Context /\ cuUeId \in CuId \cup {ZeroId} /\ plmn \in Plmn
  BY DEF Init, Context, Roles, HoStates
<1>2. ue \in Ue /\ Len(ue.q) <= ChanCap
  <2>1. <<>> \in Seq(Kinds) /\ Len(<<>>) <= ChanCap
    BY HandoverAssumption DEF HandoverAssumption
  <2>2. {<<>>} \subseteq Seq(Kinds) /\ {0} \subseteq Nat
    BY <2>1
  <2>3. ue \in [open : BOOLEAN, served : BOOLEAN, q : {<<>>}, commands : {0}]
    BY DEF Init
  <2>4. ue \in Ue /\ ue.q = <<>>
    BY <2>2, <2>3, Zenon DEF Ue
  <2>. QED  BY <2>1, <2>4
<1>3. Idle \in Goroutine
  BY DEF Idle, Goroutine, HandlerSteps, Kinds
<1>4. handler \in [Handler -> Goroutine]
  BY <1>3 DEF Init
<1>5. loop \in Loop
  BY DEF Init, Loop, LoopSteps
<1>6. cu \in Cu
  <2>1. {<<"setupCell", setupPlmn>>, <<"setupServed", convertMccMncToPlmn(plmn)>>}
           \in SUBSET (Places \X PlmnBytes)
    BY <1>1, PlmnType DEF Places
  <2>. QED  BY <2>1, HandoverAssumption DEF Init, Cu, HandoverAssumption
<1>. QED  BY <1>1, <1>2, <1>4, <1>5, <1>6, TypeParts

LEMMA TypeHandler ==
    ASSUME TypeOK, NEW h \in Handler, HandleMessage(h) \/ HandlerStep(h), UNCHANGED plmn
    PROVE  TypeOK'
<1>. USE TypeParts, TypePartsNext
<1>1. handler[h] \in Goroutine
  OBVIOUS
<1>2. handler' \in [Handler -> Goroutine]
  <2>1. CASE HandleMessage(h)
    <3>1. PICK g \in Goroutine : handler' = [handler EXCEPT ![h] = g]
      BY <2>1 DEF HandleMessage, Goroutine, HandlerSteps
    <3>. QED  BY <3>1, GoroutineType
  <2>2. CASE HandlerStep(h)
    <3>1. Finish(h) \/ \E st \in HandlerSteps : Step(h, st)
      BY <1>1, <2>2 DEF HandlerStep, Dispatch, Forward, Execute, Admit, CheckRole, OpenRach,
                  Respond, AfterForward, HandlerSteps, Goroutine, Kinds
    <3>. QED  BY <3>1, GoroutineType
  <2>. QED  BY <2>1, <2>2
<1>3. CASE HandleMessage(h)
  <2>1. cu' \in Cu
    <3>1. PICK kind \in Kinds, container \in BOOLEAN :
             /\ CuMaySend(kind, container)
             /\ cu' = CASE kind = "DLRRCMessageTransfer" -> cu
                        [] kind = "UEContextModificationConfirm" ->
                             [cu EXCEPT !.confirmed = TRUE, !.command = container]
                        [] kind = "UEContextSetupRequest" ->
                             [cu EXCEPT !.setups = @ + 1, !.outstanding = TRUE]
      BY <1>3 DEF HandleMessage
    <3>2. CASE kind = "DLRRCMessageTransfer"
      BY <3>1, <3>2
    <3>3. CASE kind = "UEContextModificationConfirm"
      BY <3>1, <3>3 DEF Cu
    <3>4. CASE kind = "UEContextSetupRequest"
      <4>1. cu.setups \in 0 .. MaxSetups /\ cu.setups < MaxSetups /\ MaxSetups \in Nat
        BY <3>1, <3>4, HandoverAssumption DEF CuMaySend, Cu, HandoverAssumption
      <4>2. cu' = [cu EXCEPT !.setups = @ + 1, !.outstanding = TRUE]
        BY <3>1, <3>4
      <4>3. cu.setups + 1 \in 0 .. MaxSetups
        BY <4>1
      <4>. QED  BY <4>2, <4>3 DEF Cu
    <3>. QED  BY <3>2, <3>3, <3>4 DEF Kinds
  <2>. QED  BY <1>2, <1>3, <2>1 DEF HandleMessage
<1>4. CASE Dispatch(h)
  BY <1>2, <1>4 DEF Dispatch
<1>5. CASE Forward(h)
  <2>1. ue' \in Ue /\ Len(ue'.q) <= ChanCap
    BY <1>1, <1>5, ForwardType DEF Forward, Goroutine
  <2>. QED  BY <1>2, <1>5, <2>1 DEF Forward
<1>6. CASE Execute(h) \/ OpenRach(h)
  <2>1. ho' \in Context
    BY <1>6 DEF Execute, OpenRach, SetSourceHandoverState, SetTargetHandoverState,
                Context, Roles, HoStates
  <2>. QED  BY <1>2, <1>6, <2>1 DEF Execute, OpenRach
<1>7. CASE Admit(h)
  <2>1. ue' \in Ue /\ ue'.q = ue.q
    BY <1>7 DEF Admit, Ue
  <2>2. cuUeId' \in CuId \cup {ZeroId}
    BY <1>1, <1>7 DEF Admit, Goroutine
  <2>. QED  BY <1>2, <1>7, <2>1, <2>2 DEF Admit
<1>8. CASE CheckRole(h)
  BY <1>2, <1>8 DEF CheckRole
<1>9. CASE Respond(h)
  <2>1. cu' \in Cu
    <3>1. cu.told \cup {<<"contextSetup", responsePlmn(plmn)>>}
             \in SUBSET (Places \X PlmnBytes)
      BY ToldType, PlmnType
    <3>. QED  BY <1>9, <3>1 DEF Respond, Cu
  <2>. QED  BY <1>2, <1>9, <2>1 DEF Respond
<1>. QED
  BY <1>3, <1>4, <1>5, <1>6, <1>7, <1>8, <1>9 DEF HandlerStep

LEMMA TypeLoop ==
    ASSUME TypeOK, UNCHANGED plmn,
           \/ ReceiveMeasurementReport \/ ReceiveReconfigurationComplete \/ ReceiveOther
           \/ LoopStep \/ UeReceives
    PROVE  TypeOK'
<1>. USE TypeParts, TypePartsNext
<1>1. /\ loop.todo \in Seq(BOOLEAN) /\ <<>> \in Seq(BOOLEAN)
      /\ loop.todo # <<>> => Tail(loop.todo) \in Seq(BOOLEAN)
  BY DEF Loop
<1>2. ASSUME \/ ReceiveMeasurementReport \/ ReceiveReconfigurationComplete
             \/ ReceiveOther \/ Scan \/ Prepare \/ Require \/ Fail \/ Complete
      PROVE  loop' \in Loop
  <2>1. \E st \in LoopSteps, todo \in Seq(BOOLEAN) : LoopTo(st, todo)
    <3>1. CASE ReceiveMeasurementReport
      BY <3>1, ReportsType DEF ReceiveMeasurementReport, LoopSteps
    <3>2. CASE ReceiveReconfigurationComplete \/ ReceiveOther
      <4>1. LoopTo("complete", <<>>) \/ LoopTo("uplink", <<>>)
        BY <3>2 DEF ReceiveReconfigurationComplete, ReceiveOther
      <4>. QED  BY <1>1, <4>1 DEF LoopSteps
    <3>3. CASE Scan
      BY <1>1, <3>3 DEF Scan, LoopSteps
    <3>4. CASE Prepare \/ Require \/ Fail \/ Complete
      <4>1. \/ \E st \in LoopSteps : LoopTo(st, loop.todo)
            \/ LoopTo("uplink", <<>>)
        BY <3>4 DEF Prepare, Require, Fail, Complete, LoopSteps
      <4>. QED  BY <1>1, <4>1 DEF LoopSteps
    <3>. QED  BY <1>2, <3>1, <3>2, <3>3, <3>4
  <2>. QED  BY <2>1, LoopType
<1>3. CASE ReceiveMeasurementReport \/ ReceiveReconfigurationComplete \/ ReceiveOther \/ Scan
  BY <1>2, <1>3
     DEF ReceiveMeasurementReport, ReceiveReconfigurationComplete, ReceiveOther, Scan
<1>4. CASE Prepare \/ Fail \/ Complete
  <2>1. ho' \in Context
    BY <1>4 DEF Prepare, Fail, Complete, SetSourceHandoverState, SetTargetHandoverState,
                Context, Roles, HoStates
  <2>. QED  BY <1>2, <1>4, <2>1 DEF Prepare, Fail, Complete
<1>5. CASE Require
  <2>1. cu' \in Cu
    BY <1>5 DEF Require, Cu
  <2>. QED  BY <1>2, <1>5, <2>1 DEF Require
<1>6. CASE Uplink
  <2>1. loop' \in Loop
    BY <1>6 DEF Uplink, Loop, LoopSteps
  <2>2. cu' \in Cu
    <3>1. cu.told \cup {<<"initialUL", convertMccMncToPlmn(plmn)>>}
             \in SUBSET (Places \X PlmnBytes)
      BY ToldType, PlmnType
    <3>. QED  BY <1>6, <3>1 DEF Uplink, Cu
  <2>. QED  BY <1>6, <2>1, <2>2 DEF Uplink
<1>7. CASE UeReceives
  <2>1. Tail(ue.q) \in Seq(Kinds) /\ Len(Tail(ue.q)) <= ChanCap
    BY <1>7, HandoverAssumption DEF UeReceives, Ue, HandoverAssumption
  <2>2. ue' \in Ue /\ Len(ue'.q) <= ChanCap
    BY <1>7, <2>1 DEF UeReceives, Ue
  <2>. QED  BY <1>7, <2>2 DEF UeReceives
<1>. QED
  BY <1>3, <1>4, <1>5, <1>6, <1>7 DEF LoopStep

LEMMA TypeStep == TypeOK /\ [Next]_<<vars, plmn>> => TypeOK'
<1>. SUFFICES ASSUME TypeOK, [Next]_<<vars, plmn>> PROVE TypeOK'
  OBVIOUS
<1>1. CASE Next
  BY <1>1, TypeHandler, TypeLoop DEF Next
<1>2. CASE UNCHANGED <<vars, plmn>>
  BY <1>2 DEF vars, TypeOK
<1>. QED  BY <1>1, <1>2

\* Every variable of the DU keeps its type, and the channel its bound.
THEOREM TypeCorrect == Spec => []TypeOK
BY TypeInit, TypeStep, PTL DEF Spec

------------------------------------------------------------------------------
(* The inductive invariant                                                  *)

LEMMA InitInv == Init => IInv
<1>. SUFFICES ASSUME Init PROVE IInv
  OBVIOUS
<1>1. TypeOK
  BY TypeInit
<1>2. Sides /\ Counts /\ LoopInv
  BY DEF Init, Sides, Counts, LoopInv
<1>3. HandlerInv
  BY DEF Init, HandlerInv, Fits, Alone, Idle
<1>4. Told
  BY DEF Init, Told
<1>. QED  BY <1>1, <1>2, <1>3, <1>4 DEF IInv

\* One goroutine moves, and keeps its message; the others stay.
LEMMA StepFacts ==
    ASSUME handler \in [Handler -> Goroutine], NEW h \in Handler, NEW st \in HandlerSteps,
           Step(h, st)
    PROVE  /\ handler'[h].step = st /\ handler'[h].kind = handler[h].kind
           /\ \A g \in Handler \ {h} : handler'[g] = handler[g]
BY DEF Step, Goroutine

LEMMA FinishFacts ==
    ASSUME handler \in [Handler -> Goroutine], NEW h \in Handler, Finish(h)
    PROVE  /\ handler'[h].step = "idle" /\ handler'[h].kind = "DLRRCMessageTransfer"
           /\ \A g \in Handler \ {h} : handler'[g] = handler[g]
BY DEF Finish, Idle

LEMMA InvHandleMessage ==
    ASSUME IInv, NEW h \in Handler, HandleMessage(h)
    PROVE  Sides' /\ Counts' /\ HandlerInv' /\ LoopInv'
<1>. USE DEF IInv
<1>1. PICK kind \in Kinds, container \in BOOLEAN, id \in CuId :
         /\ CuMaySend(kind, container)
         /\ handler' = [handler EXCEPT ![h] =
                 [step |-> "dispatch", kind |-> kind, container |-> container, id |-> id]]
         /\ cu' = CASE kind = "DLRRCMessageTransfer" -> cu
                    [] kind = "UEContextModificationConfirm" ->
                         [cu EXCEPT !.confirmed = TRUE, !.command = container]
                    [] kind = "UEContextSetupRequest" ->
                         [cu EXCEPT !.setups = @ + 1, !.outstanding = TRUE]
         /\ UNCHANGED <<ho, ue, loop>>
  BY DEF HandleMessage
<1>2. /\ handler'[h].step = "dispatch" /\ handler'[h].kind = kind
      /\ \A g \in Handler \ {h} : handler'[g] = handler[g]
  BY <1>1, TypeParts
<1>3. /\ cu'.required = cu.required /\ (cu'.admitted <=> cu.admitted)
      /\ kind = "UEContextModificationConfirm" =>
            cu.required > 0 /\ ~cu.confirmed /\ cu'.confirmed
      /\ kind # "UEContextModificationConfirm" => (cu'.confirmed <=> cu.confirmed)
      /\ kind = "UEContextSetupRequest" => ~cu.outstanding /\ cu'.outstanding
      /\ kind # "UEContextSetupRequest" => (cu'.outstanding <=> cu.outstanding)
      /\ ho' = ho /\ ue' = ue /\ loop' = loop
  BY <1>1, TypeParts DEF Kinds, CuMaySend, Cu
<1>4. Sides' /\ LoopInv'
  BY <1>3 DEF Sides, LoopInv
<1>5. Counts'
  BY <1>3 DEF Counts
<1>6. ASSUME NEW g \in Handler PROVE Fits(g)'
  <2>1. CASE g = h
    BY <1>1, <1>2, <1>3, <2>1 DEF Fits, Counts, Kinds
  <2>2. CASE g # h
    <3>1. handler'[g] = handler[g] /\ Fits(g)
      BY <1>2, <2>2 DEF HandlerInv
    <3>2. cu.confirmed => cu'.confirmed
      BY <1>3
    <3>3. cu.outstanding => cu'.outstanding
      BY <1>3
    <3>. QED  BY <1>1, <1>3, <3>1, <3>2, <3>3 DEF Fits
  <2>. QED  BY <2>1, <2>2
<1>7. ASSUME NEW f \in Handler, NEW g \in Handler PROVE Alone(f, g)'
  <2>1. \A e \in Handler \ {h} : handler[e].kind = kind => kind = "DLRRCMessageTransfer"
    BY <1>3 DEF HandlerInv, Fits, Kinds
  <2>. QED  BY <1>2, <2>1 DEF Alone, HandlerInv
<1>. QED  BY <1>4, <1>5, <1>6, <1>7 DEF HandlerInv

LEMMA InvDispatch ==
    ASSUME IInv, NEW h \in Handler, Dispatch(h)
    PROVE  Sides' /\ Counts' /\ HandlerInv' /\ LoopInv'
<1>. USE DEF IInv
<1>1. /\ handler[h].step = "dispatch" /\ UNCHANGED <<ho, ue, loop, cu>>
      /\ \A g \in Handler \ {h} : handler'[g] = handler[g]
      /\ \/ /\ handler'[h].step = "admit" /\ handler'[h].kind = handler[h].kind
            /\ handler[h].kind = "UEContextSetupRequest" /\ ho.state = "PREPARATION"
         \/ /\ handler'[h].step = "forward" /\ handler'[h].kind = handler[h].kind
            /\ handler[h].kind = "UEContextSetupRequest" => ho.state # "PREPARATION"
         \/ /\ handler'[h].step = "respond" /\ handler'[h].kind = handler[h].kind
            /\ handler[h].kind = "UEContextSetupRequest" /\ ho.state # "PREPARATION"
         \/ handler'[h].step = "idle" /\ handler'[h].kind = "DLRRCMessageTransfer"
  BY TypeParts, StepFacts, FinishFacts DEF Dispatch, IsHandoverSetup, HandlerSteps
<1>2. Sides' /\ Counts' /\ LoopInv'
  BY <1>1 DEF Sides, Counts, LoopInv
<1>3. ASSUME NEW g \in Handler PROVE Fits(g)'
  BY <1>1 DEF Fits, HandlerInv, Sides
<1>4. ASSUME NEW f \in Handler, NEW g \in Handler PROVE Alone(f, g)'
  BY <1>1 DEF Alone, HandlerInv
<1>. QED  BY <1>2, <1>3, <1>4 DEF HandlerInv

LEMMA AloneKept ==
    ASSUME HandlerInv, NEW h \in Handler,
           \A g \in Handler \ {h} : handler'[g] = handler[g],
           handler'[h].kind \in {handler[h].kind, "DLRRCMessageTransfer"},
           NEW f \in Handler, NEW g \in Handler
    PROVE  Alone(f, g)'
BY DEF HandlerInv, Alone

LEMMA InvForward ==
    ASSUME IInv, NEW h \in Handler, Forward(h)
    PROVE  Sides' /\ Counts' /\ HandlerInv' /\ LoopInv'
<1>. USE DEF IInv
<1>1. /\ handler[h].step = "forward" /\ handler[h].kind \in Kinds
      /\ ho' = ho /\ loop' = loop /\ cu' = cu
  BY TypeParts DEF Forward, Goroutine
<1>2. /\ \A g \in Handler \ {h} : handler'[g] = handler[g]
      /\ \/ /\ handler'[h].step = "idle" /\ handler'[h].kind = "DLRRCMessageTransfer"
            /\ ue'.commands = ue.commands
         \/ /\ handler'[h].kind = handler[h].kind
            /\ handler'[h].step = "respond" /\ handler[h].kind = "UEContextSetupRequest"
            /\ ue'.commands = ue.commands
         \/ /\ handler'[h].kind = handler[h].kind
            /\ handler'[h].step = "execute"
            /\ handler[h].kind = "UEContextModificationConfirm"
            /\ ue'.commands = ue.commands + 1
  <2>1. CASE ue.open
    <3>1. /\ ForwardToUe(handler[h].kind)
          /\ IF AfterForward(h) = "idle" THEN Finish(h) ELSE Step(h, AfterForward(h))
      BY <2>1 DEF Forward
    <3>2. ue'.commands = IF handler[h].kind = "UEContextModificationConfirm"
                         THEN ue.commands + 1 ELSE ue.commands
      BY <3>1, TypeParts DEF ForwardToUe, Ue
    <3>3. CASE handler[h].kind = "DLRRCMessageTransfer"
      BY <3>1, <3>2, <3>3, TypeParts, FinishFacts DEF AfterForward
    <3>4. CASE handler[h].kind = "UEContextSetupRequest"
      <4>1. Step(h, "respond") /\ "respond" \in HandlerSteps
        BY <3>1, <3>4 DEF AfterForward, HandlerSteps
      <4>. QED  BY <3>2, <3>4, <4>1, TypeParts, StepFacts
    <3>5. CASE handler[h].kind = "UEContextModificationConfirm"
      <4>1. Step(h, "execute") /\ "execute" \in HandlerSteps
        BY <3>1, <3>5 DEF AfterForward, HandlerSteps
      <4>. QED  BY <3>2, <3>5, <4>1, TypeParts, StepFacts
    <3>. QED  BY <1>1, <3>3, <3>4, <3>5 DEF Kinds
  <2>2. CASE ~ue.open
    BY <2>2, TypeParts, StepFacts, FinishFacts DEF Forward, HandlerSteps
  <2>. QED  BY <2>1, <2>2
<1>3. Fits(h)
  BY DEF HandlerInv
<1>4. Sides' /\ LoopInv'
  BY <1>1 DEF Sides, LoopInv
<1>5. Counts'
  BY <1>1, <1>2, <1>3 DEF Counts, Fits
<1>6. ASSUME NEW g \in Handler PROVE Fits(g)'
  <2>1. CASE g = h
    BY <1>1, <1>2, <1>3, <2>1 DEF Fits
  <2>2. CASE g # h
    <3>1. handler'[g] = handler[g] /\ Fits(g) /\ Alone(g, h)
      BY <1>2, <2>2 DEF HandlerInv
    <3>. QED  BY <1>1, <1>2, <2>2, <3>1 DEF Fits, Alone
  <2>. QED  BY <2>1, <2>2
<1>. QED  BY <1>1, <1>2, <1>4, <1>5, <1>6, AloneKept DEF HandlerInv

LEMMA InvExecute ==
    ASSUME IInv, NEW h \in Handler, Execute(h)
    PROVE  Sides' /\ Counts' /\ HandlerInv' /\ LoopInv'
<1>. USE DEF IInv
<1>1. /\ handler[h].step = "execute" /\ ho' = [role |-> "SOURCE", state |-> "EXECUTION"]
      /\ ue' = ue /\ loop' = loop /\ cu' = cu
      /\ handler'[h].step = "idle" /\ handler'[h].kind = "DLRRCMessageTransfer"
      /\ \A g \in Handler \ {h} : handler'[g] = handler[g]
  BY TypeParts, FinishFacts DEF Execute, SetSourceHandoverState
<1>2. /\ Fits(h) /\ ho.role = "SOURCE" /\ cu.required = 1 /\ ue.commands = 1
  BY <1>1 DEF HandlerInv, Fits, Counts
<1>3. Sides' /\ Counts' /\ LoopInv'
  BY <1>1, <1>2 DEF Sides, Counts, LoopInv
<1>4. ASSUME NEW g \in Handler PROVE Fits(g)'
  BY <1>1, <1>2 DEF Fits, HandlerInv
<1>. QED  BY <1>1, <1>3, <1>4, AloneKept DEF HandlerInv

LEMMA InvAdmit ==
    ASSUME IInv, NEW h \in Handler, Admit(h) \/ CheckRole(h)
    PROVE  Sides' /\ Counts' /\ HandlerInv' /\ LoopInv'
<1>. USE DEF IInv
<1>1. /\ ho' = ho /\ ue'.commands = ue.commands /\ loop' = loop /\ cu' = cu
      /\ handler'[h].kind = handler[h].kind
      /\ \A g \in Handler \ {h} : handler'[g] = handler[g]
      /\ \/ handler[h].step = "admit" /\ handler'[h].step = "checkRole"
         \/ /\ handler[h].step = "checkRole"
            /\ \/ handler'[h].step = "openRach" /\ ho.role = "TARGET"
               \/ handler'[h].step = "respond" /\ ho.role # "TARGET"
  BY TypeParts, StepFacts DEF Admit, CheckRole, HandlerSteps, Ue
<1>2. Sides' /\ Counts' /\ LoopInv'
  BY <1>1 DEF Sides, Counts, LoopInv
<1>3. ASSUME NEW g \in Handler PROVE Fits(g)'
  <2>1. Fits(g) /\ Fits(h)
    BY DEF HandlerInv
  <2>2. CASE g = h
    BY <1>1, <2>1, <2>2 DEF Fits
  <2>3. CASE g # h
    BY <1>1, <2>1, <2>3 DEF Fits
  <2>. QED  BY <2>2, <2>3
<1>. QED  BY <1>1, <1>2, <1>3, AloneKept DEF HandlerInv

LEMMA InvOpenRach ==
    ASSUME IInv, NEW h \in Handler, OpenRach(h)
    PROVE  Sides' /\ Counts' /\ HandlerInv' /\ LoopInv'
<1>. USE DEF IInv
<1>1. /\ handler[h].step = "openRach" /\ ho' = [role |-> "TARGET", state |-> "EXECUTION"]
      /\ ue' = ue /\ loop' = loop /\ cu' = cu
      /\ handler'[h].step = "respond" /\ handler'[h].kind = handler[h].kind
      /\ \A g \in Handler \ {h} : handler'[g] = handler[g]
  BY TypeParts, StepFacts DEF OpenRach, SetTargetHandoverState, HandlerSteps
<1>2. /\ ho.role = "TARGET" /\ ho.state = "PREPARATION" /\ ~cu.admitted
      /\ handler[h].kind = "UEContextSetupRequest" /\ Fits(h)
  BY <1>1 DEF HandlerInv, Fits
<1>3. Sides' /\ Counts' /\ LoopInv'
  BY <1>1, <1>2 DEF Sides, Counts, LoopInv
<1>4. ASSUME NEW g \in Handler PROVE Fits(g)'
  <2>1. CASE g = h
    BY <1>1, <1>2, <2>1 DEF Fits
  <2>2. CASE g # h
    <3>1. handler'[g] = handler[g] /\ Fits(g) /\ Alone(h, g)
      BY <1>1, <2>2 DEF HandlerInv
    <3>. QED  BY <1>1, <1>2, <2>2, <3>1 DEF Fits, Alone
  <2>. QED  BY <2>1, <2>2
<1>. QED  BY <1>1, <1>3, <1>4, AloneKept DEF HandlerInv

LEMMA InvRespond ==
    ASSUME IInv, NEW h \in Handler, Respond(h)
    PROVE  Sides' /\ Counts' /\ HandlerInv' /\ LoopInv'
<1>. USE DEF IInv
<1>1. /\ handler[h].step = "respond"
      /\ ho' = ho /\ ue' = ue /\ loop' = loop
      /\ handler'[h].step = "idle" /\ handler'[h].kind = "DLRRCMessageTransfer"
      /\ \A g \in Handler \ {h} : handler'[g] = handler[g]
      /\ cu'.required = cu.required /\ (cu'.confirmed <=> cu.confirmed)
      /\ cu.admitted => cu'.admitted
  BY TypeParts, FinishFacts DEF Respond, Cu
<1>2. Fits(h) /\ handler[h].kind = "UEContextSetupRequest"
  BY <1>1 DEF HandlerInv, Fits
<1>3. Sides' /\ LoopInv'
  BY <1>1, <1>2 DEF Sides, LoopInv, Fits
<1>4. Counts'
  BY <1>1 DEF Counts
<1>5. ASSUME NEW g \in Handler PROVE Fits(g)'
  <2>1. CASE g = h
    BY <1>1, <1>2, <2>1 DEF Fits
  <2>2. CASE g # h
    <3>1. handler'[g] = handler[g] /\ Fits(g) /\ Alone(h, g)
      BY <1>1, <2>2 DEF HandlerInv
    <3>2. handler[g].kind # "UEContextSetupRequest"
      BY <1>2, <2>2, <3>1 DEF Alone
    <3>. QED  BY <1>1, <3>1, <3>2 DEF Fits
  <2>. QED  BY <2>1, <2>2
<1>. QED  BY <1>1, <1>3, <1>4, <1>5, AloneKept DEF HandlerInv

\* Most of the loop's steps leave the goroutines' part alone.
LEMMA HandlerInvKept ==
    ASSUME HandlerInv, UNCHANGED <<ho, handler>>, ue'.commands = ue.commands,
           cu'.confirmed <=> cu.confirmed, cu'.outstanding <=> cu.outstanding,
           cu'.admitted <=> cu.admitted
    PROVE  HandlerInv'
BY DEF HandlerInv, Fits, Alone

LEMMA InvLoop ==
    ASSUME IInv,
           \/ ReceiveMeasurementReport \/ ReceiveReconfigurationComplete \/ ReceiveOther
           \/ LoopStep \/ UeReceives
    PROVE  Sides' /\ Counts' /\ HandlerInv' /\ LoopInv'
<1>. USE TypeParts DEF IInv
<1>1. CASE ReceiveMeasurementReport \/ ReceiveReconfigurationComplete \/ ReceiveOther
  <2>1. /\ UNCHANGED <<ho, cuUeId, ue, handler, cu>>
        /\ loop'.step \in {"scan", "complete", "uplink"}
        /\ loop'.step = "complete" => ho.role = "TARGET" /\ cu.admitted
    BY <1>1 DEF ReceiveMeasurementReport, ReceiveReconfigurationComplete, ReceiveOther,
                LoopTo, Loop
  <2>. QED  BY <2>1, HandlerInvKept DEF Sides, Counts, LoopInv
<1>2. CASE Scan
  <2>1. /\ UNCHANGED <<ho, cuUeId, ue, handler, cu>>
        /\ loop'.step \in {"scan", "prepare", "uplink"}
        /\ loop'.step = "prepare" => ho.state = "IDLE"
    BY <1>2 DEF Scan, MayTrigger, LoopTo, Loop
  <2>. QED  BY <2>1, HandlerInvKept DEF Sides, Counts, LoopInv
<1>3. CASE Prepare
  <2>1. /\ ho' = [role |-> "SOURCE", state |-> "PREPARATION"]
        /\ UNCHANGED <<ue, handler, cu>>
        /\ loop.step = "prepare" /\ loop'.step = "require"
    BY <1>3 DEF Prepare, SetSourceHandoverState, LoopTo, Loop
  <2>2. ho.role = "NONE" /\ cu.required = 0 /\ ~cu.confirmed
    BY <2>1 DEF LoopInv, Counts
  <2>3. Sides' /\ Counts' /\ LoopInv'
    BY <2>1, <2>2 DEF Sides, Counts, LoopInv
  <2>. QED  BY <2>1, <2>2, <2>3 DEF HandlerInv, Fits, Alone
<1>4. CASE Require
  <2>1. /\ UNCHANGED <<ho, ue, handler>> /\ loop.step = "require"
        /\ \/ cu' = cu /\ loop'.step \in {"scan", "fail"}
           \/ cu'.required = cu.required + 1 /\ loop'.step = "scan"
        /\ (cu'.confirmed <=> cu.confirmed) /\ (cu'.outstanding <=> cu.outstanding)
        /\ (cu'.admitted <=> cu.admitted)
    BY <1>4 DEF Require, LoopTo, Loop, Cu
  <2>. QED  BY <2>1, HandlerInvKept DEF Sides, Counts, LoopInv
<1>5. CASE Fail
  <2>1. /\ ho' = [role |-> "SOURCE", state |-> "FAILED"]
        /\ UNCHANGED <<ue, handler, cu>>
        /\ loop.step = "fail" /\ loop'.step = "scan"
    BY <1>5 DEF Fail, SetSourceHandoverState, LoopTo, Loop
  <2>2. ho.role = "SOURCE" /\ cu.required = 0 /\ ~cu.confirmed
    BY <2>1 DEF LoopInv, Counts
  <2>3. Sides' /\ Counts' /\ LoopInv'
    BY <2>1, <2>2 DEF Sides, Counts, LoopInv
  <2>. QED  BY <2>1, <2>2, <2>3 DEF HandlerInv, Fits, Alone
<1>6. CASE Complete
  <2>1. /\ ho' = [role |-> "TARGET", state |-> "COMPLETED"]
        /\ UNCHANGED <<ue, handler, cu>>
        /\ loop.step = "complete" /\ loop'.step = "uplink"
    BY <1>6 DEF Complete, SetTargetHandoverState, LoopTo, Loop
  <2>2. ho.role = "TARGET" /\ cu.admitted
    BY <2>1 DEF LoopInv
  <2>3. Sides' /\ Counts' /\ LoopInv'
    BY <2>1, <2>2 DEF Sides, Counts, LoopInv
  <2>. QED  BY <2>1, <2>2, <2>3 DEF HandlerInv, Fits, Alone
<1>7. CASE Uplink
  <2>1. /\ UNCHANGED <<ho, ue, handler>> /\ loop'.step = "idle"
        /\ cu'.required = cu.required
        /\ (cu'.confirmed <=> cu.confirmed) /\ (cu'.outstanding <=> cu.outstanding)
        /\ (cu'.admitted <=> cu.admitted)
    BY <1>7 DEF Uplink, Cu
  <2>. QED  BY <2>1, HandlerInvKept DEF Sides, Counts, LoopInv
<1>8. CASE UeReceives
  <2>1. ue'.commands = ue.commands /\ UNCHANGED <<ho, handler, loop, cu>>
    BY <1>8 DEF UeReceives, Ue
  <2>. QED  BY <2>1, HandlerInvKept DEF Sides, Counts, LoopInv
<1>. QED  BY <1>1, <1>2, <1>3, <1>4, <1>5, <1>6, <1>7, <1>8 DEF LoopStep

\* What the CU-CP is told changes in two places.
LEMMA InvTold ==
    ASSUME TypeOK, Told, Next
    PROVE  Told'
<1>1. plmn' = plmn
  BY DEF Next
<1>2. \/ cu'.told = cu.told
      \/ cu'.told = cu.told \cup {<<"contextSetup", responsePlmn(plmn)>>}
      \/ cu'.told = cu.told \cup {<<"initialUL", convertMccMncToPlmn(plmn)>>}
  <2>1. ASSUME NEW h \in Handler, HandleMessage(h) PROVE cu'.told = cu.told
    BY <2>1, TypeParts DEF HandleMessage, Kinds, Cu
  <2>2. ASSUME NEW h \in Handler, HandlerStep(h)
        PROVE  \/ cu'.told = cu.told
               \/ cu'.told = cu.told \cup {<<"contextSetup", responsePlmn(plmn)>>}
    BY <2>2, TypeParts
       DEF HandlerStep, Dispatch, Forward, Execute, Admit, CheckRole, OpenRach, Respond, Cu
  <2>3. ASSUME LoopStep
        PROVE  \/ cu'.told = cu.told
               \/ cu'.told = cu.told \cup {<<"initialUL", convertMccMncToPlmn(plmn)>>}
    BY <2>3, TypeParts DEF LoopStep, Scan, Prepare, Require, Fail, Complete, Uplink, Cu
  <2>4. ASSUME \/ ReceiveMeasurementReport \/ ReceiveReconfigurationComplete
               \/ ReceiveOther \/ UeReceives
        PROVE  cu'.told = cu.told
    BY <2>4 DEF ReceiveMeasurementReport, ReceiveReconfigurationComplete, ReceiveOther,
                UeReceives
  <2>. QED  BY <2>1, <2>2, <2>3, <2>4 DEF Next
<1>. QED  BY <1>1, <1>2 DEF Told

LEMMA InvStep == IInv /\ [Next]_<<vars, plmn>> => IInv'
<1>. SUFFICES ASSUME IInv, [Next]_<<vars, plmn>> PROVE IInv'
  OBVIOUS
<1>1. TypeOK'
  BY TypeStep DEF IInv
<1>2. CASE Next
  <2>1. Told'
    BY <1>2, InvTold DEF IInv
  <2>2. Sides' /\ Counts' /\ HandlerInv' /\ LoopInv'
    <3>1. ASSUME NEW h \in Handler, HandleMessage(h) \/ HandlerStep(h)
          PROVE  Sides' /\ Counts' /\ HandlerInv' /\ LoopInv'
      BY <3>1, InvHandleMessage, InvDispatch, InvForward, InvExecute, InvAdmit, InvOpenRach,
         InvRespond DEF HandlerStep
    <3>. QED  BY <1>2, <3>1, InvLoop DEF Next
  <2>. QED  BY <1>1, <2>1, <2>2 DEF IInv
<1>3. CASE UNCHANGED <<vars, plmn>>
  BY <1>1, <1>3 DEF vars, IInv, Sides, Counts, HandlerInv, Fits, Alone, LoopInv, Told
<1>. QED  BY <1>2, <1>3

\* The inductive invariant holds: no goroutine that is about to act on hoCtx
\* finds it changed in a way its earlier test did not allow for.
THEOREM Invariance == Spec => []IInv
BY InitInv, InvStep, PTL DEF Spec

\* At most one handover is required, and by a source DU, for any number of
\* goroutines, reports and neighbours.
THEOREM TriggeredOnce == Spec => []OneTrigger
<1>1. IInv => OneTrigger
  BY DEF IInv, Counts, OneTrigger
<1>. QED  BY <1>1, Invariance, PTL

\* A source DU that executes a handover has given the UE its command.
THEOREM CommandFirst == Spec => []CommandBeforeExecution
<1>1. IInv => CommandBeforeExecution
  BY DEF IInv, Counts, CommandBeforeExecution
<1>. QED  BY <1>1, Invariance, PTL

\* The configured PLMN, where the CU-CP is told it and both encoders work.
PlmnAgree ==
    TwoDigitsOrOne(plmn) =>
        \A t \in cu.told : t[1] # "setupCell" => t[2] = responsePlmn(plmn)

\* With an MNC of two digits the F1 setup's list of PLMNs, the Initial UL and
\* the context setup tell the CU-CP the same identity, for every PLMN that may
\* be configured (f1ap_client.go:318, ue_context_setup.go:147).
THEOREM PlmnsTold == Spec => []PlmnAgree
<1>1. ASSUME IInv PROVE PlmnAgree
  <2>1. plmn \in PlmnId
    BY <1>1, PlmnType, TypeParts DEF IInv
  <2>2. convertMccMncToPlmn(plmn) = responsePlmn(plmn) <=> TwoDigitsOrOne(plmn)
    BY <2>1, EncodersAgree
  <2>. QED  BY <1>1, <2>2 DEF PlmnAgree, IInv, Told
<1>. QED  BY <1>1, Invariance, PTL

------------------------------------------------------------------------------
(* Steps                                                                    *)

LEMMA ForwardStep ==
    ASSUME IInv, [Next]_<<vars, plmn>>, ho.role # "NONE"
    PROVE  ho'.role = ho.role /\ Rank(ho'.state) >= Rank(ho.state)
<1>. USE TypeParts DEF IInv
<1>1. CASE ho' = ho
  <2>1. Rank(ho.state) \in Int
    BY DEF Context, HoStates, Rank
  <2>. QED  BY <1>1, <2>1
<1>2. ASSUME NEW h \in Handler, Execute(h)
      PROVE  ho'.role = ho.role /\ Rank(ho'.state) >= Rank(ho.state)
  <2>1. ho' = [role |-> "SOURCE", state |-> "EXECUTION"]
        /\ ho.role = "SOURCE" /\ ho.state \in {"PREPARATION", "EXECUTION"}
    BY <1>2 DEF Execute, SetSourceHandoverState, HandlerInv, Fits, Counts, Sides
  <2>. QED  BY <2>1 DEF Rank
<1>3. ASSUME NEW h \in Handler, OpenRach(h)
      PROVE  ho'.role = ho.role /\ Rank(ho'.state) >= Rank(ho.state)
  <2>1. ho' = [role |-> "TARGET", state |-> "EXECUTION"]
        /\ ho.role = "TARGET" /\ ho.state = "PREPARATION"
    BY <1>3 DEF OpenRach, SetTargetHandoverState, HandlerInv, Fits
  <2>. QED  BY <2>1 DEF Rank
<1>4. CASE Prepare
  BY <1>4 DEF Prepare, LoopInv
<1>5. CASE Fail
  <2>1. ho' = [role |-> "SOURCE", state |-> "FAILED"]
        /\ ho.role = "SOURCE" /\ ho.state = "PREPARATION"
    BY <1>5 DEF Fail, SetSourceHandoverState, LoopInv
  <2>. QED  BY <2>1 DEF Rank
<1>6. CASE Complete
  <2>1. ho' = [role |-> "TARGET", state |-> "COMPLETED"]
        /\ ho.role = "TARGET" /\ ho.state \in {"PREPARATION", "EXECUTION", "COMPLETED"}
    BY <1>6 DEF Complete, SetTargetHandoverState, LoopInv, Sides
  <2>. QED  BY <2>1 DEF Rank
<1>7. ASSUME NEW h \in Handler, HandleMessage(h) \/ HandlerStep(h)
      PROVE  Execute(h) \/ OpenRach(h) \/ ho' = ho
  BY <1>7 DEF HandleMessage, HandlerStep, Dispatch, Forward, Admit, CheckRole, Respond
<1>8. ASSUME \/ ReceiveMeasurementReport \/ ReceiveReconfigurationComplete \/ ReceiveOther
             \/ LoopStep \/ UeReceives
      PROVE  Prepare \/ Fail \/ Complete \/ ho' = ho
  BY <1>8 DEF ReceiveMeasurementReport, ReceiveReconfigurationComplete, ReceiveOther,
              LoopStep, Scan, Require, Uplink, UeReceives
<1>. QED
  BY <1>1, <1>2, <1>3, <1>4, <1>5, <1>6, <1>7, <1>8 DEF Next, vars

\* A handover never runs backwards, and a DU never changes sides: every
\* step, of any goroutine or the loop, finds the context far enough.
THEOREM Forwards == Spec => NeverBackwards
<1>1. IInv /\ [Next]_<<vars, plmn>> =>
         [ho.role # "NONE" => ho'.role = ho.role /\ Rank(ho'.state) >= Rank(ho.state)]_vars
  BY ForwardStep
<1>. QED  BY <1>1, Invariance, PTL DEF Spec, NeverBackwards

------------------------------------------------------------------------------
(* The handover command                                                     *)

Executing == ho = [role |-> "SOURCE", state |-> "EXECUTION"] /\ ue.commands = 1

\* A goroutine with a handover command that the UE does not have, or has
\* without the context saying so.
Holds(h) ==
    /\ handler[h].kind = "UEContextModificationConfirm" /\ handler[h].container
    /\ handler[h].step \in {"dispatch", "forward", "execute"}

\* Only a target may be without a UE channel, and so drop the command.
Kept ==
    /\ ho.role # "TARGET" => ue.open
    /\ cu.command => Executing \/ \E h \in Handler : Holds(h)

\* Who leaves the command's goroutine and an execution alone.
LEMMA KeptAside ==
    ASSUME Kept, ue'.commands = ue.commands, ue.open => ue'.open, cu'.command <=> cu.command,
           ho' = ho \/ (~Executing /\ ho.role # "TARGET") \/ (~Executing /\ ho'.role = "TARGET"),
           \A h \in Handler : Holds(h) => handler'[h] = handler[h]
    PROVE  Kept'
<1>1. Executing => Executing'
  BY DEF Executing
<1>2. ASSUME NEW h \in Handler, Holds(h) PROVE Holds(h)'
  BY <1>2 DEF Holds
<1>. QED  BY <1>1, <1>2 DEF Kept

LEMMA KeptHandleMessage ==
    ASSUME IInv, Kept, NEW h \in Handler, HandleMessage(h)
    PROVE  Kept'
<1>. USE TypeParts DEF IInv
<1>1. PICK kind \in Kinds, container \in BOOLEAN, id \in CuId :
         /\ handler' = [handler EXCEPT ![h] =
                 [step |-> "dispatch", kind |-> kind, container |-> container, id |-> id]]
         /\ cu' = CASE kind = "DLRRCMessageTransfer" -> cu
                    [] kind = "UEContextModificationConfirm" ->
                         [cu EXCEPT !.confirmed = TRUE, !.command = container]
                    [] kind = "UEContextSetupRequest" ->
                         [cu EXCEPT !.setups = @ + 1, !.outstanding = TRUE]
         /\ handler[h] = Idle /\ UNCHANGED <<ho, ue>>
  BY DEF HandleMessage
<1>2. handler'[h] = [step |-> "dispatch", kind |-> kind, container |-> container, id |-> id]
  BY <1>1
<1>3. CASE kind = "UEContextModificationConfirm"
  <2>1. cu'.command = container
    BY <1>1, <1>3 DEF Cu
  <2>2. container => Holds(h)'
    BY <1>2, <1>3 DEF Holds
  <2>. QED  BY <1>1, <2>1, <2>2 DEF Kept
<1>4. CASE kind # "UEContextModificationConfirm"
  <2>1. cu'.command <=> cu.command
    BY <1>1, <1>4 DEF Kinds, Cu
  <2>2. \A g \in Handler : Holds(g) => handler'[g] = handler[g]
    BY <1>1 DEF Holds, Idle
  <2>. QED  BY <1>1, <2>1, <2>2, KeptAside
<1>. QED  BY <1>3, <1>4

LEMMA KeptHandlerStep ==
    ASSUME IInv, Kept, NEW h \in Handler, HandlerStep(h)
    PROVE  Kept'
<1>. USE TypeParts DEF IInv
<1>1. handler[h] \in Goroutine /\ Fits(h)
  BY DEF HandlerInv
<1>2. CASE Dispatch(h)
  <2>1. /\ UNCHANGED <<ho, ue, cu>>
        /\ \A g \in Handler \ {h} : handler'[g] = handler[g]
    BY <1>2, StepFacts, FinishFacts DEF Dispatch, HandlerSteps
  <2>2. ASSUME Holds(h) PROVE Holds(h)'
    <3>1. Step(h, "forward")
      BY <1>2, <2>2 DEF Dispatch, IsHandoverSetup, Holds
    <3>2. handler'[h] = [handler[h] EXCEPT !.step = "forward"]
      BY <3>1 DEF Step
    <3>. QED  BY <1>1, <2>2, <3>2 DEF Holds, Goroutine
  <2>3. \A g \in Handler : Holds(g) => Holds(g)'
    BY <2>1, <2>2 DEF Holds
  <2>. QED  BY <2>1, <2>3 DEF Kept, Executing
<1>3. CASE Forward(h)
  <2>1. /\ UNCHANGED <<ho, cu>> /\ handler[h].step = "forward"
        /\ \A g \in Handler \ {h} : handler'[g] = handler[g]
    BY <1>1, <1>3, StepFacts, FinishFacts DEF Forward, HandlerSteps, AfterForward, Goroutine, Kinds
  <2>2. ue'.open <=> ue.open
    BY <1>3 DEF Forward, ForwardToUe, Ue
  <2>3. CASE handler[h].kind # "UEContextModificationConfirm"
    <3>1. ue'.commands = ue.commands
      BY <1>3, <2>3 DEF Forward, ForwardToUe, Ue
    <3>2. \A g \in Handler : Holds(g) => handler'[g] = handler[g]
      BY <2>1, <2>3 DEF Holds
    <3>. QED  BY <2>1, <2>2, <3>1, <3>2, KeptAside
  <2>4. CASE handler[h].kind = "UEContextModificationConfirm"
    <3>1. ho.role = "SOURCE" /\ ~Executing
      BY <1>1, <2>1, <2>4 DEF Fits, Counts, Executing
    <3>2. Step(h, "execute")
      BY <1>3, <2>4, <3>1 DEF Forward, AfterForward, Kept
    <3>3. handler'[h] = [handler[h] EXCEPT !.step = "execute"]
      BY <3>2 DEF Step
    <3>4. \A g \in Handler : Holds(g) => Holds(g)'
      BY <1>1, <2>1, <3>3 DEF Holds, Goroutine
    <3>. QED  BY <2>1, <2>2, <3>1, <3>4 DEF Kept
  <2>. QED  BY <2>3, <2>4
<1>4. CASE Execute(h)
  <2>1. /\ ho' = [role |-> "SOURCE", state |-> "EXECUTION"] /\ ue' = ue /\ cu' = cu
        /\ handler[h].step = "execute"
    BY <1>4 DEF Execute, SetSourceHandoverState
  <2>2. ue.commands = 1 /\ ho.role = "SOURCE"
    BY <1>1, <2>1 DEF Fits, Counts
  <2>. QED  BY <2>1, <2>2 DEF Kept, Executing
<1>5. CASE Admit(h) \/ CheckRole(h) \/ OpenRach(h) \/ Respond(h)
  <2>1. /\ handler[h].kind = "UEContextSetupRequest"
        /\ \A g \in Handler \ {h} : handler'[g] = handler[g]
    BY <1>1, <1>5, StepFacts, FinishFacts
       DEF Admit, CheckRole, OpenRach, Respond, HandlerSteps, Fits
  <2>2. ue'.commands = ue.commands /\ (ue.open => ue'.open) /\ (cu'.command <=> cu.command)
    BY <1>5 DEF Admit, CheckRole, OpenRach, Respond, Ue, Cu
  <2>3. \/ ho' = ho
        \/ ~Executing /\ ho'.role = "TARGET"
    BY <1>1, <1>5 DEF Admit, CheckRole, OpenRach, Respond, SetTargetHandoverState, Fits, Executing
  <2>4. \A g \in Handler : Holds(g) => handler'[g] = handler[g]
    BY <2>1 DEF Holds
  <2>. QED  BY <2>2, <2>3, <2>4, KeptAside
<1>. QED  BY <1>2, <1>3, <1>4, <1>5 DEF HandlerStep

LEMMA KeptLoop ==
    ASSUME IInv, Kept,
           \/ ReceiveMeasurementReport \/ ReceiveReconfigurationComplete \/ ReceiveOther
           \/ LoopStep \/ UeReceives
    PROVE  Kept'
<1>. USE TypeParts DEF IInv
<1>1. handler' = handler /\ ue'.commands = ue.commands /\ (ue'.open <=> ue.open)
      /\ (cu'.command <=> cu.command)
  BY DEF ReceiveMeasurementReport, ReceiveReconfigurationComplete, ReceiveOther, LoopStep,
         Scan, Prepare, Require, Fail, Complete, Uplink, UeReceives, Ue, Cu
<1>2. \/ ho' = ho
      \/ ~Executing /\ ho.role # "TARGET"
      \/ ~Executing /\ ho'.role = "TARGET"
  <2>1. CASE Prepare \/ Fail
    BY <2>1 DEF Prepare, Fail, LoopInv, Executing
  <2>2. CASE Complete
    BY <2>2 DEF Complete, SetTargetHandoverState, LoopInv, Executing
  <2>3. CASE ~(Prepare \/ Fail \/ Complete)
    BY <2>3 DEF ReceiveMeasurementReport, ReceiveReconfigurationComplete, ReceiveOther,
                LoopStep, Scan, Require, Uplink, UeReceives
  <2>. QED  BY <2>1, <2>2, <2>3
<1>. QED  BY <1>1, <1>2, KeptAside

LEMMA KeptStep == IInv /\ Kept /\ [Next]_<<vars, plmn>> => Kept'
<1>. SUFFICES ASSUME IInv, Kept, [Next]_<<vars, plmn>> PROVE Kept'
  OBVIOUS
<1>1. CASE Next
  BY <1>1, KeptHandleMessage, KeptHandlerStep, KeptLoop DEF Next
<1>2. CASE UNCHANGED <<vars, plmn>>
  BY <1>2 DEF vars, Kept, Executing, Holds
<1>. QED  BY <1>1, <1>2

\* A handover command is not lost between goroutine, channel and context, for
\* any number of goroutines and any capacity of the channel.
THEOREM CommandSafe == Spec => []CommandKept
<1>1. Init => Kept
  BY DEF Init, Kept
<1>2. Kept => CommandKept
  BY DEF Kept, Executing, Holds, CommandKept
<1>. QED  BY <1>1, <1>2, KeptStep, Invariance, PTL DEF Spec

------------------------------------------------------------------------------
(* The protocol                                                             *)

LEMMA HandlerSimulates ==
    ASSUME IInv, NEW h \in Handler, HandleMessage(h) \/ HandlerStep(h)
    PROVE  [HP!Next]_(HP!hpVars)
<1>. USE TypeParts DEF IInv, HP!hpVars
<1>1. handler[h] \in Goroutine /\ Fits(h)
  BY DEF HandlerInv
<1>2. CASE HandleMessage(h)
  BY <1>2 DEF HandleMessage, Kinds, Cu
<1>3. CASE Forward(h)
  <2>1. UNCHANGED <<ho, cu>> /\ handler[h].step = "forward"
    BY <1>3 DEF Forward
  <2>2. CASE handler[h].kind = "UEContextModificationConfirm" /\ ue.open
    <3>1. ue'.commands = ue.commands + 1
      BY <1>3, <2>2 DEF Forward, ForwardToUe, Ue
    <3>2. /\ ue.commands = 0 /\ cu.required = 1
          /\ ho.role = "SOURCE" /\ ho.state = "PREPARATION"
      BY <1>1, <2>1, <2>2 DEF Fits, Counts, Sides
    <3>3. HP!Command
      BY <2>1, <3>1, <3>2 DEF HP!Command, HP!Preparing
    <3>. QED  BY <3>3 DEF HP!Next
  <2>3. CASE ~(handler[h].kind = "UEContextModificationConfirm" /\ ue.open)
    BY <1>3, <2>1, <2>3 DEF Forward, ForwardToUe, Ue
  <2>. QED  BY <2>2, <2>3
<1>4. CASE Execute(h)
  <2>1. /\ ho' = [role |-> "SOURCE", state |-> "EXECUTION"] /\ ue' = ue /\ cu' = cu
        /\ handler[h].step = "execute"
    BY <1>4 DEF Execute, SetSourceHandoverState
  <2>2. /\ ue.commands = 1 /\ ho.role = "SOURCE" /\ ho.state \in {"PREPARATION", "EXECUTION"}
    BY <1>1, <2>1 DEF Fits, Counts, Sides
  <2>3. CASE ho.state = "PREPARATION"
    BY <2>1, <2>2, <2>3 DEF HP!Execute, HP!Preparing, HP!Next
  <2>. QED  BY <2>1, <2>2, <2>3
<1>5. CASE OpenRach(h)
  <2>1. /\ ho' = [role |-> "TARGET", state |-> "EXECUTION"] /\ ue' = ue /\ cu' = cu
        /\ ho.role = "TARGET" /\ ho.state = "PREPARATION" /\ ~cu.admitted
    BY <1>1, <1>5 DEF OpenRach, SetTargetHandoverState, Fits
  <2>2. HP!Open
    BY <2>1 DEF HP!Open, HP!Preparing
  <2>. QED  BY <2>2 DEF HP!Next
<1>6. CASE Respond(h)
  <2>1. /\ UNCHANGED <<ho, ue>> /\ cu'.required = cu.required
        /\ cu'.admitted = cu.admitted \/ cu'.admitted = TRUE
    BY <1>6 DEF Respond, Cu
  <2>2. ho.role = "TARGET" => ho.state # "PREPARATION"
    BY <1>1, <1>6 DEF Respond, Fits
  <2>3. CASE ho.role = "TARGET" /\ cu'.admitted = TRUE
    BY <2>1, <2>2, <2>3 DEF HP!Answer, HP!Next
  <2>. QED  BY <2>1, <2>3
<1>7. CASE Dispatch(h) \/ Admit(h) \/ CheckRole(h)
  BY <1>7 DEF Dispatch, Admit, CheckRole, Ue
<1>. QED  BY <1>2, <1>3, <1>4, <1>5, <1>6, <1>7 DEF HandlerStep

LEMMA LoopSimulates ==
    ASSUME IInv,
           \/ ReceiveMeasurementReport \/ ReceiveReconfigurationComplete \/ ReceiveOther
           \/ LoopStep \/ UeReceives
    PROVE  [HP!Next]_(HP!hpVars)
<1>. USE TypeParts DEF IInv, HP!hpVars
<1>1. CASE ReceiveMeasurementReport \/ ReceiveReconfigurationComplete \/ ReceiveOther
           \/ Scan \/ Uplink \/ UeReceives
  BY <1>1 DEF ReceiveMeasurementReport, ReceiveReconfigurationComplete, ReceiveOther,
              Scan, Uplink, UeReceives, Ue, Cu
<1>2. CASE Prepare
  <2>1. /\ ho' = [role |-> "SOURCE", state |-> "PREPARATION"] /\ UNCHANGED <<ue, cu>>
        /\ ho.role = "NONE"
    BY <1>2 DEF Prepare, SetSourceHandoverState, LoopInv
  <2>2. HP!Trigger
    BY <2>1 DEF HP!Trigger
  <2>. QED  BY <2>2 DEF HP!Next
<1>3. CASE Require
  <2>1. /\ UNCHANGED <<ho, ue>> /\ cu.required = 0
        /\ ho.role = "SOURCE" /\ ho.state = "PREPARATION"
        /\ cu' = cu \/ (cu'.required = 1 /\ (cu'.admitted <=> cu.admitted))
    BY <1>3 DEF Require, LoopInv, Cu
  <2>2. CASE cu' # cu
    BY <2>1, <2>2 DEF HP!Require, HP!Preparing, HP!Next
  <2>. QED  BY <2>1, <2>2
<1>4. CASE Fail
  <2>1. /\ ho' = [role |-> "SOURCE", state |-> "FAILED"] /\ UNCHANGED <<ue, cu>>
        /\ cu.required = 0 /\ ho.role = "SOURCE" /\ ho.state = "PREPARATION"
    BY <1>4 DEF Fail, SetSourceHandoverState, LoopInv
  <2>2. HP!GiveUp
    BY <2>1 DEF HP!GiveUp, HP!Preparing
  <2>. QED  BY <2>2 DEF HP!Next
<1>5. CASE Complete
  <2>1. /\ ho' = [role |-> "TARGET", state |-> "COMPLETED"] /\ UNCHANGED <<ue, cu>>
        /\ ho.role = "TARGET" /\ cu.admitted /\ ho.state \in {"EXECUTION", "COMPLETED"}
    BY <1>5 DEF Complete, SetTargetHandoverState, LoopInv, Sides
  <2>2. CASE ho.state = "EXECUTION"
    BY <2>1, <2>2 DEF HP!Complete, HP!Next
  <2>. QED  BY <2>1, <2>2
<1>. QED  BY <1>1, <1>2, <1>3, <1>4, <1>5 DEF LoopStep

LEMMA InitSimulates == Init => HP!Init
BY DEF Init, HP!Init, HP!Preparing

LEMMA ProtocolStep == IInv /\ [Next]_<<vars, plmn>> => [HP!Next]_(HP!hpVars)
<1>1. ASSUME IInv, Next PROVE [HP!Next]_(HP!hpVars)
  BY <1>1, HandlerSimulates, LoopSimulates DEF Next
<1>2. ASSUME UNCHANGED <<vars, plmn>> PROVE UNCHANGED HP!hpVars
  BY <1>2 DEF vars, HP!hpVars
<1>. QED  BY <1>1, <1>2

\* The DU implements the handover protocol: what its goroutines and its loop
\* do together is one handover of one side, for any number of goroutines,
\* reports, neighbours and setup requests.
THEOREM Protocol == Spec => ImplementsProtocol
BY InitSimulates, ProtocolStep, Invariance, PTL DEF Spec, ImplementsProtocol, HP!Spec
==============================================================================

-------------------------- MODULE UeContext_proofs --------------------------
(***************************************************************************)
(* The UE keeps its types, its security context always comes from the last *)
(* challenge it accepted, and its sequence number never goes back: for any *)
(* sets of identifiers and RAND values, any channel capacity, any number   *)
(* of goroutines and any network.                                          *)
(***************************************************************************)
EXTENDS UeContext, TLAPS

\* Sending keeps the channel's type and capacity.
LEMMA SendType ==
    ASSUME NEW type \in UlTypes, NEW key \in Kamf \cup {None}, NEW arg \in Kamf \cup {None},
           toDu \in Seq(UlMsg), Len(toDu) <= ChanCap, Send(type, key, arg)
    PROVE  toDu' \in Seq(UlMsg) /\ Len(toDu') <= ChanCap
BY SizeAssumption DEF Send, UlMsg

\* So does receiving.
LEMMA DuReceivesType ==
    ASSUME toDu \in Seq(UlMsg), Len(toDu) <= ChanCap, DuReceives
    PROVE  toDu' \in Seq(UlMsg) /\ Len(toDu') <= ChanCap
BY SizeAssumption DEF DuReceives

\* The key that protects a message is that of a context, or none.
LEMMA NasKeyType ==
    ASSUME secCtx \in Contexts \cup {None}
    PROVE  NasKey \in Kamf \cup {None}
BY DEF NasKey, Contexts

\* The messages that carry a challenge.
LEMMA ChallengeFields ==
    ASSUME NEW m \in DlNas, m.type = "AuthenticationRequest"
    PROVE  /\ m.ksi \in Ksi \cup {NoKsi}
           /\ m.rand \in Rand
           /\ m.sqn \in Sqn
           /\ [rand |-> m.rand, sqn |-> m.sqn] \in Kamf
BY DEF DlNas, Kamf

\* TypeOK survives an authentication request, whatever its outcome.
LEMMA AuthenticationType ==
    ASSUME TypeOK, NEW m \in DlNas, HandleAuthenticationRequest(m)
    PROVE  TypeOK'
<1> USE DEF TypeOK
<1>1. m.type = "AuthenticationRequest"
  BY DEF HandleAuthenticationRequest
<1>2. /\ m.ksi \in Ksi \cup {NoKsi} /\ m.rand \in Rand /\ m.sqn \in Sqn
      /\ [rand |-> m.rand, sqn |-> m.sqn] \in Kamf
  BY <1>1, ChallengeFields
<1>3. UNCHANGED <<state, guti, trigger, held>>
  BY DEF HandleAuthenticationRequest
<1>4. CASE m.ksi = NoKsi \/ ~m.complete
  BY <1>3, <1>4 DEF HandleAuthenticationRequest
<1>5. CASE m.ksi # NoKsi /\ m.complete
  <2>1. UNCHANGED phase
    BY <1>5 DEF HandleAuthenticationRequest
  <2>2. CASE AuthOutcome(m) = "SUCCESS"
    <3>1. AuthSuccess(m)
      BY <1>5, <2>2 DEF HandleAuthenticationRequest
    <3>2. toDu' \in Seq(UlMsg) /\ Len(toDu') <= ChanCap
      BY <1>2, <3>1, SendType DEF AuthSuccess, UlTypes
    <3>3. /\ auth' \in [ngKsi : Ksi \cup {NoKsi}, rand : Rand \cup {None},
                        sqn : Sqn, kamf : Kamf \cup {None}]
          /\ secCtx' \in Contexts
      BY <1>2, <1>5, <3>1 DEF AuthSuccess, Contexts
    <3> QED BY <1>3, <2>1, <3>2, <3>3
  <2>3. CASE AuthOutcome(m) # "SUCCESS"
    <3>1. AuthFailure(m)
      BY <1>5, <2>3 DEF HandleAuthenticationRequest
    <3>2. [rand |-> m.rand, sqn |-> auth.sqn] \in Kamf
      BY <1>2 DEF Kamf
    <3>3. toDu' \in Seq(UlMsg) /\ Len(toDu') <= ChanCap
      BY <3>1, <3>2, SendType DEF AuthFailure, UlTypes
    <3>4. /\ auth' \in [ngKsi : Ksi \cup {NoKsi}, rand : Rand \cup {None},
                        sqn : Sqn, kamf : Kamf \cup {None}]
          /\ secCtx' = secCtx
      BY <1>2, <3>1 DEF AuthFailure
    <3> QED BY <1>3, <2>1, <3>3, <3>4
  <2> QED BY <2>2, <2>3
<1> QED BY <1>4, <1>5

\* TypeOK survives every other downlink message.
LEMMA OtherNasType ==
    ASSUME TypeOK, NEW m \in DlNas,
           \/ HandleSecurityModeCommand(m) \/ AcceptWithoutGuti(m)
           \/ HandleRegistrationAccept(m) \/ HandleReject(m) \/ HandleIdentityRequest(m) \/ HandleOther(m)
    PROVE  TypeOK'
<1> USE DEF TypeOK
<1>1. CASE HandleSecurityModeCommand(m)
  <2>1. CASE secCtx # None /\ Send("SecurityModeComplete", secCtx.kamf, None)
    <3>1. secCtx.kamf \in Kamf /\ [secCtx EXCEPT !.keyed = TRUE] \in Contexts
      BY <2>1 DEF Contexts
    <3>2. toDu' \in Seq(UlMsg) /\ Len(toDu') <= ChanCap
      BY <2>1, <3>1, SendType DEF UlTypes
    <3> QED BY <1>1, <3>1, <3>2 DEF HandleSecurityModeCommand
  <2>2. CASE UNCHANGED <<secCtx, toDu>>
    BY <1>1, <2>2 DEF HandleSecurityModeCommand
  <2> QED BY <1>1, <2>1, <2>2 DEF HandleSecurityModeCommand
<1>2. CASE HandleRegistrationAccept(m)
  <2>1. toDu' \in Seq(UlMsg) /\ Len(toDu') <= ChanCap
    BY <1>2, NasKeyType, SendType DEF HandleRegistrationAccept, UlTypes
  <2>2. guti' \in BOOLEAN
    BY <1>2 DEF HandleRegistrationAccept
  <2> QED BY <1>2, <2>1, <2>2 DEF HandleRegistrationAccept
<1>3. CASE HandleReject(m)
  BY <1>3 DEF HandleReject, ResetSecurityContext
<1>4. CASE HandleIdentityRequest(m)
  <2>1. toDu' \in Seq(UlMsg) /\ Len(toDu') <= ChanCap
    BY <1>4, NasKeyType, SendType DEF HandleIdentityRequest, UlTypes
  <2> QED BY <1>4, <2>1 DEF HandleIdentityRequest
<1>5. CASE HandleOther(m)
  BY <1>5 DEF HandleOther, vars
<1>6. CASE AcceptWithoutGuti(m)
  BY <1>6 DEF AcceptWithoutGuti
<1> QED BY <1>1, <1>2, <1>3, <1>4, <1>5, <1>6

\* TypeOK survives a step of a trigger goroutine.
LEMMA TriggerType ==
    ASSUME TypeOK, NEW t \in Triggers, TriggerStep(t) \/ DropN1Sm(t)
    PROVE  TypeOK'
<1> USE DEF TypeOK
<1>1. CASE WakeUp(t)
  BY <1>1 DEF WakeUp
<1>2. CASE FetchContext(t)
  <2>1. secCtx # None => secCtx.kamf \in Kamf
    BY DEF Contexts
  <2> QED BY <1>2, <2>1 DEF FetchContext
<1>3. CASE SendN1Sm(t)
  <2>1. toDu' \in Seq(UlMsg) /\ Len(toDu') <= ChanCap
    BY <1>3, SendType DEF SendN1Sm, FinishTrigger, UlTypes
  <2> QED BY <1>3, <2>1 DEF SendN1Sm, FinishTrigger
<1>4. CASE DropN1Sm(t)
  BY <1>4 DEF DropN1Sm, FinishTrigger
<1> QED BY <1>1, <1>2, <1>3, <1>4 DEF TriggerStep

\* TypeOK survives every step of the UE.
LEMMA NextType ==
    ASSUME TypeOK, [Next]_vars
    PROVE  TypeOK'
<1>1. CASE InitRRCConn
  <2>1. toDu' \in Seq(UlMsg) /\ Len(toDu') <= ChanCap
    BY <1>1, SendType DEF InitRRCConn, UlTypes, TypeOK
  <2> QED BY <1>1, <2>1 DEF InitRRCConn, TypeOK
<1>2. CASE HandleRRCSetup
  <2>1. toDu' \in Seq(UlMsg) /\ Len(toDu') <= ChanCap
    BY <1>2, SendType DEF HandleRRCSetup, UlTypes, TypeOK
  <2> QED BY <1>2, <2>1 DEF HandleRRCSetup, TypeOK
<1>3. CASE RefuseFirstMessage
  BY <1>3 DEF RefuseFirstMessage, TypeOK
<1>4. CASE \E m \in DlNas : HandleNas(m)
  BY <1>4, AuthenticationType, OtherNasType DEF HandleNas
<1>5. CASE \E t \in Triggers : TriggerStep(t) \/ DropN1Sm(t)
  BY <1>5, TriggerType
<1>6. CASE DuReceives
  <2>1. toDu' \in Seq(UlMsg) /\ Len(toDu') <= ChanCap
    BY <1>6, DuReceivesType DEF TypeOK
  <2> QED BY <1>6, <2>1 DEF DuReceives, TypeOK
<1>7. CASE UNCHANGED vars
  BY <1>7 DEF vars, TypeOK
<1>8. CASE HandleRRCReconfiguration
  BY <1>8 DEF HandleRRCReconfiguration, TypeOK
<1> QED BY <1>1, <1>2, <1>3, <1>4, <1>5, <1>6, <1>7, <1>8 DEF Next

LEMMA InitType ==
    ASSUME Init
    PROVE  TypeOK
<1>1. 0 \in Sqn
  BY SizeAssumption DEF Sqn
<1>2. auth \in [ngKsi : Ksi \cup {NoKsi}, rand : Rand \cup {None},
               sqn : Sqn, kamf : Kamf \cup {None}]
  BY <1>1, KsiAssumption DEF Init
<1>3. toDu \in Seq(UlMsg) /\ Len(toDu) <= ChanCap
  BY SizeAssumption DEF Init
<1>4. /\ trigger \in [Triggers -> {"idle", "sleeping", "checked", "sending"}]
      /\ held \in [Triggers -> Kamf \cup {None}]
  BY DEF Init
<1> QED BY <1>2, <1>3, <1>4 DEF Init, TypeOK

\* The UE's variables keep their types: the channel its capacity, the
\* goroutines their steps, the contexts their keys.
THEOREM TypeCorrect == Spec => []TypeOK
BY InitType, NextType, PTL DEF Spec

------------------------------------------------------------------------------
(* The invariant that is inductive: nothing but an accepted challenge       *)
(* changes the UE's K_AMF or its sequence number, and that installs a       *)
(* context with both; a context may only be keyed or dropped.               *)

\* A step leaves K_AMF and the sequence number alone, and the context too or
\* its key at least, or it accepts a challenge that is not older.
Sourced ==
    \/ /\ auth'.kamf = auth.kamf
       /\ auth'.sqn = auth.sqn
       /\ secCtx' # None => secCtx # None /\ secCtx'.kamf = secCtx.kamf
    \/ /\ auth'.sqn >= auth.sqn
       /\ auth'.kamf.sqn = auth'.sqn
       /\ secCtx' # None => secCtx'.kamf = auth'.kamf

LEMMA AuthenticationSourced ==
    ASSUME TypeOK, NEW m \in DlNas, HandleAuthenticationRequest(m)
    PROVE  Sourced
<1>1. m.type = "AuthenticationRequest"
  BY DEF HandleAuthenticationRequest
<1>2. m.sqn \in Sqn /\ auth.sqn \in Sqn
  BY <1>1, ChallengeFields DEF TypeOK
<1>3. CASE m.ksi = NoKsi \/ ~m.complete
  BY <1>3 DEF HandleAuthenticationRequest, Sourced
<1>4. CASE m.ksi # NoKsi /\ m.complete /\ AuthOutcome(m) = "SUCCESS"
  <2>1. AuthSuccess(m)
    BY <1>4 DEF HandleAuthenticationRequest
  <2>2. m.sqn >= auth.sqn
    BY <1>2, <1>4 DEF AuthOutcome, Sqn
  <2> QED BY <2>1, <2>2 DEF AuthSuccess, Sourced
<1>5. CASE m.ksi # NoKsi /\ m.complete /\ AuthOutcome(m) # "SUCCESS"
  <2>1. AuthFailure(m)
    BY <1>5 DEF HandleAuthenticationRequest
  <2> QED BY <2>1 DEF AuthFailure, Sourced, TypeOK
<1> QED BY <1>3, <1>4, <1>5

\* Every step of the UE is sourced.
LEMMA NextSourced ==
    ASSUME TypeOK, [Next]_vars
    PROVE  Sourced
<1>1. CASE InitRRCConn
  BY <1>1 DEF InitRRCConn, Sourced
<1>2. CASE HandleRRCSetup
  BY <1>2 DEF HandleRRCSetup, Sourced
<1>3. CASE RefuseFirstMessage
  BY <1>3 DEF RefuseFirstMessage, Sourced
<1>4. ASSUME NEW m \in DlNas, HandleNas(m) PROVE Sourced
  <2>1. CASE HandleAuthenticationRequest(m)
    BY <2>1, AuthenticationSourced
  <2>2. CASE HandleSecurityModeCommand(m)
    BY <2>2 DEF HandleSecurityModeCommand, Sourced, TypeOK, Contexts
  <2>3. CASE HandleRegistrationAccept(m)
    BY <2>3 DEF HandleRegistrationAccept, Sourced
  <2>4. CASE HandleReject(m)
    BY <2>4 DEF HandleReject, ResetSecurityContext, Sourced, TypeOK
  <2>5. CASE HandleIdentityRequest(m)
    BY <2>5 DEF HandleIdentityRequest, Sourced
  <2>6. CASE HandleOther(m)
    BY <2>6 DEF HandleOther, vars, Sourced
  <2>7. CASE AcceptWithoutGuti(m)
    BY <2>7 DEF AcceptWithoutGuti, Sourced
  <2> QED BY <1>4, <2>1, <2>2, <2>3, <2>4, <2>5, <2>6, <2>7 DEF HandleNas
<1>5. ASSUME NEW t \in Triggers, TriggerStep(t) \/ DropN1Sm(t) PROVE Sourced
  BY <1>5 DEF TriggerStep, WakeUp, FetchContext, SendN1Sm, DropN1Sm, FinishTrigger, Sourced
<1>6. CASE DuReceives
  BY <1>6 DEF DuReceives, Sourced
<1>7. CASE UNCHANGED vars
  BY <1>7 DEF vars, Sourced
<1>8. CASE HandleRRCReconfiguration
  BY <1>8 DEF HandleRRCReconfiguration, Sourced
<1> QED BY <1>1, <1>2, <1>3, <1>4, <1>5, <1>6, <1>7, <1>8 DEF Next

\* The context in use was derived from the last challenge the UE accepted,
\* at the UE's own sequence number (auth.go:73-92, handle_n1mm.go:164).
THEOREM ContextCorrect == Spec => []ContextFromLatestChallenge
<1>1. Init => ContextFromLatestChallenge
  BY DEF Init, ContextFromLatestChallenge
<1>2. TypeOK /\ ContextFromLatestChallenge /\ [Next]_vars => ContextFromLatestChallenge'
  BY NextSourced DEF Sourced, ContextFromLatestChallenge
<1> QED BY <1>1, <1>2, TypeCorrect, PTL DEF Spec

\* No sequence of messages and resets takes the sequence number back, so an
\* older challenge is never accepted (auth.go:56).
THEOREM SqnCorrect == Spec => SqnNeverDecreases
<1>1. TypeOK /\ [Next]_vars => [auth'.sqn >= auth.sqn]_vars
  BY NextSourced DEF Sourced, TypeOK, Sqn
<1> QED BY <1>1, TypeCorrect, PTL DEF Spec, SqnNeverDecreases
=============================================================================

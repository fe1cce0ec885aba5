----------------------------- MODULE UeContext -----------------------------
(***************************************************************************)
(* The simulated UE (src/internal/uecontext): its RRC bring-up, its 5GMM   *)
(* state, the 5G-AKA context `auth`, the NAS security context `secCtx`,    *)
(* and the goroutines that run beside the RRC listener.                    *)
(*                                                                         *)
(* Downlink NAS messages are inputs: HandleNas(m) is what the listener     *)
(* does with message m, whoever sent it and in whatever order it came.     *)
(* Uplink messages go into `toDu`, the Go channel SendToDuChannel, which   *)
(* the DU drains.  Registration.tla closes the loop with a network.        *)
(*                                                                         *)
(* Cryptography is symbolic: K_AMF, RES* and AUTS are functions of RAND    *)
(* and SQN (the subscriber key is fixed), so each is the pair              *)
(* [rand, sqn].  A key set identifier stands for the pair (TSC, Id).       *)
(***************************************************************************)
EXTENDS Naturals, Sequences

CONSTANTS
    Ksi,        \* key set identifiers with Id 0..6
    ZeroKsi,    \* the zero value of nas.KeySetIdentifier: Id 0, native
    NoKsi,      \* Id 7: "no key is available"
    Rand,       \* RAND values
    MaxSqn,     \* largest sequence number
    ChanCap,    \* capacity of SendToDuChannel (100 in du.InitUE)
    Triggers,   \* goroutines that may sleep before triggering a PDU session
    None        \* nil

ASSUME KsiAssumption == ZeroKsi \in Ksi /\ NoKsi \notin Ksi
ASSUME SizeAssumption == MaxSqn \in Nat /\ ChanCap \in Nat \ {0}

Sqn == 0 .. MaxSqn
Kamf == [rand : Rand, sqn : Sqn]
ASSUME NoneAssumption == None \notin Kamf \cup Rand

VARIABLES
    phase,    \* where the UE process is: InitUE's progress, then "listening"
    state,    \* ue.state
    guti,     \* whether the AMF has assigned a 5G-GUTI
    auth,     \* ue.auth: ngKsi, rand, sqn and kamf
    secCtx,   \* ue.secCtx: nil or a context; `keyed` once DeriveKeys has run
    trigger,  \* progress of each PDU session trigger goroutine
    held,     \* the NAS context each of them has fetched and not yet used
    toDu      \* SendToDuChannel

vars == <<phase, state, guti, auth, secCtx, trigger, held, toDu>>

UlTypes == {"RRCSetupRequest", "RegistrationRequest", "IdentityResponse",
            "AuthenticationResponse", "MacFailure", "SyncFailure",
            "SecurityModeComplete", "RegistrationComplete", "UlNasTransport"}
\* key: K_AMF of the context that protects the message.  arg: RES* or AUTS.
UlMsg == [type : UlTypes, key : Kamf \cup {None}, arg : Kamf \cup {None}]
Contexts == [ngKsi : Ksi, kamf : Kamf, keyed : BOOLEAN]
ASSUME ContextAssumption == None \notin Contexts

TypeOK ==
    /\ phase \in {"created", "waiting", "listening", "failed", "exited", "panicked"}
    /\ state \in {"DEREGISTERED", "REGISTERING", "REGISTERED"}
    /\ guti \in BOOLEAN
    /\ auth \in [ngKsi : Ksi \cup {NoKsi}, rand : Rand \cup {None},
                 sqn : Sqn, kamf : Kamf \cup {None}]
    /\ secCtx \in Contexts \cup {None}
    /\ trigger \in [Triggers -> {"idle", "sleeping", "checked", "sending"}]
    /\ held \in [Triggers -> Kamf \cup {None}]
    /\ toDu \in Seq(UlMsg)
    /\ Len(toDu) <= ChanCap

Init ==
    /\ phase = "created"
    /\ state = "DEREGISTERED"
    /\ guti = FALSE
    /\ auth = [ngKsi |-> ZeroKsi, rand |-> None, sqn |-> 0, kamf |-> None]
    /\ secCtx = None
    /\ trigger = [t \in Triggers |-> "idle"]
    /\ held = [t \in Triggers |-> None]
    /\ toDu = <<>>

------------------------------------------------------------------------------
(* Sending.  A send blocks while the channel is full.                       *)

\* A send that does not wait for room in the channel.
Bug_Send(type, key, arg) ==
    toDu' = Append(toDu, [type |-> type, key |-> key, arg |-> arg])

Send(type, key, arg) ==
    /\ Len(toDu) < ChanCap
    /\ toDu' = Append(toDu, [type |-> type, key |-> key, arg |-> arg])

\* getNasContext: the key of the current context, if there is one.
NasKey == IF secCtx = None THEN None ELSE secCtx.kamf

\* HandleRrcFromUE in the DU receives the oldest message.
DuReceives ==
    /\ toDu # <<>>
    /\ toDu' = Tail(toDu)
    /\ UNCHANGED <<phase, state, guti, auth, secCtx, trigger, held>>

------------------------------------------------------------------------------
(* RRC bring-up: InitUE blocks for the first downlink message, which must   *)
(* be an RRCSetup; only then does the listener start.                       *)

InitRRCConn ==
    /\ phase = "created"
    /\ Send("RRCSetupRequest", None, None)
    /\ phase' = "waiting"
    /\ UNCHANGED <<state, guti, auth, secCtx, trigger, held>>

HandleRRCSetup ==
    /\ phase = "waiting"
    /\ state' = "REGISTERING"
    /\ Send("RegistrationRequest", None, None)
    /\ phase' = "listening"
    /\ UNCHANGED <<guti, auth, secCtx, trigger, held>>

\* Any other first message makes InitUE return nil: the UE never listens.
RefuseFirstMessage ==
    /\ phase = "waiting"
    /\ phase' = "failed"
    /\ UNCHANGED <<state, guti, auth, secCtx, trigger, held, toDu>>

------------------------------------------------------------------------------
(* 5G-AKA                                                                   *)

\* A UE that has lost the test of the sequence number.
Bug_AuthOutcome(m) ==
    IF ~m.mac THEN "MAC_FAILURE" ELSE "SUCCESS"

\* processAuthenticationInfo: the MAC first, then the sequence number; an
\* equal sequence number is accepted.
AuthOutcome(m) ==
    IF ~m.mac THEN "MAC_FAILURE"
    ELSE IF auth.sqn > m.sqn THEN "SYNC_FAILURE"
    ELSE "SUCCESS"

\* A UE that keeps the context it has when it is challenged again.
Bug_SucceedWithOldContext(m) ==
    LET k == [rand |-> m.rand, sqn |-> m.sqn]
    IN  /\ auth' = [ngKsi |-> m.ksi, rand |-> m.rand, sqn |-> m.sqn, kamf |-> k]
        /\ secCtx' = IF secCtx = None
                     THEN [ngKsi |-> m.ksi, kamf |-> k, keyed |-> FALSE]
                     ELSE secCtx
        /\ Send("AuthenticationResponse", None, k)

\* A UE that does not store the new challenge's ngKSI.
Bug_SucceedWithOldKsi(m) ==
    LET k == [rand |-> m.rand, sqn |-> m.sqn]
    IN  /\ auth' = [auth EXCEPT !.rand = m.rand, !.sqn = m.sqn, !.kamf = k]
        /\ secCtx' = [ngKsi |-> m.ksi, kamf |-> k, keyed |-> FALSE]
        /\ Send("AuthenticationResponse", None, k)

\* AUTH_SUCCESS: a fresh, unkeyed context replaces whatever was there.
AuthSuccess(m) ==
    LET k == [rand |-> m.rand, sqn |-> m.sqn]
    IN  /\ auth' = [ngKsi |-> m.ksi, rand |-> m.rand, sqn |-> m.sqn, kamf |-> k]
        /\ secCtx' = [ngKsi |-> m.ksi, kamf |-> k, keyed |-> FALSE]
        /\ Send("AuthenticationResponse", None, k)

\* A UE that drops its context on a failed challenge.
Bug_AuthFailure(m) ==
    /\ auth' = [auth EXCEPT !.ngKsi = m.ksi, !.rand = m.rand]
    /\ secCtx' = None
    /\ IF AuthOutcome(m) = "MAC_FAILURE"
       THEN Send("MacFailure", None, None)
       ELSE Send("SyncFailure", None, [rand |-> m.rand, sqn |-> auth.sqn])

\* A failed challenge has already replaced ngKsi and rand.
AuthFailure(m) ==
    /\ auth' = [auth EXCEPT !.ngKsi = m.ksi, !.rand = m.rand]
    /\ secCtx' = secCtx
    /\ IF AuthOutcome(m) = "MAC_FAILURE"
       THEN Send("MacFailure", None, None)
       ELSE Send("SyncFailure", None, [rand |-> m.rand, sqn |-> auth.sqn])

\* ngKSI 7 or a missing ABBA, RAND or AUTN is logged Fatal: the process exits.
HandleAuthenticationRequest(m) ==
    /\ m.type = "AuthenticationRequest"
    /\ IF m.ksi = NoKsi \/ ~m.complete
       THEN phase' = "exited" /\ UNCHANGED <<auth, secCtx, toDu>>
       ELSE /\ IF AuthOutcome(m) = "SUCCESS" THEN AuthSuccess(m) ELSE AuthFailure(m)
            /\ UNCHANGED phase
    /\ UNCHANGED <<state, guti, trigger, held>>

------------------------------------------------------------------------------
(* Security mode, registration, identity                                    *)

ResetSecurityContext ==
    /\ secCtx' = None
    /\ auth' = [auth EXCEPT !.ngKsi = NoKsi]

\* A UE that derives keys during its first registration only.
Bug_HandleSecurityModeCommand(m) ==
    /\ m.type = "SecurityModeCommand"
    /\ IF m.ksi # auth.ngKsi \/ m.ksi = NoKsi
       THEN state' = "DEREGISTERED" /\ UNCHANGED <<phase, secCtx, toDu>>
       ELSE IF secCtx = None
       THEN phase' = "panicked" /\ UNCHANGED <<state, secCtx, toDu>>
       ELSE /\ secCtx' = [secCtx EXCEPT !.keyed = (state = "REGISTERING")]
            /\ Send("SecurityModeComplete", secCtx.kamf, None)
            /\ UNCHANGED <<phase, state>>
    /\ UNCHANGED <<guti, auth, trigger, held>>

\* The ngKSI is compared with auth.ngKsi, not with the context's own; keys
\* are then derived in the context, and a nil context panics.
HandleSecurityModeCommand(m) ==
    /\ m.type = "SecurityModeCommand"
    /\ IF m.ksi # auth.ngKsi \/ m.ksi = NoKsi
       THEN state' = "DEREGISTERED" /\ UNCHANGED <<phase, secCtx, toDu>>
       ELSE IF secCtx = None
       THEN phase' = "panicked" /\ UNCHANGED <<state, secCtx, toDu>>
       ELSE /\ secCtx' = [secCtx EXCEPT !.keyed = TRUE]
            /\ Send("SecurityModeComplete", secCtx.kamf, None)
            /\ UNCHANGED <<phase, state>>
    /\ UNCHANGED <<guti, auth, trigger, held>>

\* A mobile identity that is not a 5G-GUTI is not stored; the handler then
\* calls String on a nil GUTI, which may panic.
AcceptWithoutGuti(m) ==
    /\ m.type = "RegistrationAccept"
    /\ m.guti = "other" /\ ~guti
    /\ phase' = "panicked"
    /\ UNCHANGED <<state, guti, auth, secCtx, trigger, held, toDu>>

\* The goroutine started at the end sleeps 100 ms, then triggers a PDU
\* session.  The guard on an idle member of Triggers is a bound.
HandleRegistrationAccept(m) ==
    /\ m.type = "RegistrationAccept"
    /\ guti' = (guti \/ m.guti = "5G-GUTI")
    /\ Send("RegistrationComplete", NasKey, None)
    /\ \E t \in Triggers :
          /\ trigger[t] = "idle"
          /\ trigger' = [trigger EXCEPT ![t] = "sleeping"]
    /\ state' = "REGISTERED"
    /\ UNCHANGED <<phase, auth, secCtx, held>>

HandleReject(m) ==
    /\ m.type \in {"RegistrationReject", "AuthenticationReject"}
    /\ state' = "DEREGISTERED"
    /\ ResetSecurityContext
    /\ UNCHANGED <<phase, guti, trigger, held, toDu>>

\* Only SUCI is answered.  Protecting with a context that has no keys yet
\* may fail in nas.EncodeMm, and then nothing is sent.
HandleIdentityRequest(m) ==
    /\ m.type = "IdentityRequest"
    /\ \/ m.suci /\ Send("IdentityResponse", NasKey, None)
       \/ /\ m.suci => (secCtx # None /\ ~secCtx.keyed)
          /\ UNCHANGED toDu
    /\ UNCHANGED <<phase, state, guti, auth, secCtx, trigger, held>>

\* 5GMM status, unknown types, undecodable or empty messages, and DL NAS
\* transport, whose 5GSM payload PduSessions.tla models: no 5GMM state.
HandleOther(m) ==
    /\ m.type = "Other"
    /\ UNCHANGED vars

HandleNas(m) ==
    /\ phase = "listening"
    /\ \/ HandleAuthenticationRequest(m)
       \/ HandleSecurityModeCommand(m)
       \/ AcceptWithoutGuti(m)
       \/ HandleRegistrationAccept(m)
       \/ HandleReject(m)
       \/ HandleIdentityRequest(m)
       \/ HandleOther(m)

\* An RRCReconfiguration without its expected extension: the code tests for
\* it and then dereferences it all the same.  Other RRC messages change
\* nothing unless they carry NAS.
HandleRRCReconfiguration ==
    /\ phase = "listening"
    /\ phase' = "panicked"
    /\ UNCHANGED <<state, guti, auth, secCtx, trigger, held, toDu>>

------------------------------------------------------------------------------
(* The trigger goroutines.  getNasContext reads ue.secCtx twice without the *)
(* mutex: once to test it, once to dereference it.                          *)

\* The sleep ends and the session is created.  When the session table is
\* full the goroutine only logs.
WakeUp(t) ==
    /\ phase = "listening"
    /\ trigger[t] = "sleeping"
    /\ \E next \in {"idle", IF secCtx = None THEN "sending" ELSE "checked"} :
          trigger' = [trigger EXCEPT ![t] = next]
    /\ UNCHANGED <<phase, state, guti, auth, secCtx, held, toDu>>

\* A goroutine that waits for a context instead of dereferencing nil.
Bug_FetchContext(t) ==
    /\ phase = "listening"
    /\ trigger[t] = "checked"
    /\ secCtx # None
    /\ trigger' = [trigger EXCEPT ![t] = "sending"]
    /\ held' = [held EXCEPT ![t] = secCtx.kamf]
    /\ UNCHANGED <<phase, state, guti, auth, secCtx, toDu>>

FetchContext(t) ==
    /\ phase = "listening"
    /\ trigger[t] = "checked"
    /\ IF secCtx = None
       THEN phase' = "panicked" /\ UNCHANGED <<trigger, held>>
       ELSE /\ trigger' = [trigger EXCEPT ![t] = "sending"]
            /\ held' = [held EXCEPT ![t] = secCtx.kamf]
            /\ UNCHANGED phase
    /\ UNCHANGED <<state, guti, auth, secCtx, toDu>>

FinishTrigger(t) ==
    /\ phase = "listening"
    /\ trigger[t] = "sending"
    /\ trigger' = [trigger EXCEPT ![t] = "idle"]
    /\ held' = [held EXCEPT ![t] = None]
    /\ UNCHANGED <<phase, state, guti, auth, secCtx>>

SendN1Sm(t) == FinishTrigger(t) /\ Send("UlNasTransport", held[t], None)

\* Encoding fails, and sendN1Sm drops the request.
DropN1Sm(t) == FinishTrigger(t) /\ UNCHANGED toDu

------------------------------------------------------------------------------
\* What a network may send.
DlNas ==
    [type : {"AuthenticationRequest"}, ksi : Ksi \cup {NoKsi}, complete : BOOLEAN,
     rand : Rand, sqn : Sqn, mac : BOOLEAN]
    \cup [type : {"SecurityModeCommand"}, ksi : Ksi \cup {NoKsi}]
    \cup [type : {"RegistrationAccept"}, guti : {"absent", "5G-GUTI", "other"}]
    \cup [type : {"IdentityRequest"}, suci : BOOLEAN]
    \cup [type : {"RegistrationReject", "AuthenticationReject", "Other"}]

TriggerStep(t) == WakeUp(t) \/ FetchContext(t) \/ SendN1Sm(t)

Next ==
    \/ InitRRCConn
    \/ HandleRRCSetup
    \/ RefuseFirstMessage
    \/ \E m \in DlNas : HandleNas(m)
    \/ HandleRRCReconfiguration
    \/ \E t \in Triggers : TriggerStep(t) \/ DropN1Sm(t)
    \/ DuReceives

\* A blocked sender of a Go channel waits in a FIFO queue, so a goroutine
\* whose send is enabled again and again is eventually served.
Spec == Init /\ [][Next]_vars /\ WF_vars(DuReceives)
             /\ \A t \in Triggers : SF_vars(TriggerStep(t))

------------------------------------------------------------------------------
(* Properties                                                               *)

\* The context in use was derived from the last challenge the UE accepted,
\* and its sequence number is the UE's own: no failed challenge, rejection,
\* re-authentication or security mode command in any order leaves the UE
\* protecting messages with an older key (auth.go, handle_n1mm.go).
ContextFromLatestChallenge ==
    secCtx # None => secCtx.kamf = auth.kamf /\ auth.kamf.sqn = auth.sqn

\* The sequence number never goes back, so an old challenge is never accepted
\* again, whatever resets happen in between (auth.go:56, sec/sqn.go:33).
SqnNeverDecreases == [][auth'.sqn >= auth.sqn]_vars

\* A goroutine that woke up to request a PDU session finishes, unless the
\* process dies: a full channel or a purged context does not wedge it.
TriggerFinishes ==
    \A t \in Triggers : trigger[t] = "sleeping" ~>
        (trigger[t] = "idle" \/ phase # "listening")

\* A Security Mode Command is answered only when it names the context whose
\* keys it activates: handle_n1mm.go:172 says "check for existing NgKsi".
SmcMatchesContext ==
    [][\A k \in Ksi : HandleNas([type |-> "SecurityModeCommand", ksi |-> k])
           /\ toDu' # toDu => k = secCtx.ngKsi]_vars
==============================================================================

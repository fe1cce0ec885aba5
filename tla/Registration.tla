---------------------------- MODULE Registration ----------------------------
(***************************************************************************)
(* The UE of UeContext against the network it was written to exercise: a   *)
(* CU-CP that answers the RRC setup and an AMF with a subscriber database. *)
(* The network is not part of the repository; it is modelled from the      *)
(* messages the UE expects and the answers it gives.  It retransmits on a  *)
(* timer, re-authenticates a registered UE, and its database may restart   *)
(* from a backup with an old sequence number.                              *)
(*                                                                         *)
(* `dl` holds the NAS messages between the AMF and the UE's listener.      *)
(* Three things disturb a registration, and `faults` records which of them *)
(* have happened: a message overtakes another, as the DU handles each F1AP *)
(* message in a goroutine of its own; a challenge is computed with another *)
(* subscriber's key, so that its MAC fails; and the AMF rejects the UE.    *)
(***************************************************************************)
EXTENDS UeContext, SequencesExt

CONSTANTS
    MayFail,      \* which of Disturbances may happen
    MaxRetx,      \* retransmissions by the AMF
    MaxReauth,    \* re-authentications
    MaxRestore    \* database restarts

Disturbances == {"overtaking", "mac", "reject"}

ASSUME NetAssumption ==
    /\ MayFail \subseteq Disturbances
    /\ {MaxRetx, MaxReauth, MaxRestore} \subseteq Nat

VARIABLES
    dl,        \* downlink NAS messages in transit
    amf,       \* step; key set identifier and challenge of the running
               \* procedure, and whether its MAC verifies; the K_AMF in use;
               \* whether the UE is registered
    hssSqn,    \* sequence number in the subscriber database
    used,      \* how much of each bound has been used
    faults     \* history: the disturbances so far

netVars == <<dl, amf, hssSqn, used, faults>>
allVars == <<vars, netVars>>

AmfSteps == {"idle", "auth", "smc", "accept", "done", "rejected"}

NetTypeOK ==
    /\ TypeOK
    /\ dl \in Seq(DlNas)
    /\ amf \in [step : AmfSteps, ksi : Ksi \cup {NoKsi}, chal : Kamf \cup {None},
                mac : BOOLEAN, kamf : Kamf \cup {None}, registered : BOOLEAN]
    /\ hssSqn \in Sqn
    /\ used \in [retx : 0 .. MaxRetx, reauth : 0 .. MaxReauth, restore : 0 .. MaxRestore]
    /\ faults \subseteq MayFail

\* The subscriber may have been authenticated before the simulator started.
NetInit ==
    /\ Init
    /\ dl = <<>>
    /\ amf = [step |-> "idle", ksi |-> NoKsi, chal |-> None, mac |-> TRUE,
              kamf |-> None, registered |-> FALSE]
    /\ hssSqn \in Sqn \cap {0, 1}
    /\ used = [retx |-> 0, reauth |-> 0, restore |-> 0]
    /\ faults = {}

Happens(f) == f \subseteq MayFail /\ faults' = faults \cup f

------------------------------------------------------------------------------
(* The AMF                                                                  *)

AuthenticationRequest(k, c, mac) ==
    [type |-> "AuthenticationRequest", ksi |-> k, complete |-> TRUE,
     rand |-> c.rand, sqn |-> c.sqn, mac |-> mac]
SecurityModeCommand(k) == [type |-> "SecurityModeCommand", ksi |-> k]
RegistrationAccept == [type |-> "RegistrationAccept", guti |-> "5G-GUTI"]
Rejects == [type : {"RegistrationReject", "AuthenticationReject"}]

\* A challenge above the given sequence number, with a RAND and an ngKSI
\* that differ from the previous ones.
Challenge(sqn) ==
    /\ sqn < MaxSqn
    /\ hssSqn' = sqn + 1
    /\ \E r \in Rand, k \in Ksi \ {amf.ksi}, mac \in BOOLEAN :
          LET c == [rand |-> r, sqn |-> sqn + 1]
          IN  /\ amf.chal # None => r # amf.chal.rand
              /\ amf' = [amf EXCEPT !.step = "auth", !.ksi = k, !.chal = c, !.mac = mac]
              /\ dl' = Append(dl, AuthenticationRequest(k, c, mac))
              /\ Happens(IF mac THEN {} ELSE {"mac"})

Reject(m) ==
    /\ amf' = [amf EXCEPT !.step = "rejected"]
    /\ dl' = Append(dl, m)
    /\ Happens({"reject"})
    /\ UNCHANGED hssSqn

\* What the AMF makes of an uplink message; anything else it ignores.  It
\* cannot tell which challenge a MAC failure is about.
AmfHandles(m) ==
    IF m.type = "RegistrationRequest" /\ amf.step = "idle"
        THEN Challenge(hssSqn) \/ Reject([type |-> "RegistrationReject"])
    ELSE IF m.type = "SyncFailure" /\ amf.step = "auth" /\ m.arg.rand = amf.chal.rand
        THEN Challenge(m.arg.sqn)
    ELSE IF m.type = "MacFailure" /\ amf.step = "auth"
        THEN Challenge(hssSqn)
    ELSE /\ UNCHANGED <<hssSqn, faults>>
         /\ IF m.type = "AuthenticationResponse" /\ amf.step = "auth" /\ m.arg = amf.chal
                THEN /\ amf' = [amf EXCEPT !.step = "smc"]
                     /\ dl' = Append(dl, SecurityModeCommand(amf.ksi))
            ELSE IF m.type = "SecurityModeComplete" /\ amf.step = "smc" /\ m.key = amf.chal
                THEN IF amf.registered
                     THEN /\ amf' = [amf EXCEPT !.step = "done", !.kamf = amf.chal]
                          /\ UNCHANGED dl
                     ELSE /\ amf' = [amf EXCEPT !.step = "accept", !.kamf = amf.chal]
                          /\ dl' = Append(dl, RegistrationAccept)
            ELSE IF m.type = "RegistrationComplete" /\ amf.step = "accept" /\ m.key = amf.kamf
                THEN /\ amf' = [amf EXCEPT !.step = "done", !.registered = TRUE]
                     /\ UNCHANGED dl
            ELSE UNCHANGED <<amf, dl>>

AmfReceives ==
    /\ DuReceives
    /\ AmfHandles(Head(toDu))
    /\ UNCHANGED used

\* T3560 or T3550 expires: the outstanding message is sent again.
AmfTimeout ==
    /\ used.retx < MaxRetx
    /\ used' = [used EXCEPT !.retx = @ + 1]
    /\ \/ amf.step = "auth" /\ dl' = Append(dl, AuthenticationRequest(amf.ksi, amf.chal, amf.mac))
       \/ amf.step = "smc" /\ dl' = Append(dl, SecurityModeCommand(amf.ksi))
       \/ amf.step = "accept" /\ dl' = Append(dl, RegistrationAccept)
    /\ UNCHANGED <<vars, amf, hssSqn, faults>>

\* A procedure that fails: the UE is not authentic, or may not register.
AmfRejects ==
    /\ \E m \in Rejects :
          /\ IF m.type = "AuthenticationReject"
             THEN amf.step = "auth"
             ELSE amf.step \in {"auth", "smc"} /\ ~amf.registered
          /\ Reject(m)
    /\ UNCHANGED <<vars, used>>

AmfReauthenticates ==
    /\ amf.step = "done"
    /\ used.reauth < MaxReauth
    /\ used' = [used EXCEPT !.reauth = @ + 1]
    /\ Challenge(hssSqn)
    /\ UNCHANGED vars

\* The subscriber database restarts from a backup.
HssRestores ==
    /\ used.restore < MaxRestore
    /\ used' = [used EXCEPT !.restore = @ + 1]
    /\ hssSqn' = 0
    /\ UNCHANGED <<vars, dl, amf, faults>>

------------------------------------------------------------------------------
(* The composition                                                          *)

UeReceives(i) ==
    /\ HandleNas(dl[i])
    /\ dl' = RemoveAt(dl, i)
    /\ Happens(IF i = 1 THEN {} ELSE {"overtaking"})
    /\ UNCHANGED <<amf, hssSqn, used>>

UeAlone ==
    /\ InitRRCConn \/ HandleRRCSetup \/ \E t \in Triggers : TriggerStep(t) \/ DropN1Sm(t)
    /\ UNCHANGED netVars

UeListens == \E i \in DOMAIN dl : UeReceives(i)

NetNext ==
    \/ UeListens
    \/ UeAlone
    \/ AmfReceives
    \/ AmfTimeout
    \/ AmfRejects
    \/ AmfReauthenticates
    \/ HssRestores

\* The listener, the DU's loop and the AMF keep running.  Timers,
\* rejections, restarts and re-authentications need not happen.
NetSpec ==
    /\ NetInit
    /\ [][NetNext]_allVars
    /\ SF_allVars(UeListens)
    /\ WF_allVars(AmfReceives)
    /\ WF_allVars((InitRRCConn \/ HandleRRCSetup) /\ UNCHANGED netVars)
    /\ \A t \in Triggers : SF_allVars(TriggerStep(t) /\ UNCHANGED netVars)

------------------------------------------------------------------------------
(* Properties                                                               *)

\* Every downlink message so far was taken in order and has verified, and the
\* AMF has rejected nothing.
Undisturbed == faults = {}

\* When the AMF has no procedure running, both ends hold the same K_AMF, the
\* UE has keyed its context with it and considers itself registered: over
\* retransmissions, re-authentications and database restarts, until the first
\* disturbance (handle_n1mm.go:124-209).
Agreement ==
    Undisturbed /\ amf.step = "done" =>
        /\ state = "REGISTERED"
        /\ secCtx # None
        /\ secCtx.keyed
        /\ secCtx.kamf = amf.kamf
        /\ secCtx.ngKsi = amf.ksi

\* The UE has handled the AMF's rejection, and dropped its context.
Purged == amf.step = "rejected" /\ \A i \in DOMAIN dl : dl[i] \notin Rejects

\* Nothing the network does makes the simulator exit; nothing kills it before
\* it has handled a rejection, neither challenges that fail nor messages that
\* overtake one another; and if none did, it then dies in one way only: a
\* goroutine had tested ue.secCtx for nil and dereferences it after the
\* rejection has purged it (handle_n1mm.go:110, 209; ue.go:142-152).
DiesOnlyOfRejection ==
    phase \in {"exited", "panicked"} =>
        /\ phase = "panicked" /\ Purged
        /\ "overtaking" \notin faults =>
              secCtx = None /\ \E t \in Triggers : trigger[t] = "checked"

\* Once registered, the UE stays registered whatever the network repeats or
\* restarts, until the first disturbance (handle_n1mm.go:173 deregisters on an
\* unexpected ngKSI).
StaysRegistered ==
    [][Undisturbed' /\ state = "REGISTERED" => state' = "REGISTERED"]_allVars

\* While the AMF waits, the message it has sent is still under way to the UE,
\* or the answer that lets it go on is on its way back: until the first
\* disturbance, no message of an earlier procedure, no retransmission and no
\* resynchronisation makes the UE swallow the one it needs
\* (handle_n1mm.go:110-209, auth.go:56-70).
Awaited(m) ==
    CASE amf.step = "idle" -> m.type = "RegistrationRequest"
      [] amf.step = "auth" -> \/ m.type = "AuthenticationResponse" /\ m.arg = amf.chal
                              \/ m.type = "SyncFailure" /\ m.arg.rand = amf.chal.rand
      [] amf.step = "smc" -> m.type = "SecurityModeComplete" /\ m.key = amf.chal
      [] amf.step = "accept" -> m.type = "RegistrationComplete" /\ m.key = amf.kamf

Outstanding(m) ==
    CASE amf.step = "idle" -> FALSE
      [] amf.step = "auth" -> m = AuthenticationRequest(amf.ksi, amf.chal, amf.mac)
      [] amf.step = "smc" -> m = SecurityModeCommand(amf.ksi)
      [] amf.step = "accept" -> m = RegistrationAccept

AlwaysAnswered ==
    Undisturbed /\ phase = "listening" /\ amf.step # "done" =>
        (\E i \in DOMAIN dl : Outstanding(dl[i])) \/ (\E i \in DOMAIN toDu : Awaited(toDu[i]))

\* Registration completes, and so does every re-authentication, although the
\* database may have forgotten the sequence number: the UE's AUTS resynchronises
\* it.  Only a disturbance can prevent that.
Completes ==
    /\ <>(amf.step = "done" \/ ~Undisturbed)
    /\ amf.step = "auth" ~> (amf.step = "done" \/ ~Undisturbed)

\* The composition implements KeyAgreement, a disturbance being its Disturb.
UeKey == IF secCtx = None THEN None ELSE secCtx.kamf

KA == INSTANCE KeyAgreement WITH
          Key <- Kamf, NoKey <- None, ueKey <- UeKey, netKey <- amf.kamf,
          registered <- amf.registered, disturbed <- ~Undisturbed

Implements == KA!Spec
=============================================================================

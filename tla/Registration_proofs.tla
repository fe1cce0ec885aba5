------------------------ MODULE Registration_proofs ------------------------
(***************************************************************************)
(* Proofs about Registration.                                              *)
(*                                                                         *)
(* SafeInv holds whatever disturbs the registration.  Until the UE handles *)
(* a rejection nobody relies on a security context that is not there; and  *)
(* if no message overtook another, a rejection is the last message the UE  *)
(* gets, so that afterwards only its own goroutines can stumble.           *)
(*                                                                         *)
(* OrderInv holds until the first disturbance: it says, for every step of  *)
(* the AMF, which messages may be under way in either direction and what   *)
(* the UE holds.  The two channels being FIFO, a message of one procedure  *)
(* is gone before the next one depends on its absence.                     *)
(***************************************************************************)
EXTENDS Registration, UeContext_proofs

------------------------------------------------------------------------------
(* What always holds                                                        *)

IsChallenge(m) == m.type = "AuthenticationRequest"
IsSmc(m) == m.type = "SecurityModeCommand"

\* What the AMF may send.
Lawful(m) ==
    \/ IsChallenge(m) /\ m.ksi \in Ksi /\ m.complete
    \/ IsSmc(m) /\ m.ksi \in Ksi
    \/ m = RegistrationAccept
    \/ m \in Rejects

MsgInv ==
    /\ \A i \in DOMAIN dl : Lawful(dl[i])
    /\ \A i \in DOMAIN toDu : toDu[i].type = "SyncFailure" => toDu[i].arg # None
    /\ amf.step \in {"auth", "smc", "accept", "done"} => amf.ksi \in Ksi /\ amf.chal # None

\* Only a challenge with a wrong MAC makes a MAC failure.
MacInv ==
    "mac" \notin faults =>
        /\ amf.mac
        /\ \A i \in DOMAIN dl : IsChallenge(dl[i]) => dl[i].mac
        /\ \A i \in DOMAIN toDu : toDu[i].type # "MacFailure"

\* The AMF rejects once, and is silent afterwards.
RejectInv ==
    /\ amf.step = "rejected" => "reject" \in faults
    /\ \A i \in DOMAIN dl : dl[i] \in Rejects => amf.step = "rejected"
    /\ \A i, j \in DOMAIN dl : dl[i] \in Rejects /\ dl[j] \in Rejects => i = j
    /\ "overtaking" \notin faults => \A i, j \in DOMAIN dl : i < j => dl[i] \notin Rejects

\* Nobody relies on a context that is not there.
Relied ==
    /\ phase \in {"created", "waiting", "listening"}
    /\ \A i \in DOMAIN dl : IsSmc(dl[i]) => secCtx # None
    /\ \A i \in DOMAIN toDu : toDu[i].type = "AuthenticationResponse" => secCtx # None
    /\ amf.step \in {"smc", "accept", "done"} => secCtx # None
    /\ \A t \in Triggers : trigger[t] = "checked" => secCtx # None

\* Once a rejection was handled, and nothing overtook it.
Afterwards ==
    /\ dl = <<>>
    /\ phase = "panicked" => secCtx = None /\ \E t \in Triggers : trigger[t] = "checked"

SafeInv ==
    /\ NetTypeOK /\ phase # "exited"
    /\ MsgInv /\ MacInv /\ RejectInv
    /\ ~Purged => Relied
    /\ Purged /\ "overtaking" \notin faults => Afterwards

------------------------------------------------------------------------------
(* What holds until the first disturbance                                   *)

\* What the AMF sends.
Conforms(m) ==
    \/ IsChallenge(m) /\ m.ksi \in Ksi /\ m.complete /\ m.mac
    \/ IsSmc(m) /\ m.ksi \in Ksi /\ secCtx # None
    \/ m = RegistrationAccept

\* SafeInv, in so far as nothing was disturbed.
LifeInv ==
    /\ NetTypeOK /\ Undisturbed
    /\ phase \in {"created", "waiting", "listening"}
    /\ \A i \in DOMAIN dl : Conforms(dl[i])
    /\ \A i \in DOMAIN toDu :
          /\ toDu[i].type = "AuthenticationResponse" => secCtx # None
          /\ toDu[i].type = "SyncFailure" => toDu[i].arg # None
          /\ toDu[i].type # "MacFailure"
    /\ amf.mac = TRUE /\ amf.step # "rejected"
    /\ amf.step # "idle" => amf.ksi \in Ksi /\ amf.chal # None
    /\ amf.step \in {"smc", "accept", "done"} => secCtx # None
    /\ \A t \in Triggers : trigger[t] = "checked" => secCtx # None

Current == AuthenticationRequest(amf.ksi, amf.chal, TRUE)

\* The UE has accepted the AMF's challenge.
Accepted ==
    /\ secCtx # None
    /\ secCtx.kamf = amf.chal /\ secCtx.ngKsi = amf.ksi
    /\ auth.ngKsi = amf.ksi /\ auth.sqn = amf.chal.sqn

\* Before the UE listens nothing has happened.
Early ==
    phase # "listening" =>
        /\ state = "DEREGISTERED"
        /\ amf.step = "idle" /\ ~amf.registered
        /\ \A i \in DOMAIN toDu : toDu[i].type = "RRCSetupRequest"

Unchallenged ==
    amf.step = "idle" =>
        /\ dl = <<>>
        /\ \A i \in DOMAIN toDu :
              toDu[i].type \notin {"AuthenticationResponse", "SyncFailure", "SecurityModeComplete"}

\* Commands of the last procedure, then challenges that the UE will find too
\* old, then the current one, once or more.
DownlinkOfAuth ==
    /\ \A i \in DOMAIN dl : IsSmc(dl[i]) => dl[i].ksi = auth.ngKsi
    /\ \A i \in DOMAIN dl : IsChallenge(dl[i]) /\ dl[i] # Current =>
          dl[i].sqn < auth.sqn /\ dl[i].rand # amf.chal.rand
    /\ \A i, j \in DOMAIN dl : i < j /\ IsChallenge(dl[i]) => IsChallenge(dl[j])
    /\ \A i, j \in DOMAIN dl : i < j /\ dl[i] = Current => dl[j] = Current

\* A response is to the current challenge, and nothing of an earlier one
\* comes after it.
ResponsesOfAuth ==
    \A i \in DOMAIN toDu : toDu[i].type = "AuthenticationResponse" =>
        /\ Accepted
        /\ \A j \in DOMAIN dl : dl[j] = Current
        /\ \A j \in DOMAIN toDu : i < j => toDu[j].type \notin {"SyncFailure", "SecurityModeComplete"}

\* A challenge is found too old once: the next is above the UE's own number.
FailuresOfAuth ==
    /\ \A i \in DOMAIN toDu : toDu[i].type = "SyncFailure" /\ toDu[i].arg.rand = amf.chal.rand =>
          amf.chal.sqn < auth.sqn /\ toDu[i].arg.sqn = auth.sqn
    /\ amf.chal.sqn < auth.sqn =>
          /\ \A i \in DOMAIN toDu : toDu[i].type = "SyncFailure" => toDu[i].arg.rand = amf.chal.rand
          /\ \A i \in DOMAIN dl : IsChallenge(dl[i]) => dl[i] = Current

Challenged == amf.step = "auth" => DownlinkOfAuth /\ ResponsesOfAuth /\ FailuresOfAuth

\* Repetitions of the challenge precede the commands.
Keying ==
    amf.step = "smc" =>
        /\ Accepted
        /\ \A i \in DOMAIN dl : dl[i] \in {Current, SecurityModeCommand(amf.ksi)}
        /\ \A i, j \in DOMAIN dl : i < j /\ IsSmc(dl[i]) => IsSmc(dl[j])
        /\ \A i \in DOMAIN toDu :
              /\ toDu[i].type # "SyncFailure"
              /\ toDu[i].type = "SecurityModeComplete" =>
                    /\ secCtx.keyed
                    /\ \A j \in DOMAIN dl : IsSmc(dl[j])
                    /\ \A j \in DOMAIN toDu : i < j => toDu[j].type # "AuthenticationResponse"

Agreed ==
    amf.step \in {"accept", "done"} =>
        /\ Accepted /\ secCtx.keyed /\ amf.kamf = amf.chal
        /\ \A i \in DOMAIN dl : dl[i] \in {SecurityModeCommand(amf.ksi), RegistrationAccept}
        /\ \A i \in DOMAIN toDu : toDu[i].type \notin {"AuthenticationResponse", "SyncFailure"}

Registered ==
    /\ amf.step = "done" => amf.registered
    /\ amf.registered => state = "REGISTERED"
    /\ \A i \in DOMAIN toDu : toDu[i].type = "RegistrationComplete" => state = "REGISTERED"

OrderInv == Early /\ Unchallenged /\ Challenged /\ Keying /\ Agreed /\ Registered

IInv == SafeInv /\ (Undisturbed => OrderInv)

------------------------------------------------------------------------------
(* Sequences                                                                *)

\* p is q without its first element.
IsTail(q, p) == \A i \in DOMAIN p : i \in Nat /\ i + 1 \in DOMAIN q /\ p[i] = q[i + 1]

\* p is q with e at its end.
Grows(q, p, e) ==
    \A i \in DOMAIN p :
        /\ i \in Nat
        /\ \/ i \in DOMAIN q /\ p[i] = q[i]
           \/ p[i] = e /\ \A j \in DOMAIN p : j <= i

\* The tail drops the first element.
LEMMA TailOf ==
    ASSUME NEW S, NEW q \in Seq(S), q # <<>>
    PROVE  Tail(q) \in Seq(S) /\ IsTail(q, Tail(q)) /\ 1 \in DOMAIN q /\ Head(q) = q[1]
BY DEF IsTail

\* Append adds one at the end.
LEMMA AppendOf ==
    ASSUME NEW S, NEW q \in Seq(S), NEW e \in S
    PROVE  Append(q, e) \in Seq(S) /\ Grows(q, Append(q, e), e)
BY DEF Grows

\* Concatenation, element by element.
LEMMA ConcatOf ==
    ASSUME NEW S, NEW a \in Seq(S), NEW b \in Seq(S)
    PROVE  /\ a \o b \in Seq(S) /\ Len(a \o b) = Len(a) + Len(b)
           /\ \A j \in 1 .. Len(a) + Len(b) :
                 (a \o b)[j] = IF j <= Len(a) THEN a[j] ELSE b[j - Len(a)]
OBVIOUS

\* Removing an element leaves all others, and the tail if it was the first.
LEMMA RemoveOf ==
    ASSUME NEW S, NEW q \in Seq(S), NEW i \in DOMAIN q
    PROVE  /\ RemoveAt(q, i) \in Seq(S)
           /\ DOMAIN RemoveAt(q, i) = 1 .. Len(q) - 1 /\ Len(RemoveAt(q, i)) = Len(q) - 1
           /\ \A j \in 1 .. Len(q) - 1 : RemoveAt(q, i)[j] = q[IF j < i THEN j ELSE j + 1]
           /\ \A j \in DOMAIN RemoveAt(q, i) : \E k \in DOMAIN q : RemoveAt(q, i)[j] = q[k]
           /\ \A k \in DOMAIN q \ {i} : \E j \in DOMAIN RemoveAt(q, i) : RemoveAt(q, i)[j] = q[k]
           /\ i = 1 => IsTail(q, RemoveAt(q, i))
<1>1. i \in 1 .. Len(q) /\ Len(q) \in Nat
  OBVIOUS
<1>2. PICK a \in Seq(S), b \in Seq(S) :
          /\ RemoveAt(q, i) = a \o b
          /\ Len(a) = i - 1 /\ \A j \in 1 .. i - 1 : a[j] = q[j]
          /\ Len(b) = Len(q) - i /\ \A j \in 1 .. Len(q) - i : b[j] = q[j + i]
  <2>1. /\ SubSeq(q, 1, i - 1) \in Seq(S) /\ Len(SubSeq(q, 1, i - 1)) = i - 1
        /\ \A j \in 1 .. i - 1 : SubSeq(q, 1, i - 1)[j] = q[j]
    BY <1>1
  <2>2. /\ SubSeq(q, i + 1, Len(q)) \in Seq(S) /\ Len(SubSeq(q, i + 1, Len(q))) = Len(q) - i
        /\ \A j \in 1 .. Len(q) - i : SubSeq(q, i + 1, Len(q))[j] = q[j + i]
    BY <1>1
  <2>3. RemoveAt(q, i) = SubSeq(q, 1, i - 1) \o SubSeq(q, i + 1, Len(q))
    BY DEF RemoveAt
  <2>. QED  BY <2>1, <2>2, <2>3, Zenon
<1>3. Len(a) + Len(b) = Len(q) - 1
  BY <1>1, <1>2
<1>4. /\ RemoveAt(q, i) \in Seq(S)
      /\ DOMAIN RemoveAt(q, i) = 1 .. Len(q) - 1 /\ Len(RemoveAt(q, i)) = Len(q) - 1
      /\ \A j \in 1 .. Len(q) - 1 :
            RemoveAt(q, i)[j] = IF j <= i - 1 THEN a[j] ELSE b[j - (i - 1)]
  <2>1. /\ a \o b \in Seq(S) /\ Len(a \o b) = Len(q) - 1
        /\ \A j \in 1 .. Len(q) - 1 : (a \o b)[j] = IF j <= Len(a) THEN a[j] ELSE b[j - Len(a)]
    BY <1>3, ConcatOf
  <2>2. DOMAIN (a \o b) = 1 .. Len(q) - 1
    BY <2>1
  <2>. QED  BY <1>2, <2>1, <2>2
<1>5. \A j \in 1 .. Len(q) - 1 : RemoveAt(q, i)[j] = IF j < i THEN q[j] ELSE q[j + 1]
  <2>1. SUFFICES ASSUME NEW j \in 1 .. Len(q) - 1
                PROVE  RemoveAt(q, i)[j] = IF j < i THEN q[j] ELSE q[j + 1]
    OBVIOUS
  <2>2. CASE j < i
    BY <1>1, <1>2, <1>4, <2>2
  <2>3. CASE ~(j < i)
    <3>1. j - (i - 1) \in 1 .. Len(q) - i /\ j - (i - 1) + i = j + 1
      BY <1>1, <2>3
    <3>2. b[j - (i - 1)] = q[j + 1]
      BY <1>2, <3>1
    <3>3. ~(j <= i - 1)
      BY <1>1, <2>3
    <3>. QED  BY <1>4, <2>3, <3>2, <3>3
  <2>. QED  BY <2>2, <2>3
<1>6. ASSUME NEW j \in DOMAIN RemoveAt(q, i)
      PROVE  \E k \in DOMAIN q : RemoveAt(q, i)[j] = q[k]
  <2>1. j \in 1 .. Len(q) - 1 /\ j \in DOMAIN q /\ j + 1 \in DOMAIN q
    BY <1>1, <1>4
  <2>. QED  BY <1>5, <2>1
<1>7. i = 1 => IsTail(q, RemoveAt(q, i))
  <2>. SUFFICES ASSUME i = 1, NEW j \in 1 .. Len(q) - 1
               PROVE  j \in Nat /\ j + 1 \in DOMAIN q /\ RemoveAt(q, i)[j] = q[j + 1]
    BY <1>4 DEF IsTail
  <2>1. ~(j < i) /\ j + 1 \in 1 .. Len(q)
    BY <1>1
  <2>. QED  BY <1>5, <2>1
<1>8. ASSUME NEW k \in DOMAIN q \ {i}
      PROVE  \E j \in DOMAIN RemoveAt(q, i) : RemoveAt(q, i)[j] = q[k]
  <2>1. CASE k < i
    <3>1. k \in 1 .. Len(q) - 1
      BY <1>1, <2>1
    <3>. QED  BY <1>4, <1>5, <2>1, <3>1
  <2>2. CASE ~(k < i)
    <3>1. k - 1 \in 1 .. Len(q) - 1 /\ ~(k - 1 < i) /\ (k - 1) + 1 = k
      BY <1>1, <2>2
    <3>. QED  BY <1>4, <1>5, <3>1
  <2>. QED  BY <2>1, <2>2
<1>. QED  BY <1>4, <1>5, <1>6, <1>7, <1>8

------------------------------------------------------------------------------
(* Types                                                                    *)

Amf == [step : AmfSteps, ksi : Ksi \cup {NoKsi}, chal : Kamf \cup {None},
        mac : BOOLEAN, kamf : Kamf \cup {None}, registered : BOOLEAN]

Used == [retx : 0 .. MaxRetx, reauth : 0 .. MaxReauth, restore : 0 .. MaxRestore]

\* The AMF's messages are downlink messages.
LEMMA DownlinkType ==
    /\ \A k \in Ksi \cup {NoKsi}, c \in Kamf, mac \in BOOLEAN : AuthenticationRequest(k, c, mac) \in DlNas
    /\ \A k \in Ksi \cup {NoKsi} : SecurityModeCommand(k) \in DlNas
    /\ RegistrationAccept \in DlNas
    /\ Rejects \subseteq DlNas
<1>1. ASSUME NEW k \in Ksi \cup {NoKsi}, NEW c \in Kamf, NEW mac \in BOOLEAN
      PROVE  AuthenticationRequest(k, c, mac) \in DlNas
  BY <1>1 DEF AuthenticationRequest, DlNas, Kamf
<1>2. ASSUME NEW k \in Ksi \cup {NoKsi} PROVE SecurityModeCommand(k) \in DlNas
  BY DEF SecurityModeCommand, DlNas
<1>3. RegistrationAccept \in DlNas
  BY DEF RegistrationAccept, DlNas
<1>4. Rejects \subseteq DlNas
  BY DEF Rejects, DlNas
<1>. QED  BY <1>1, <1>2, <1>3, <1>4

\* The fields of the AMF's messages.
LEMMA MessageFields ==
    /\ \A k, c, mac : LET m == AuthenticationRequest(k, c, mac)
                      IN  /\ m.type = "AuthenticationRequest" /\ m.ksi = k /\ m.complete = TRUE
                          /\ m.rand = c.rand /\ m.sqn = c.sqn /\ m.mac = mac
    /\ \A k : SecurityModeCommand(k).type = "SecurityModeCommand" /\ SecurityModeCommand(k).ksi = k
    /\ RegistrationAccept.type = "RegistrationAccept"
    /\ \A m \in Rejects : m.type \in {"RegistrationReject", "AuthenticationReject"}
BY DEF AuthenticationRequest, SecurityModeCommand, RegistrationAccept, Rejects

\* No two of them are the same.
LEMMA Distinct ==
    /\ \A k, c, mac : LET m == AuthenticationRequest(k, c, mac)
                      IN  IsChallenge(m) /\ ~IsSmc(m) /\ m \notin Rejects
    /\ \A k : LET m == SecurityModeCommand(k)
              IN  IsSmc(m) /\ ~IsChallenge(m) /\ m \notin Rejects
    /\ ~IsSmc(RegistrationAccept) /\ ~IsChallenge(RegistrationAccept) /\ RegistrationAccept \notin Rejects
    /\ \A m \in Rejects : ~IsSmc(m) /\ ~IsChallenge(m)
BY MessageFields DEF IsChallenge, IsSmc

\* What a new challenge is, and what is done with it.
LEMMA ChallengeEffect ==
    ASSUME amf \in Amf, NEW sqn \in Sqn, Challenge(sqn)
    PROVE  /\ hssSqn' \in Sqn
           /\ \E k \in Ksi, c \in Kamf, mac \in BOOLEAN :
                 /\ c.sqn = sqn + 1
                 /\ amf.chal # None => c.rand # amf.chal.rand
                 /\ amf' = [amf EXCEPT !.step = "auth", !.ksi = k, !.chal = c, !.mac = mac]
                 /\ dl' = Append(dl, AuthenticationRequest(k, c, mac))
                 /\ Happens(IF mac THEN {} ELSE {"mac"})
<1>1. sqn + 1 \in Sqn /\ hssSqn' = sqn + 1
  BY SizeAssumption DEF Challenge, Sqn
<1>2. PICK r \in Rand, k \in Ksi, mac \in BOOLEAN :
          /\ amf.chal # None => r # amf.chal.rand
          /\ amf' = [amf EXCEPT !.step = "auth", !.ksi = k, !.chal = [rand |-> r, sqn |-> sqn + 1], !.mac = mac]
          /\ dl' = Append(dl, AuthenticationRequest(k, [rand |-> r, sqn |-> sqn + 1], mac))
          /\ Happens(IF mac THEN {} ELSE {"mac"})
  BY DEF Challenge
<1>3. [rand |-> r, sqn |-> sqn + 1] \in Kamf
  BY <1>1 DEF Kamf
<1>. QED  BY <1>1, <1>2, <1>3

\* A challenge changes nothing else of the AMF.
LEMMA ChallengeStep ==
    ASSUME amf \in Amf, NEW sqn, Challenge(sqn)
    PROVE  amf'.step = "auth" /\ amf'.kamf = amf.kamf /\ amf'.registered = amf.registered
<1>1. PICK r \in Rand, k \in Ksi \ {amf.ksi}, mac \in BOOLEAN :
          amf' = [amf EXCEPT !.step = "auth", !.ksi = k, !.chal = [rand |-> r, sqn |-> sqn + 1], !.mac = mac]
  BY DEF Challenge
<1>. QED  BY <1>1 DEF Amf

------------------------------------------------------------------------------
(* What each step does                                                      *)

\* The listener with message m.
Accepts(m) ==
    LET k == [rand |-> m.rand, sqn |-> m.sqn]
    IN  /\ IsChallenge(m) /\ m.sqn >= auth.sqn
        /\ auth' = [ngKsi |-> m.ksi, rand |-> m.rand, sqn |-> m.sqn, kamf |-> k]
        /\ secCtx' = [ngKsi |-> m.ksi, kamf |-> k, keyed |-> FALSE]
        /\ toDu' = Append(toDu, [type |-> "AuthenticationResponse", key |-> None, arg |-> k])
        /\ UNCHANGED <<phase, state, trigger>>

Refuses(m) ==
    /\ IsChallenge(m) /\ m.sqn < auth.sqn
    /\ auth' = [auth EXCEPT !.ngKsi = m.ksi, !.rand = m.rand]
    /\ toDu' = Append(toDu, [type |-> "SyncFailure", key |-> None,
                             arg |-> [rand |-> m.rand, sqn |-> auth.sqn]])
    /\ UNCHANGED <<phase, state, secCtx, trigger>>

FailsMac(m) ==
    /\ IsChallenge(m) /\ ~m.mac
    /\ toDu' = Append(toDu, [type |-> "MacFailure", key |-> None, arg |-> None])
    /\ UNCHANGED <<phase, state, secCtx, trigger>>

Mismatches(m) ==
    /\ IsSmc(m) /\ m.ksi # auth.ngKsi
    /\ UNCHANGED <<phase, auth, secCtx, trigger, toDu>>

Activates(m) ==
    /\ IsSmc(m) /\ m.ksi = auth.ngKsi /\ secCtx # None
    /\ secCtx' = [secCtx EXCEPT !.keyed = TRUE]
    /\ toDu' = Append(toDu, [type |-> "SecurityModeComplete", key |-> secCtx.kamf, arg |-> None])
    /\ UNCHANGED <<phase, state, auth, trigger>>

Panics(m) ==
    /\ IsSmc(m) /\ secCtx = None
    /\ phase' = "panicked"
    /\ UNCHANGED <<state, auth, secCtx, trigger, toDu>>

Registers(m) ==
    /\ m = RegistrationAccept
    /\ state' = "REGISTERED"
    /\ toDu' = Append(toDu, [type |-> "RegistrationComplete", key |-> NasKey, arg |-> None])
    /\ \E t \in Triggers : trigger' = [trigger EXCEPT ![t] = "sleeping"]
    /\ UNCHANGED <<phase, auth, secCtx>>

Purges(m) ==
    /\ m \in Rejects
    /\ secCtx' = None
    /\ UNCHANGED <<phase, trigger, toDu>>

\* Every downlink message does one of these.
LEMMA ListenerEffect ==
    ASSUME NetTypeOK, NEW i \in DOMAIN dl, Lawful(dl[i]), UeReceives(i)
    PROVE  /\ dl' = RemoveAt(dl, i)
           /\ phase = "listening"
           /\ UNCHANGED <<amf, hssSqn, used>>
           /\ Happens(IF i = 1 THEN {} ELSE {"overtaking"})
           /\ \/ Accepts(dl[i]) \/ Refuses(dl[i]) \/ FailsMac(dl[i]) \/ Mismatches(dl[i])
              \/ Activates(dl[i]) \/ Panics(dl[i]) \/ Registers(dl[i]) \/ Purges(dl[i])
<1>. DEFINE m == dl[i]
<1>1. /\ dl' = RemoveAt(dl, i) /\ phase = "listening" /\ HandleNas(m)
      /\ UNCHANGED <<amf, hssSqn, used>>
      /\ Happens(IF i = 1 THEN {} ELSE {"overtaking"})
  BY DEF UeReceives, HandleNas
<1>2. Lawful(m) /\ m \in DlNas
  BY DEF NetTypeOK
<1>. HIDE DEF m
<1>3. CASE IsChallenge(m)
  <2>1. HandleAuthenticationRequest(m)
    BY <1>1, <1>3 DEF IsChallenge, HandleNas, HandleSecurityModeCommand, AcceptWithoutGuti,
       HandleRegistrationAccept, HandleReject, HandleIdentityRequest, HandleOther
  <2>2. m.ksi \in Ksi /\ m.complete
    BY <1>2, <1>3, Distinct DEF Lawful, IsChallenge, IsSmc, RegistrationAccept
  <2>3. m.sqn \in Sqn /\ auth.sqn \in Sqn
    BY <1>2, <1>3, ChallengeFields DEF IsChallenge, NetTypeOK, TypeOK
  <2>4. /\ UNCHANGED <<phase, state, trigger>>
        /\ IF AuthOutcome(m) = "SUCCESS" THEN AuthSuccess(m) ELSE AuthFailure(m)
    BY <2>1, <2>2, KsiAssumption DEF HandleAuthenticationRequest
  <2>5. CASE m.mac /\ m.sqn >= auth.sqn
    <3>1. AuthOutcome(m) = "SUCCESS"
      BY <2>3, <2>5 DEF AuthOutcome, Sqn
    <3>2. Accepts(m)
      BY <1>3, <2>4, <2>5, <3>1 DEF AuthSuccess, Send, Accepts
    <3>. QED  BY <1>1, <3>2 DEF m
  <2>6. CASE m.mac /\ m.sqn < auth.sqn
    <3>1. AuthOutcome(m) = "SYNC_FAILURE"
      BY <2>3, <2>6 DEF AuthOutcome, Sqn
    <3>2. Refuses(m)
      BY <1>3, <2>4, <2>6, <3>1 DEF AuthFailure, Send, Refuses
    <3>. QED  BY <1>1, <3>2 DEF m
  <2>7. CASE ~m.mac
    <3>1. AuthOutcome(m) = "MAC_FAILURE"
      BY <2>7 DEF AuthOutcome
    <3>2. FailsMac(m)
      BY <1>3, <2>4, <2>7, <3>1 DEF AuthFailure, Send, FailsMac
    <3>. QED  BY <1>1, <3>2 DEF m
  <2>. QED  BY <2>3, <2>5, <2>6, <2>7 DEF Sqn
<1>4. CASE IsSmc(m)
  <2>1. HandleSecurityModeCommand(m)
    BY <1>1, <1>4 DEF IsSmc, HandleNas, HandleAuthenticationRequest, AcceptWithoutGuti,
       HandleRegistrationAccept, HandleReject, HandleIdentityRequest, HandleOther
  <2>2. m.ksi \in Ksi
    BY <1>2, <1>4, Distinct DEF Lawful, IsChallenge, IsSmc
  <2>3. m.ksi # NoKsi
    BY <2>2, KsiAssumption
  <2>4. Mismatches(m) \/ Activates(m) \/ Panics(m)
    BY <1>4, <2>1, <2>3 DEF HandleSecurityModeCommand, Send, Mismatches, Activates, Panics
  <2>. QED  BY <1>1, <2>4 DEF m
<1>5. CASE m = RegistrationAccept
  <2>1. HandleRegistrationAccept(m)
    BY <1>1, <1>5 DEF RegistrationAccept, HandleNas, HandleAuthenticationRequest, AcceptWithoutGuti,
       HandleSecurityModeCommand, HandleReject, HandleIdentityRequest, HandleOther
  <2>2. Registers(m)
    BY <1>5, <2>1 DEF HandleRegistrationAccept, Send, Registers
  <2>. QED  BY <1>1, <2>2 DEF m
<1>6. CASE m \in Rejects
  <2>1. HandleReject(m)
    BY <1>1, <1>6, MessageFields DEF HandleNas, HandleAuthenticationRequest, AcceptWithoutGuti,
       HandleSecurityModeCommand, HandleRegistrationAccept, HandleIdentityRequest, HandleOther
  <2>2. Purges(m)
    BY <1>6, <2>1 DEF HandleReject, ResetSecurityContext, Purges
  <2>. QED  BY <1>1, <2>2 DEF m
<1>. QED  BY <1>2, <1>3, <1>4, <1>5, <1>6 DEF Lawful

\* What the UE sends without being asked: nothing that the two are agreed with.
Quiet == {"RRCSetupRequest", "RegistrationRequest", "UlNasTransport"}

\* The UE by itself changes neither the keys nor anything of the network, and
\* dies only of a missing context.
LEMMA AloneEffect ==
    ASSUME NetTypeOK, UeAlone
    PROVE  /\ UNCHANGED <<auth, secCtx, netVars>>
           /\ phase \in {"created", "waiting", "listening"}
           /\ \/ phase' \in {"created", "waiting", "listening"}
              \/ /\ phase' = "panicked" /\ secCtx = None
                 /\ \E t \in Triggers : trigger[t] = "checked" /\ trigger'[t] = "checked"
           /\ \A t \in Triggers : trigger'[t] = "checked" => trigger[t] = "checked" \/ secCtx # None
           /\ \/ toDu' = toDu
              \/ \E e \in UlMsg : e.type \in Quiet /\ toDu' = Append(toDu, e)
<1>. USE DEF NetTypeOK
<1>1. UNCHANGED netVars
  BY DEF UeAlone
<1>2. CASE InitRRCConn
  <2>1. [type |-> "RRCSetupRequest", key |-> None, arg |-> None] \in UlMsg
    BY DEF UlMsg, UlTypes
  <2>. QED  BY <1>1, <1>2, <2>1 DEF InitRRCConn, Send, Quiet
<1>3. CASE HandleRRCSetup
  <2>1. [type |-> "RegistrationRequest", key |-> None, arg |-> None] \in UlMsg
    BY DEF UlMsg, UlTypes
  <2>. QED  BY <1>1, <1>3, <2>1 DEF HandleRRCSetup, Send, Quiet
<1>4. ASSUME NEW t \in Triggers, TriggerStep(t) \/ DropN1Sm(t)
      PROVE  /\ UNCHANGED <<auth, secCtx>> /\ phase = "listening"
             /\ \/ phase' = "listening"
                \/ /\ phase' = "panicked" /\ secCtx = None
                   /\ trigger[t] = "checked" /\ trigger'[t] = "checked"
             /\ \A s \in Triggers : trigger'[s] = "checked" => trigger[s] = "checked" \/ secCtx # None
             /\ \/ toDu' = toDu
                \/ \E e \in UlMsg : e.type \in Quiet /\ toDu' = Append(toDu, e)
  <2>1. trigger \in [Triggers -> {"idle", "sleeping", "checked", "sending"}]
    BY DEF TypeOK
  <2>2. CASE WakeUp(t)
    BY <2>1, <2>2 DEF WakeUp
  <2>3. CASE FetchContext(t)
    BY <2>1, <2>3 DEF FetchContext
  <2>4. CASE FinishTrigger(t)
    <3>1. [type |-> "UlNasTransport", key |-> held[t], arg |-> None] \in UlMsg
      BY DEF UlMsg, UlTypes, TypeOK
    <3>2. /\ UNCHANGED <<auth, secCtx, phase>> /\ phase = "listening"
          /\ \A s \in Triggers : trigger'[s] = "checked" => trigger[s] = "checked"
      BY <2>1, <2>4 DEF FinishTrigger
    <3>3. toDu' = toDu \/ toDu' = Append(toDu, [type |-> "UlNasTransport", key |-> held[t], arg |-> None])
      BY <1>4, <2>4 DEF TriggerStep, WakeUp, FetchContext, SendN1Sm, DropN1Sm, Send
    <3>. QED  BY <3>1, <3>2, <3>3 DEF Quiet
  <2>. QED  BY <1>4, <2>2, <2>3, <2>4 DEF TriggerStep, SendN1Sm, DropN1Sm
<1>. QED  BY <1>1, <1>2, <1>3, <1>4 DEF UeAlone

\* The AMF's answers to an uplink message m.
Restarts(m) ==
    /\ m.type = "RegistrationRequest" /\ amf.step = "idle" /\ Challenge(hssSqn)

Declines(m) ==
    /\ m.type = "RegistrationRequest" /\ amf.step = "idle"
    /\ Reject([type |-> "RegistrationReject"])

Resynchronises(m) ==
    /\ m.type = "SyncFailure" /\ amf.step = "auth" /\ m.arg.rand = amf.chal.rand
    /\ Challenge(m.arg.sqn)

Rechallenges(m) ==
    /\ m.type = "MacFailure" /\ amf.step = "auth" /\ Challenge(hssSqn)

Authenticates(m) ==
    /\ m.type = "AuthenticationResponse" /\ amf.step = "auth" /\ m.arg = amf.chal
    /\ amf' = [amf EXCEPT !.step = "smc"]
    /\ dl' = Append(dl, SecurityModeCommand(amf.ksi))
    /\ UNCHANGED <<hssSqn, faults>>

Secures(m) ==
    /\ m.type = "SecurityModeComplete" /\ amf.step = "smc" /\ m.key = amf.chal
    /\ \/ /\ amf.registered
          /\ amf' = [amf EXCEPT !.step = "done", !.kamf = amf.chal]
          /\ UNCHANGED dl
       \/ /\ amf' = [amf EXCEPT !.step = "accept", !.kamf = amf.chal]
          /\ dl' = Append(dl, RegistrationAccept)
    /\ UNCHANGED <<hssSqn, faults>>

Finishes(m) ==
    /\ m.type = "RegistrationComplete" /\ amf.step = "accept" /\ m.key = amf.kamf
    /\ amf' = [amf EXCEPT !.step = "done", !.registered = TRUE]
    /\ UNCHANGED <<dl, hssSqn, faults>>

Ignores == UNCHANGED <<amf, dl, hssSqn, faults>>

\* It does one of these.
LEMMA AmfEffect ==
    ASSUME AmfReceives
    PROVE  /\ toDu # <<>> /\ toDu' = Tail(toDu)
           /\ UNCHANGED <<phase, state, guti, auth, secCtx, trigger, held, used>>
           /\ \/ Ignores
              \/ Restarts(Head(toDu)) \/ Declines(Head(toDu)) \/ Resynchronises(Head(toDu))
              \/ Rechallenges(Head(toDu)) \/ Authenticates(Head(toDu))
              \/ Secures(Head(toDu)) \/ Finishes(Head(toDu))
<1>. DEFINE m == Head(toDu)
<1>1. /\ toDu # <<>> /\ toDu' = Tail(toDu)
      /\ UNCHANGED <<phase, state, guti, auth, secCtx, trigger, held, used>>
      /\ AmfHandles(m)
  BY DEF AmfReceives, DuReceives
<1>. HIDE DEF m
<1>2. \/ Ignores
      \/ Restarts(m) \/ Declines(m) \/ Resynchronises(m) \/ Rechallenges(m)
      \/ Authenticates(m) \/ Secures(m) \/ Finishes(m)
  <2>. HIDE DEF Challenge, Reject
  <2>. QED  BY <1>1 DEF AmfHandles, Ignores, Restarts, Declines, Resynchronises, Rechallenges,
                        Authenticates, Secures, Finishes
<1>. QED  BY <1>1, <1>2 DEF m

\* The AMF goes on with its procedure, or repeats its message.
Continues ==
    /\ {amf.step, amf'.step} \subseteq {"auth", "smc", "accept", "done"}
    /\ amf'.ksi = amf.ksi /\ amf'.chal = amf.chal /\ amf'.mac = amf.mac
    /\ UNCHANGED <<faults, hssSqn>>
    /\ \/ dl' = dl
       \/ dl' = Append(dl, AuthenticationRequest(amf.ksi, amf.chal, amf.mac))
       \/ dl' = Append(dl, SecurityModeCommand(amf.ksi)) /\ amf'.step = "smc"
       \/ dl' = Append(dl, RegistrationAccept)

Rejecting ==
    /\ amf.step # "rejected" /\ amf' = [amf EXCEPT !.step = "rejected"]
    /\ \E m \in Rejects : dl' = Append(dl, m)
    /\ Happens({"reject"}) /\ UNCHANGED hssSqn

Network == AmfReceives \/ AmfTimeout \/ AmfRejects \/ AmfReauthenticates \/ HssRestores

Keyed == {"smc", "accept", "done"}

\* Every step of the network does one of four things, and the AMF only comes
\* to use a key with an answer to its challenge.
LEMMA NetworkEffect ==
    ASSUME NetTypeOK, MsgInv, Network
    PROVE  /\ UNCHANGED <<phase, secCtx, trigger>>
           /\ toDu' = toDu \/ (toDu # <<>> /\ toDu' = Tail(toDu))
           /\ \/ UNCHANGED <<amf, dl, faults>> /\ hssSqn' \in Sqn
              \/ amf.step # "rejected" /\ \E sqn \in Sqn : Challenge(sqn)
              \/ Continues
              \/ Rejecting
           /\ amf'.step \in Keyed => \/ amf.step \in Keyed
                                     \/ \E i \in DOMAIN toDu : toDu[i].type = "AuthenticationResponse"
           /\ amf' \in Amf /\ used' \in Used
<1>1. /\ amf \in Amf /\ amf.step \in AmfSteps /\ hssSqn \in Sqn /\ toDu \in Seq(UlMsg) /\ used \in Used
  BY DEF NetTypeOK, TypeOK, Amf, Used
<1>2. ASSUME NEW sqn \in Sqn, Challenge(sqn)
      PROVE  amf' \in Amf /\ amf'.step = "auth"
  <2>1. PICK k \in Ksi, c \in Kamf, mac \in BOOLEAN :
            /\ amf' = [amf EXCEPT !.step = "auth", !.ksi = k, !.chal = c, !.mac = mac]
            /\ dl' = Append(dl, AuthenticationRequest(k, c, mac))
            /\ Happens(IF mac THEN {} ELSE {"mac"})
    BY <1>1, <1>2, ChallengeEffect
  <2>. QED  BY <1>1, <2>1 DEF Amf, AmfSteps
<1>3. ASSUME NEW m \in Rejects, Reject(m), amf.step # "rejected"
      PROVE  Rejecting /\ amf' \in Amf /\ amf'.step = "rejected"
  <2>1. amf' \in Amf /\ amf'.step = "rejected"
    BY <1>1, <1>3 DEF Reject, Amf, AmfSteps
  <2>. QED  BY <1>3, <2>1 DEF Reject, Rejecting
<1>4. CASE AmfReceives
  <2>. DEFINE m == Head(toDu)
  <2>1. /\ toDu # <<>> /\ toDu' = Tail(toDu) /\ UNCHANGED <<phase, secCtx, trigger, used>>
        /\ \/ Ignores
           \/ Restarts(m) \/ Declines(m) \/ Resynchronises(m) \/ Rechallenges(m)
           \/ Authenticates(m) \/ Secures(m) \/ Finishes(m)
    BY <1>4, AmfEffect
  <2>2. 1 \in DOMAIN toDu /\ m = toDu[1] /\ m \in UlMsg
    BY <1>1, <2>1
  <2>. HIDE DEF m
  <2>3. CASE Ignores
    BY <1>1, <2>1, <2>3 DEF Ignores
  <2>4. CASE Restarts(m) \/ Rechallenges(m)
    BY <1>1, <1>2, <2>1, <2>4 DEF Restarts, Rechallenges, Keyed
  <2>5. CASE Declines(m)
    <3>1. [type |-> "RegistrationReject"] \in Rejects
      BY DEF Rejects
    <3>. QED  BY <1>1, <1>3, <2>1, <2>5, <3>1 DEF Declines, Keyed
  <2>6. CASE Resynchronises(m)
    <3>1. m.arg \in Kamf
      BY <2>2, <2>6 DEF Resynchronises, MsgInv, UlMsg
    <3>2. m.arg.sqn \in Sqn
      BY <3>1 DEF Kamf
    <3>. QED  BY <1>1, <1>2, <2>1, <2>6, <3>2 DEF Resynchronises, Keyed
  <2>7. CASE Authenticates(m)
    <3>1. amf' \in Amf /\ amf'.step = "smc" /\ amf'.ksi = amf.ksi /\ amf'.chal = amf.chal /\ amf'.mac = amf.mac
      BY <1>1, <2>7 DEF Authenticates, Amf, AmfSteps
    <3>2. Continues
      BY <2>7, <3>1 DEF Authenticates, Continues
    <3>3. \E i \in DOMAIN toDu : toDu[i].type = "AuthenticationResponse"
      BY <2>2, <2>7 DEF Authenticates
    <3>. QED  BY <1>1, <2>1, <3>1, <3>2, <3>3
  <2>8. CASE Secures(m)
    <3>1. /\ amf' \in Amf /\ amf'.step \in {"accept", "done"} /\ amf.step = "smc"
          /\ amf'.ksi = amf.ksi /\ amf'.chal = amf.chal /\ amf'.mac = amf.mac
      BY <1>1, <2>8 DEF Secures, Amf, AmfSteps
    <3>2. Continues
      BY <2>8, <3>1 DEF Secures, Continues
    <3>. QED  BY <1>1, <2>1, <3>1, <3>2 DEF Keyed
  <2>9. CASE Finishes(m)
    <3>1. /\ amf' \in Amf /\ amf'.step = "done" /\ amf.step = "accept"
          /\ amf'.ksi = amf.ksi /\ amf'.chal = amf.chal /\ amf'.mac = amf.mac
      BY <1>1, <2>9 DEF Finishes, Amf, AmfSteps
    <3>2. Continues
      BY <2>9, <3>1 DEF Finishes, Continues
    <3>. QED  BY <1>1, <2>1, <3>1, <3>2 DEF Keyed
  <2>. QED  BY <2>1, <2>3, <2>4, <2>5, <2>6, <2>7, <2>8, <2>9
<1>5. CASE AmfTimeout
  <2>1. UNCHANGED <<vars, amf, hssSqn, faults>>
    BY <1>5 DEF AmfTimeout
  <2>2. used' \in Used
    BY <1>1, <1>5, NetAssumption DEF AmfTimeout, Used
  <2>3. Continues
    BY <1>5, <2>1 DEF AmfTimeout, Continues
  <2>. QED  BY <1>1, <2>1, <2>2, <2>3 DEF vars
<1>6. CASE AmfRejects
  <2>1. UNCHANGED <<vars, used>> /\ \E m \in Rejects : Reject(m) /\ amf.step \in {"auth", "smc"}
    BY <1>6 DEF AmfRejects
  <2>. QED  BY <1>1, <1>3, <2>1 DEF vars, Keyed
<1>7. CASE AmfReauthenticates
  <2>1. UNCHANGED vars /\ Challenge(hssSqn) /\ amf.step = "done"
    BY <1>7 DEF AmfReauthenticates
  <2>2. used' \in Used
    BY <1>1, <1>7, NetAssumption DEF AmfReauthenticates, Used
  <2>. QED  BY <1>1, <1>2, <2>1, <2>2 DEF vars, Keyed
<1>8. CASE HssRestores
  <2>1. UNCHANGED <<vars, dl, amf, faults>> /\ hssSqn' = 0
    BY <1>8 DEF HssRestores
  <2>2. used' \in Used
    BY <1>1, <1>8, NetAssumption DEF HssRestores, Used
  <2>3. 0 \in Sqn
    BY SizeAssumption DEF Sqn
  <2>. QED  BY <1>1, <2>1, <2>2, <2>3 DEF vars
<1>. QED  BY <1>4, <1>5, <1>6, <1>7, <1>8 DEF Network

\* What the network puts into the downlink, and what it records.
LEMMA NetworkSends ==
    ASSUME NetTypeOK, MsgInv, Network
    PROVE  /\ \/ dl' = dl
              \/ \E e \in DlNas :
                    /\ dl' = Append(dl, e) /\ Lawful(e) /\ amf.step # "rejected"
                    /\ IsChallenge(e) => e.mac = amf'.mac
                    /\ IsSmc(e) => amf'.step = "smc"
                    /\ e \in Rejects => amf'.step = "rejected"
           /\ amf'.step \in {"auth", "smc", "accept", "done"} => amf'.ksi \in Ksi /\ amf'.chal # None
           /\ faults \subseteq faults' /\ faults' \subseteq MayFail
           /\ "overtaking" \in faults' => "overtaking" \in faults
           /\ "mac" \notin faults' => amf'.mac = amf.mac \/ amf'.mac = TRUE
           /\ amf.step = "rejected" => amf'.step = "rejected" /\ dl' = dl
           /\ amf'.step = "rejected" => amf.step = "rejected" \/ "reject" \in faults'
           /\ hssSqn' \in Sqn
<1>1. /\ amf \in Amf /\ amf.step \in AmfSteps /\ hssSqn \in Sqn /\ faults \subseteq MayFail /\ None \notin Kamf
      /\ amf.step \in {"auth", "smc", "accept", "done"} => amf.ksi \in Ksi /\ amf.chal \in Kamf
  BY NoneAssumption DEF NetTypeOK, Amf, MsgInv
<1>2. CASE UNCHANGED <<amf, dl, faults>> /\ hssSqn' \in Sqn
  BY <1>1, <1>2 DEF MsgInv
<1>3. ASSUME NEW sqn \in Sqn, Challenge(sqn), amf.step # "rejected"
      PROVE  /\ \E e \in DlNas :
                    /\ dl' = Append(dl, e) /\ Lawful(e)
                    /\ IsChallenge(e) => e.mac = amf'.mac
                    /\ ~IsSmc(e) /\ e \notin Rejects
             /\ amf'.step = "auth" /\ amf'.ksi \in Ksi /\ amf'.chal # None
             /\ faults \subseteq faults' /\ faults' \subseteq MayFail
             /\ "overtaking" \in faults' => "overtaking" \in faults
             /\ "mac" \notin faults' => amf'.mac = TRUE
             /\ hssSqn' \in Sqn
  <2>1. PICK k \in Ksi, c \in Kamf, mac \in BOOLEAN :
            /\ amf' = [amf EXCEPT !.step = "auth", !.ksi = k, !.chal = c, !.mac = mac]
            /\ dl' = Append(dl, AuthenticationRequest(k, c, mac))
            /\ Happens(IF mac THEN {} ELSE {"mac"})
    BY <1>1, <1>3, ChallengeEffect
  <2>2. amf'.step = "auth" /\ amf'.ksi = k /\ amf'.chal = c /\ amf'.mac = mac
    BY <1>1, <2>1 DEF Amf
  <2>. DEFINE e == AuthenticationRequest(k, c, mac)
  <2>3. e \in DlNas /\ e.ksi = k /\ e.complete /\ e.mac = mac
    BY DownlinkType, MessageFields
  <2>4. IsChallenge(e) /\ ~IsSmc(e) /\ e \notin Rejects
    BY Distinct
  <2>. HIDE DEF e
  <2>5. Lawful(e)
    BY <2>3, <2>4 DEF Lawful
  <2>6. /\ faults \subseteq faults' /\ faults' \subseteq MayFail
        /\ "overtaking" \in faults' => "overtaking" \in faults
        /\ "mac" \notin faults' => mac = TRUE
    BY <1>1, <2>1 DEF Happens
  <2>7. hssSqn' \in Sqn
    BY <1>1, <1>3, ChallengeEffect
  <2>8. dl' = Append(dl, e)
    BY <2>1 DEF e
  <2>. QED  BY <1>1, <2>2, <2>3, <2>4, <2>5, <2>6, <2>7, <2>8
<1>4. CASE Continues
  <2>1. /\ amf.ksi \in Ksi /\ amf.chal \in Kamf /\ amf.mac \in BOOLEAN /\ amf.step # "rejected"
        /\ amf'.ksi = amf.ksi /\ amf'.chal = amf.chal /\ amf'.mac = amf.mac /\ faults' = faults
        /\ amf'.step # "rejected" /\ hssSqn' = hssSqn
    BY <1>1, <1>4 DEF Continues, Amf
  <2>2. CASE dl' = Append(dl, AuthenticationRequest(amf.ksi, amf.chal, amf.mac))
    <3>. DEFINE e == AuthenticationRequest(amf.ksi, amf.chal, amf.mac)
    <3>1. e \in DlNas /\ e.ksi = amf.ksi /\ e.complete /\ e.mac = amf.mac
      BY <2>1, DownlinkType, MessageFields
    <3>2. IsChallenge(e) /\ ~IsSmc(e) /\ e \notin Rejects /\ dl' = Append(dl, e)
      BY <2>2, Distinct
    <3>. HIDE DEF e
    <3>3. Lawful(e)
      BY <2>1, <3>1, <3>2 DEF Lawful
    <3>. QED  BY <1>1, <2>1, <3>1, <3>2, <3>3
  <2>3. CASE dl' = Append(dl, SecurityModeCommand(amf.ksi)) /\ amf'.step = "smc"
    <3>. DEFINE e == SecurityModeCommand(amf.ksi)
    <3>1. e \in DlNas /\ e.ksi = amf.ksi
      BY <2>1, DownlinkType, MessageFields
    <3>2. IsSmc(e) /\ ~IsChallenge(e) /\ e \notin Rejects /\ dl' = Append(dl, e)
      BY <2>3, Distinct
    <3>. HIDE DEF e
    <3>3. Lawful(e)
      BY <2>1, <3>1, <3>2 DEF Lawful
    <3>. QED  BY <1>1, <2>1, <2>3, <3>1, <3>2, <3>3
  <2>4. CASE dl' = Append(dl, RegistrationAccept)
    <3>1. RegistrationAccept \in DlNas /\ Lawful(RegistrationAccept)
      BY DownlinkType DEF Lawful
    <3>. QED  BY <1>1, <2>1, <2>4, <3>1, Distinct
  <2>5. CASE dl' = dl
    BY <1>1, <2>1, <2>5
  <2>. QED  BY <1>4, <2>2, <2>3, <2>4, <2>5 DEF Continues
<1>5. CASE Rejecting
  <2>1. /\ amf.step # "rejected" /\ amf'.step = "rejected" /\ amf'.mac = amf.mac /\ hssSqn' = hssSqn
        /\ faults' = faults \cup {"reject"} /\ {"reject"} \subseteq MayFail
    BY <1>1, <1>5 DEF Rejecting, Happens, Amf
  <2>2. PICK e \in Rejects : dl' = Append(dl, e)
    BY <1>5 DEF Rejecting
  <2>3. e \in DlNas /\ Lawful(e) /\ ~IsChallenge(e) /\ ~IsSmc(e)
    BY <2>2, DownlinkType, Distinct DEF Lawful
  <2>. QED  BY <1>1, <2>1, <2>2, <2>3
<1>. QED  BY <1>2, <1>3, <1>4, <1>5, NetworkEffect

\* What the listener puts into the uplink, and what it leaves in the UE.
LEMMA ListenerSends ==
    ASSUME NetTypeOK, MsgInv, NEW i \in DOMAIN dl, UeReceives(i)
    PROVE  /\ \/ toDu' = toDu
              \/ \E e \in UlMsg :
                    /\ toDu' = Append(toDu, e)
                    /\ e.type = "AuthenticationResponse" => secCtx' # None
                    /\ e.type = "SyncFailure" => e.arg # None
                    /\ e.type = "MacFailure" => IsChallenge(dl[i]) /\ ~dl[i].mac
           /\ secCtx # None /\ dl[i] \notin Rejects => secCtx' # None
           /\ phase' = "listening" \/ (phase' = "panicked" /\ IsSmc(dl[i]) /\ secCtx = None)
           /\ \A t \in Triggers : trigger'[t] = "checked" => trigger[t] = "checked"
<1>. DEFINE m == dl[i]
<1>1. /\ phase = "listening"
      /\ \/ Accepts(m) \/ Refuses(m) \/ FailsMac(m) \/ Mismatches(m)
         \/ Activates(m) \/ Panics(m) \/ Registers(m) \/ Purges(m)
  BY ListenerEffect DEF MsgInv
<1>2. /\ m \in DlNas /\ Lawful(m) /\ None \notin Kamf /\ None \notin Contexts
      /\ trigger \in [Triggers -> {"idle", "sleeping", "checked", "sending"}]
      /\ secCtx \in Contexts \cup {None} /\ auth.sqn \in Sqn
  BY NoneAssumption, ContextAssumption DEF NetTypeOK, TypeOK, MsgInv
<1>. HIDE DEF m
<1>3. CASE Accepts(m)
  <2>. DEFINE k == [rand |-> m.rand, sqn |-> m.sqn]
  <2>1. k \in Kamf /\ m.ksi \in Ksi
    BY <1>2, <1>3, ChallengeFields, Distinct DEF Accepts, IsChallenge, Lawful, IsSmc
  <2>. HIDE DEF k
  <2>2. /\ secCtx' = [ngKsi |-> m.ksi, kamf |-> k, keyed |-> FALSE] /\ trigger' = trigger /\ phase' = phase
        /\ toDu' = Append(toDu, [type |-> "AuthenticationResponse", key |-> None, arg |-> k])
    BY <1>3 DEF Accepts, k
  <2>3. secCtx' \in Contexts
    BY <2>1, <2>2 DEF Contexts
  <2>4. [type |-> "AuthenticationResponse", key |-> None, arg |-> k] \in UlMsg
    BY <2>1 DEF UlMsg, UlTypes
  <2>. QED  BY <1>1, <1>2, <2>2, <2>3, <2>4
<1>4. CASE Refuses(m)
  <2>. DEFINE k == [rand |-> m.rand, sqn |-> auth.sqn]
  <2>1. k \in Kamf
    BY <1>2, <1>4, ChallengeFields DEF Refuses, IsChallenge, Kamf
  <2>. HIDE DEF k
  <2>2. secCtx' = secCtx /\ trigger' = trigger /\ phase' = phase
        /\ toDu' = Append(toDu, [type |-> "SyncFailure", key |-> None, arg |-> k])
    BY <1>4 DEF Refuses, k
  <2>3. [type |-> "SyncFailure", key |-> None, arg |-> k] \in UlMsg
    BY <2>1 DEF UlMsg, UlTypes
  <2>. QED  BY <1>1, <1>2, <2>1, <2>2, <2>3
<1>5. CASE FailsMac(m)
  <2>1. [type |-> "MacFailure", key |-> None, arg |-> None] \in UlMsg
    BY DEF UlMsg, UlTypes
  <2>. QED  BY <1>1, <1>5, <2>1 DEF FailsMac, m
<1>6. CASE Mismatches(m)
  BY <1>1, <1>6 DEF Mismatches
<1>7. CASE Activates(m)
  <2>1. secCtx \in Contexts /\ secCtx' = [secCtx EXCEPT !.keyed = TRUE]
    BY <1>2, <1>7 DEF Activates
  <2>2. secCtx' \in Contexts /\ secCtx.kamf \in Kamf
    BY <2>1 DEF Contexts
  <2>3. [type |-> "SecurityModeComplete", key |-> secCtx.kamf, arg |-> None] \in UlMsg
    BY <2>2 DEF UlMsg, UlTypes
  <2>. QED  BY <1>1, <1>2, <1>7, <2>2, <2>3 DEF Activates
<1>8. CASE Panics(m)
  BY <1>1, <1>8 DEF Panics, m
<1>9. CASE Registers(m)
  <2>1. [type |-> "RegistrationComplete", key |-> NasKey, arg |-> None] \in UlMsg
    BY <1>2, NasKeyType DEF UlMsg, UlTypes
  <2>2. \A t \in Triggers : trigger'[t] = "checked" => trigger[t] = "checked"
    BY <1>2, <1>9 DEF Registers
  <2>. QED  BY <1>1, <1>9, <2>1, <2>2 DEF Registers
<1>10. CASE Purges(m)
  BY <1>1, <1>10 DEF Purges, m
<1>. QED  BY <1>1, <1>3, <1>4, <1>5, <1>6, <1>7, <1>8, <1>9, <1>10

\* What it leaves in the downlink.
LEMMA ListenerTakes ==
    ASSUME NetTypeOK, MsgInv, NEW i \in DOMAIN dl, UeReceives(i)
    PROVE  /\ UNCHANGED <<amf, hssSqn, used>>
           /\ faults \subseteq faults' /\ faults' \subseteq MayFail
           /\ faults' \subseteq faults \cup {"overtaking"} /\ ("overtaking" \notin faults' => i = 1)
           /\ dl' \in Seq(DlNas) /\ Len(dl') = Len(dl) - 1 /\ i \in 1 .. Len(dl)
           /\ DOMAIN dl = 1 .. Len(dl) /\ DOMAIN dl' = 1 .. Len(dl) - 1
           /\ \A j \in DOMAIN dl' :
                 LET k == IF j < i THEN j ELSE j + 1 IN k \in DOMAIN dl \ {i} /\ dl'[j] = dl[k]
<1>1. /\ dl' = RemoveAt(dl, i) /\ UNCHANGED <<amf, hssSqn, used>>
      /\ Happens(IF i = 1 THEN {} ELSE {"overtaking"})
      /\ dl \in Seq(DlNas) /\ faults \subseteq MayFail
  BY ListenerEffect DEF MsgInv, NetTypeOK
<1>2. /\ faults \subseteq faults' /\ faults' \subseteq MayFail
      /\ faults' \subseteq faults \cup {"overtaking"} /\ ("overtaking" \notin faults' => i = 1)
  BY <1>1 DEF Happens
<1>3. /\ RemoveAt(dl, i) \in Seq(DlNas) /\ DOMAIN RemoveAt(dl, i) = 1 .. Len(dl) - 1
      /\ Len(RemoveAt(dl, i)) = Len(dl) - 1
      /\ \A j \in 1 .. Len(dl) - 1 : RemoveAt(dl, i)[j] = dl[IF j < i THEN j ELSE j + 1]
  BY <1>1, RemoveOf
<1>4. i \in 1 .. Len(dl) /\ DOMAIN dl = 1 .. Len(dl) /\ Len(dl) \in Nat
  BY <1>1
<1>5. \A j \in 1 .. Len(dl) - 1 : (IF j < i THEN j ELSE j + 1) \in 1 .. Len(dl) \ {i}
  BY <1>4
<1>. QED  BY <1>1, <1>2, <1>3, <1>4, <1>5

------------------------------------------------------------------------------
(* SafeInv, part by part                                                    *)

\* Every step of the composition is a step of the UE or leaves it alone.
LEMMA UeStep ==
    ASSUME NetTypeOK, [NetNext]_allVars
    PROVE  [Next]_vars
<1>1. CASE UeListens
  <2>1. PICK i \in DOMAIN dl : UeReceives(i)
    BY <1>1 DEF UeListens
  <2>2. dl[i] \in DlNas /\ HandleNas(dl[i])
    BY <2>1 DEF NetTypeOK, UeReceives
  <2>. QED  BY <2>2 DEF Next
<1>2. CASE UeAlone
  BY <1>2 DEF UeAlone, Next
<1>3. CASE AmfReceives
  BY <1>3 DEF AmfReceives, Next
<1>4. CASE AmfTimeout \/ AmfRejects \/ AmfReauthenticates \/ HssRestores
  BY <1>4 DEF AmfTimeout, AmfRejects, AmfReauthenticates, HssRestores
<1>5. CASE UNCHANGED allVars
  BY <1>5 DEF allVars
<1>. QED  BY <1>1, <1>2, <1>3, <1>4, <1>5 DEF NetNext

\* Types survive every step.
LEMMA NetTypeStep ==
    ASSUME NetTypeOK, MsgInv, [NetNext]_allVars
    PROVE  NetTypeOK'
<1>1. /\ TypeOK' /\ dl \in Seq(DlNas) /\ amf \in Amf /\ hssSqn \in Sqn /\ used \in Used
      /\ faults \subseteq MayFail
  BY UeStep, NextType DEF NetTypeOK, Amf, Used
<1>. SUFFICES dl' \in Seq(DlNas) /\ amf' \in Amf /\ hssSqn' \in Sqn /\ used' \in Used /\ faults' \subseteq MayFail
  BY <1>1 DEF NetTypeOK, Amf, Used
<1>2. CASE UeListens
  <2>1. PICK i \in DOMAIN dl : UeReceives(i)
    BY <1>2 DEF UeListens
  <2>. QED  BY <1>1, <2>1, ListenerTakes
<1>3. CASE UeAlone \/ UNCHANGED allVars
  BY <1>1, <1>3 DEF UeAlone, netVars, allVars
<1>4. CASE Network
  <2>1. dl' = dl \/ \E e \in DlNas : dl' = Append(dl, e)
    BY <1>4, NetworkSends
  <2>2. dl' \in Seq(DlNas)
    BY <1>1, <2>1
  <2>. QED  BY <1>4, <2>2, NetworkEffect, NetworkSends
<1>. QED  BY <1>2, <1>3, <1>4 DEF NetNext, Network

\* What is in a channel was there, or is what a step has put there.
LEMMA Grown ==
    ASSUME NEW S, NEW q \in Seq(S), NEW e \in S, NEW i \in DOMAIN Append(q, e)
    PROVE  (i \in DOMAIN q /\ Append(q, e)[i] = q[i]) \/ (Append(q, e)[i] = e /\ i = Len(q) + 1)
OBVIOUS

\* Every message is lawful, and a challenge has an ngKSI.
LEMMA MsgStep ==
    ASSUME NetTypeOK, MsgInv, [NetNext]_allVars
    PROVE  MsgInv'
<1>1. dl \in Seq(DlNas) /\ toDu \in Seq(UlMsg)
  BY DEF NetTypeOK, TypeOK
<1>2. ASSUME NEW m PROVE Lawful(m)' <=> Lawful(m)
  BY DEF Lawful, IsChallenge, IsSmc, RegistrationAccept, Rejects
<1>3. ASSUME NEW e \in UlMsg, toDu' = Append(toDu, e), e.type = "SyncFailure" => e.arg # None
      PROVE  \A i \in DOMAIN toDu' : toDu'[i].type = "SyncFailure" => toDu'[i].arg # None
  BY <1>1, <1>3, Grown DEF MsgInv
<1>4. CASE UeListens
  <2>1. PICK i \in DOMAIN dl : UeReceives(i)
    BY <1>4 DEF UeListens
  <2>2. /\ UNCHANGED amf /\ \A j \in DOMAIN dl' : \E k \in DOMAIN dl : dl'[j] = dl[k]
        /\ \/ toDu' = toDu
           \/ \E e \in UlMsg : toDu' = Append(toDu, e) /\ (e.type = "SyncFailure" => e.arg # None)
    BY <2>1, ListenerTakes, ListenerSends
  <2>3. \A i_1 \in DOMAIN toDu' : toDu'[i_1].type = "SyncFailure" => toDu'[i_1].arg # None
    BY <1>3, <2>2 DEF MsgInv
  <2>. QED  BY <1>2, <2>2, <2>3 DEF MsgInv
<1>5. CASE UeAlone
  <2>1. UNCHANGED <<amf, dl>> /\ (toDu' = toDu \/ \E e \in UlMsg : e.type \in Quiet /\ toDu' = Append(toDu, e))
    BY <1>5, AloneEffect DEF netVars
  <2>2. \A i \in DOMAIN toDu' : toDu'[i].type = "SyncFailure" => toDu'[i].arg # None
    BY <1>3, <2>1 DEF MsgInv, Quiet
  <2>. QED  BY <1>2, <2>1, <2>2 DEF MsgInv
<1>6. CASE Network
  <2>1. /\ dl' = dl \/ \E e \in DlNas : dl' = Append(dl, e) /\ Lawful(e)
        /\ amf'.step \in {"auth", "smc", "accept", "done"} => amf'.ksi \in Ksi /\ amf'.chal # None
        /\ toDu' = toDu \/ (toDu # <<>> /\ toDu' = Tail(toDu))
    BY <1>6, NetworkEffect, NetworkSends
  <2>2. \A i \in DOMAIN dl' : Lawful(dl'[i])
    BY <1>1, <2>1, Grown DEF MsgInv
  <2>3. \A i \in DOMAIN toDu' : \E j \in DOMAIN toDu : toDu'[i] = toDu[j]
    BY <1>1, <2>1, TailOf DEF IsTail
  <2>. QED  BY <1>2, <2>1, <2>2, <2>3 DEF MsgInv
<1>7. CASE UNCHANGED allVars
  BY <1>2, <1>7 DEF MsgInv, allVars, vars, netVars
<1>. QED  BY <1>4, <1>5, <1>6, <1>7 DEF NetNext, Network

\* Without a wrong challenge there is no MAC failure.
LEMMA MacStep ==
    ASSUME NetTypeOK, MsgInv, MacInv, [NetNext]_allVars
    PROVE  MacInv'
<1>1. dl \in Seq(DlNas) /\ toDu \in Seq(UlMsg) /\ amf.mac \in BOOLEAN
  BY DEF NetTypeOK, TypeOK
<1>. SUFFICES ASSUME "mac" \notin faults'
              PROVE  /\ amf'.mac
                     /\ \A i \in DOMAIN dl' : IsChallenge(dl'[i]) => dl'[i].mac
                     /\ \A i \in DOMAIN toDu' : toDu'[i].type # "MacFailure"
  BY DEF MacInv, IsChallenge
<1>. DEFINE Before == /\ amf.mac
                      /\ \A i \in DOMAIN dl : IsChallenge(dl[i]) => dl[i].mac
                      /\ \A i \in DOMAIN toDu : toDu[i].type # "MacFailure"
<1>2. ASSUME NEW e \in UlMsg, toDu' = Append(toDu, e), e.type # "MacFailure", Before
      PROVE  \A i \in DOMAIN toDu' : toDu'[i].type # "MacFailure"
  BY <1>1, <1>2, Grown
<1>3. CASE UeListens
  <2>1. PICK i \in DOMAIN dl : UeReceives(i)
    BY <1>3 DEF UeListens
  <2>2. /\ UNCHANGED amf /\ \A j \in DOMAIN dl' : \E k \in DOMAIN dl : dl'[j] = dl[k]
        /\ faults \subseteq faults'
        /\ \/ toDu' = toDu
           \/ \E e \in UlMsg : /\ toDu' = Append(toDu, e)
                               /\ e.type = "MacFailure" => IsChallenge(dl[i]) /\ ~dl[i].mac
    BY <2>1, ListenerTakes, ListenerSends
  <2>3. Before
    BY <2>2 DEF MacInv
  <2>4. \A i_1 \in DOMAIN toDu' : toDu'[i_1].type # "MacFailure"
    BY <1>2, <2>2, <2>3
  <2>. QED  BY <2>2, <2>3, <2>4
<1>4. CASE UeAlone
  <2>1. /\ UNCHANGED <<amf, dl, faults>>
        /\ toDu' = toDu \/ \E e \in UlMsg : e.type \in Quiet /\ toDu' = Append(toDu, e)
    BY <1>4, AloneEffect DEF netVars
  <2>2. Before
    BY <2>1 DEF MacInv
  <2>3. \A i \in DOMAIN toDu' : toDu'[i].type # "MacFailure"
    BY <1>2, <2>1, <2>2 DEF Quiet
  <2>. QED  BY <2>1, <2>2, <2>3
<1>5. CASE Network
  <2>1. /\ dl' = dl \/ \E e \in DlNas : dl' = Append(dl, e) /\ (IsChallenge(e) => e.mac = amf'.mac)
        /\ amf'.mac = amf.mac \/ amf'.mac = TRUE
        /\ faults \subseteq faults'
        /\ toDu' = toDu \/ (toDu # <<>> /\ toDu' = Tail(toDu))
    BY <1>5, NetworkEffect, NetworkSends
  <2>2. Before
    BY <2>1 DEF MacInv
  <2>3. amf'.mac = TRUE
    BY <1>1, <2>1, <2>2
  <2>4. \A i \in DOMAIN dl' : IsChallenge(dl'[i]) => dl'[i].mac
    BY <1>1, <2>1, <2>2, <2>3, Grown
  <2>5. \A i \in DOMAIN toDu' : \E j \in DOMAIN toDu : toDu'[i] = toDu[j]
    BY <1>1, <2>1, TailOf DEF IsTail
  <2>. QED  BY <2>2, <2>3, <2>4, <2>5
<1>6. CASE UNCHANGED allVars
  BY <1>6 DEF MacInv, allVars, vars, netVars
<1>. QED  BY <1>3, <1>4, <1>5, <1>6 DEF NetNext, Network

\* The AMF rejects once.
LEMMA RejectStep ==
    ASSUME NetTypeOK, MsgInv, RejectInv, [NetNext]_allVars
    PROVE  RejectInv'
<1>1. dl \in Seq(DlNas)
  BY DEF NetTypeOK
<1>2. Rejects' = Rejects
  BY DEF Rejects
<1>. USE <1>2 DEF RejectInv
<1>3. CASE UeListens
  <2>1. PICK i \in DOMAIN dl : UeReceives(i)
    BY <1>3 DEF UeListens
  <2>2. /\ UNCHANGED amf /\ faults \subseteq faults'
        /\ i \in 1 .. Len(dl) /\ DOMAIN dl = 1 .. Len(dl) /\ DOMAIN dl' = 1 .. Len(dl) - 1
        /\ \A j \in DOMAIN dl' :
              LET k == IF j < i THEN j ELSE j + 1 IN k \in DOMAIN dl \ {i} /\ dl'[j] = dl[k]
    BY <2>1, ListenerTakes
  <2>. DEFINE At(j) == IF j < i THEN j ELSE j + 1
  <2>3. \A j \in DOMAIN dl' : At(j) \in DOMAIN dl /\ dl'[j] = dl[At(j)]
    BY <2>2
  <2>4. \A j, k \in DOMAIN dl' : /\ At(j) = At(k) => j = k
                                 /\ j < k => At(j) < At(k)
    BY <2>2
  <2>. HIDE DEF At
  <2>. QED  BY <2>2, <2>3, <2>4
<1>4. CASE UeAlone \/ UNCHANGED allVars
  BY <1>4 DEF UeAlone, netVars, allVars
<1>5. CASE Network
  <2>1. /\ \/ dl' = dl
           \/ \E e \in DlNas : /\ dl' = Append(dl, e) /\ amf.step # "rejected"
                               /\ e \in Rejects => amf'.step = "rejected"
        /\ faults \subseteq faults'
        /\ "overtaking" \in faults' => "overtaking" \in faults
        /\ amf.step = "rejected" => amf'.step = "rejected" /\ dl' = dl
        /\ amf'.step = "rejected" => amf.step = "rejected" \/ "reject" \in faults'
    BY <1>5, NetworkSends
  <2>2. CASE dl' = dl
    BY <2>1, <2>2
  <2>3. ASSUME NEW e \in DlNas, dl' = Append(dl, e), amf.step # "rejected",
               e \in Rejects => amf'.step = "rejected"
        PROVE  RejectInv'
    <3>1. \A j \in DOMAIN dl' : (j \in DOMAIN dl /\ dl'[j] = dl[j]) \/ (dl'[j] = e /\ j = Len(dl) + 1)
      BY <1>1, <2>3, Grown
    <3>2. \A j \in DOMAIN dl : dl[j] \notin Rejects
      BY <2>3
    <3>3. \A j, k \in DOMAIN dl' : j < k => j # Len(dl) + 1
      BY <1>1, <2>3
    <3>. QED  BY <2>1, <2>3, <3>1, <3>2, <3>3
  <2>. QED  BY <2>1, <2>2, <2>3
<1>. QED  BY <1>3, <1>4, <1>5 DEF NetNext, Network

\* A rejection is not undone.
LEMMA PurgedStays ==
    ASSUME NetTypeOK, MsgInv, Purged, [NetNext]_allVars
    PROVE  Purged'
<1>1. dl \in Seq(DlNas) /\ Rejects' = Rejects
  BY DEF NetTypeOK, Rejects
<1>2. CASE UeListens
  <2>1. PICK i \in DOMAIN dl : UeReceives(i)
    BY <1>2 DEF UeListens
  <2>2. UNCHANGED amf /\ \A j \in DOMAIN dl' : \E k \in DOMAIN dl : dl'[j] = dl[k]
    BY <2>1, ListenerTakes
  <2>. QED  BY <1>1, <2>2 DEF Purged
<1>3. CASE UeAlone \/ UNCHANGED allVars
  BY <1>1, <1>3 DEF UeAlone, netVars, allVars, Purged
<1>4. CASE Network
  BY <1>1, <1>4, NetworkSends DEF Purged
<1>. QED  BY <1>2, <1>3, <1>4 DEF NetNext, Network

\* Taking the rejection out of the downlink.
LEMMA RejectTaken ==
    ASSUME NetTypeOK, MsgInv, RejectInv, NEW i \in DOMAIN dl, UeReceives(i), dl[i] \in Rejects
    PROVE  Purged' /\ ("overtaking" \notin faults' => dl' = <<>>)
<1>1. /\ UNCHANGED amf /\ amf.step = "rejected" /\ Rejects' = Rejects
      /\ faults \subseteq faults' /\ ("overtaking" \notin faults' => i = 1)
      /\ dl' \in Seq(DlNas) /\ Len(dl') = Len(dl) - 1
      /\ DOMAIN dl = 1 .. Len(dl) /\ DOMAIN dl' = 1 .. Len(dl) - 1 /\ i \in 1 .. Len(dl)
      /\ \A j \in DOMAIN dl' : \E k \in DOMAIN dl \ {i} : dl'[j] = dl[k]
  BY ListenerTakes DEF RejectInv, Rejects
<1>2. Purged'
  BY <1>1 DEF Purged, RejectInv
<1>3. ASSUME "overtaking" \notin faults' PROVE dl' = <<>>
  <2>1. i = 1 /\ \A j \in DOMAIN dl : ~(1 < j)
    BY <1>1, <1>3 DEF RejectInv
  <2>2. Len(dl) = 1
    <3>1. 1 < Len(dl) => Len(dl) \in DOMAIN dl
      BY <1>1
    <3>. QED  BY <1>1, <2>1, <3>1
  <2>. QED  BY <1>1, <2>2
<1>. QED  BY <1>2, <1>3

\* Until the UE handles a rejection, nobody relies on a missing context.
LEMMA ReliedStep ==
    ASSUME NetTypeOK, MsgInv, RejectInv, Relied, ~Purged', [NetNext]_allVars
    PROVE  Relied'
<1>1. dl \in Seq(DlNas) /\ toDu \in Seq(UlMsg)
  BY DEF NetTypeOK, TypeOK
<1>2. ASSUME NEW e \in UlMsg, toDu' = Append(toDu, e), secCtx # None => secCtx' # None,
             e.type = "AuthenticationResponse" => secCtx' # None
      PROVE  \A i \in DOMAIN toDu' : toDu'[i].type = "AuthenticationResponse" => secCtx' # None
  BY <1>1, <1>2, Grown DEF Relied
<1>3. CASE UeListens
  <2>1. PICK i \in DOMAIN dl : UeReceives(i)
    BY <1>3 DEF UeListens
  <2>2. dl[i] \notin Rejects
    BY <2>1, RejectTaken
  <2>3. /\ UNCHANGED amf /\ \A j \in DOMAIN dl' : \E k \in DOMAIN dl : dl'[j] = dl[k]
        /\ \/ toDu' = toDu
           \/ \E e \in UlMsg : toDu' = Append(toDu, e) /\ (e.type = "AuthenticationResponse" => secCtx' # None)
        /\ secCtx # None => secCtx' # None
        /\ phase' = "listening" \/ (phase' = "panicked" /\ IsSmc(dl[i]) /\ secCtx = None)
        /\ \A t \in Triggers : trigger'[t] = "checked" => trigger[t] = "checked"
    BY <2>1, <2>2, ListenerTakes, ListenerSends
  <2>4. \A i_1 \in DOMAIN toDu' : toDu'[i_1].type = "AuthenticationResponse" => secCtx' # None
    BY <1>2, <2>3 DEF Relied
  <2>. QED  BY <2>3, <2>4 DEF Relied, IsSmc
<1>4. CASE UeAlone
  <2>1. /\ UNCHANGED <<secCtx, dl, amf>>
        /\ \/ phase' \in {"created", "waiting", "listening"}
           \/ /\ phase' = "panicked" /\ secCtx = None
              /\ \E t \in Triggers : trigger[t] = "checked"
        /\ \A t \in Triggers : trigger'[t] = "checked" => trigger[t] = "checked" \/ secCtx # None
        /\ toDu' = toDu \/ \E e \in UlMsg : e.type \in Quiet /\ toDu' = Append(toDu, e)
    BY <1>4, AloneEffect DEF netVars
  <2>2. \A i \in DOMAIN toDu' : toDu'[i].type = "AuthenticationResponse" => secCtx' # None
    BY <1>2, <2>1 DEF Quiet, Relied
  <2>. QED  BY <2>1, <2>2 DEF Relied, IsSmc
<1>5. CASE Network
  <2>1. /\ UNCHANGED <<phase, secCtx, trigger>>
        /\ \A i \in DOMAIN toDu' : \E j \in DOMAIN toDu : toDu'[i] = toDu[j]
        /\ amf'.step \in Keyed => \/ amf.step \in Keyed
                                  \/ \E i \in DOMAIN toDu : toDu[i].type = "AuthenticationResponse"
    <3>1. toDu' = toDu \/ (toDu # <<>> /\ toDu' = Tail(toDu))
      BY <1>5, NetworkEffect
    <3>2. \A i \in DOMAIN toDu' : \E j \in DOMAIN toDu : toDu'[i] = toDu[j]
      BY <1>1, <3>1, TailOf DEF IsTail
    <3>. QED  BY <1>5, <3>2, NetworkEffect
  <2>2. amf'.step \in Keyed => secCtx # None
    BY <2>1 DEF Relied, Keyed
  <2>3. dl' = dl \/ \E e \in DlNas : dl' = Append(dl, e) /\ (IsSmc(e) => amf'.step = "smc")
    BY <1>5, NetworkSends
  <2>4. \A i \in DOMAIN dl' : IsSmc(dl'[i]) => secCtx # None
    BY <1>1, <2>2, <2>3, Grown DEF Relied, Keyed
  <2>. QED  BY <2>1, <2>2, <2>4 DEF Relied, IsSmc, Keyed
<1>6. CASE UNCHANGED allVars
  BY <1>6 DEF Relied, IsSmc, allVars, vars, netVars
<1>. QED  BY <1>3, <1>4, <1>5, <1>6 DEF NetNext, Network

\* After it, the downlink stays empty.
LEMMA AfterwardsStep ==
    ASSUME NetTypeOK, MsgInv, RejectInv, ~Purged => Relied,
           Purged /\ "overtaking" \notin faults => Afterwards,
           Purged', "overtaking" \notin faults', [NetNext]_allVars
    PROVE  Afterwards'
<1>1. dl \in Seq(DlNas) /\ Rejects' = Rejects
  BY DEF NetTypeOK, Rejects
<1>2. CASE UeListens
  <2>1. PICK i \in DOMAIN dl : UeReceives(i)
    BY <1>2 DEF UeListens
  <2>2. /\ UNCHANGED amf /\ faults \subseteq faults'
        /\ \A j \in DOMAIN dl' : LET k == IF j < i THEN j ELSE j + 1 IN k \in DOMAIN dl \ {i} /\ dl'[j] = dl[k]
    BY <2>1, ListenerTakes
  <2>3. ~Purged
    BY <2>1, <2>2 DEF Afterwards
  <2>4. dl[i] \in Rejects
    <3>1. PICK n \in DOMAIN dl : dl[n] \in Rejects
      BY <1>1, <2>2, <2>3 DEF Purged
    <3>2. amf.step = "rejected" /\ \A j \in DOMAIN dl' : dl'[j] \notin Rejects
      BY <1>1, <2>2 DEF Purged
    <3>3. n # i => \E j \in DOMAIN dl' : dl'[j] = dl[n]
      BY <1>1, <2>1, RemoveOf DEF UeReceives
    <3>. QED  BY <3>1, <3>2, <3>3
  <2>5. dl' = <<>> /\ phase' = "listening"
    BY <2>1, <2>4, RejectTaken, ListenerSends, Distinct
  <2>. QED  BY <2>5 DEF Afterwards
<1>3. CASE UeAlone
  <2>1. /\ UNCHANGED <<secCtx, dl, amf, faults>>
        /\ \/ phase' \in {"created", "waiting", "listening"}
           \/ /\ phase' = "panicked" /\ secCtx = None
              /\ \E t \in Triggers : trigger'[t] = "checked"
    BY <1>3, AloneEffect DEF netVars
  <2>2. Afterwards
    BY <1>1, <2>1 DEF Purged
  <2>. QED  BY <2>1, <2>2 DEF Afterwards
<1>4. CASE Network
  <2>1. /\ faults \subseteq faults'
        /\ amf.step = "rejected" => dl' = dl
        /\ UNCHANGED <<phase, secCtx, trigger>>
    BY <1>4, NetworkSends, NetworkEffect
  <2>2. CASE Purged
    BY <2>1, <2>2 DEF Purged, Afterwards
  <2>3. CASE ~Purged
    <3>1. amf.step # "rejected"
      BY <1>1, <2>1, <2>3 DEF Purged
    <3>2. Rejecting
      <4>1. ASSUME NEW sqn \in Sqn, Challenge(sqn) PROVE amf'.step = "auth"
        <5>1. amf \in Amf
          BY DEF NetTypeOK, Amf
        <5>. QED  BY <4>1, <5>1, ChallengeStep
      <4>2. amf'.step = "rejected"
        BY DEF Purged
      <4>. QED  BY <1>4, <3>1, <4>1, <4>2, NetworkEffect DEF Continues
    <3>3. PICK m \in Rejects : dl' = Append(dl, m)
      BY <3>2 DEF Rejecting
    <3>4. Len(dl) + 1 \in DOMAIN dl' /\ dl'[Len(dl) + 1] = m
      <4>1. m \in DlNas
        BY DownlinkType
      <4>. QED  BY <1>1, <3>3, <4>1
    <3>. QED  BY <1>1, <3>4 DEF Purged
  <2>. QED  BY <2>2, <2>3
<1>5. CASE UNCHANGED allVars
  <2>1. UNCHANGED <<secCtx, dl, amf, faults, phase, trigger>>
    BY <1>5 DEF allVars, vars, netVars
  <2>. QED  BY <1>1, <2>1 DEF Purged, Afterwards
<1>. QED  BY <1>2, <1>3, <1>4, <1>5 DEF NetNext, Network

\* SafeInv holds at first.
LEMMA SafeInit == ASSUME NetInit PROVE SafeInv
<1>1. Init /\ dl = <<>> /\ toDu = <<>> /\ faults = {} /\ phase = "created"
  BY DEF NetInit, Init
<1>2. TypeOK
  BY <1>1, InitType
<1>3. dl \in Seq(DlNas) /\ hssSqn \in Sqn
  BY <1>1, SizeAssumption DEF NetInit, Sqn
<1>4. used \in Used
  BY NetAssumption DEF NetInit, Used
<1>5. amf \in Amf /\ amf.step = "idle" /\ amf.mac
  BY DEF NetInit, Amf, AmfSteps
<1>6. NetTypeOK
  BY <1>1, <1>2, <1>3, <1>4, <1>5 DEF NetTypeOK, Amf, Used
<1>7. MsgInv /\ MacInv /\ RejectInv
  BY <1>1, <1>5 DEF MsgInv, MacInv, RejectInv
<1>8. Relied /\ ~Purged
  BY <1>1, <1>5 DEF Relied, Purged, Init
<1>. QED  BY <1>1, <1>6, <1>7, <1>8 DEF SafeInv

\* SafeInv survives every step, whatever the disturbance.
LEMMA SafeStep ==
    ASSUME SafeInv, [NetNext]_allVars
    PROVE  SafeInv'
<1>. USE DEF SafeInv
<1>1. NetTypeOK' /\ MsgInv' /\ MacInv' /\ RejectInv'
  BY NetTypeStep, MsgStep, MacStep, RejectStep
<1>2. phase' # "exited"
  <2>1. CASE UeListens
    <3>1. PICK i \in DOMAIN dl : UeReceives(i)
      BY <2>1 DEF UeListens
    <3>. QED  BY <3>1, ListenerSends
  <2>2. CASE UeAlone
    BY <2>2, AloneEffect
  <2>3. CASE Network
    BY <2>3, NetworkEffect
  <2>4. CASE UNCHANGED allVars
    BY <2>4 DEF allVars, vars
  <2>. QED  BY <2>1, <2>2, <2>3, <2>4 DEF NetNext, Network
<1>3. ~Purged' => ~Purged
  BY PurgedStays
<1>4. ~Purged' => Relied'
  BY <1>3, ReliedStep
<1>5. Purged' /\ "overtaking" \notin faults' => Afterwards'
  BY AfterwardsStep
<1>. QED  BY <1>1, <1>2, <1>4, <1>5

\* Until the first disturbance, SafeInv is LifeInv.
LEMMA SafeLife == SafeInv /\ Undisturbed => LifeInv
<1>. SUFFICES ASSUME SafeInv, Undisturbed PROVE LifeInv
  OBVIOUS
<1>1. NetTypeOK /\ MsgInv /\ MacInv /\ RejectInv /\ faults = {}
  BY DEF SafeInv, Undisturbed
<1>2. amf.step # "rejected" /\ amf.mac = TRUE
  BY <1>1 DEF RejectInv, MacInv, NetTypeOK
<1>3. Relied
  BY <1>2 DEF SafeInv, Purged
<1>4. \A i \in DOMAIN dl : Conforms(dl[i])
  BY <1>1, <1>2, <1>3 DEF MsgInv, Lawful, RejectInv, MacInv, Relied, Conforms
<1>5. amf.step # "idle" => amf.ksi \in Ksi /\ amf.chal # None
  BY <1>1, <1>2 DEF MsgInv, NetTypeOK, AmfSteps
<1>. QED  BY <1>1, <1>2, <1>3, <1>4, <1>5 DEF LifeInv, Relied, MsgInv, MacInv, Undisturbed

\* So it is after a step.
LEMMA SafeLifeNext == SafeInv' /\ Undisturbed' => LifeInv'
BY SafeLife, PTL

\* Disturbances are not forgotten.
LEMMA FaultsGrow ==
    ASSUME SafeInv, [NetNext]_allVars
    PROVE  faults \subseteq faults' /\ (Undisturbed' => Undisturbed)
<1>1. faults \subseteq faults'
  <2>1. CASE UeListens
    BY <2>1, ListenerTakes DEF UeListens, SafeInv
  <2>2. CASE UeAlone \/ UNCHANGED allVars
    BY <2>2 DEF UeAlone, netVars, allVars
  <2>3. CASE Network
    BY <2>3, NetworkSends DEF SafeInv
  <2>. QED  BY <2>1, <2>2, <2>3 DEF NetNext, Network
<1>. QED  BY <1>1 DEF Undisturbed

\* The composition keeps its types, whatever disturbs it.
THEOREM NetTypeCorrect == NetSpec => []NetTypeOK
<1>1. SafeInv => NetTypeOK
  BY DEF SafeInv
<1>. QED  BY <1>1, SafeInit, SafeStep, PTL DEF NetSpec

\* Whatever overtakes whatever and whichever challenge fails, the simulator
\* never exits, and lives until it has handled a rejection; if nothing overtook
\* anything, it then dies only of a goroutine that had tested the context.
THEOREM Survival == NetSpec => []DiesOnlyOfRejection
<1>1. SafeInv => DiesOnlyOfRejection
  <2>. SUFFICES ASSUME SafeInv, phase \in {"exited", "panicked"}
                PROVE  /\ phase = "panicked" /\ Purged
                       /\ "overtaking" \notin faults =>
                             secCtx = None /\ \E t \in Triggers : trigger[t] = "checked"
    BY DEF DiesOnlyOfRejection
  <2>1. phase = "panicked" /\ Purged
    BY DEF SafeInv, Relied
  <2>. QED  BY <2>1 DEF SafeInv, Afterwards
<1>. QED  BY <1>1, SafeInit, SafeStep, PTL DEF NetSpec

------------------------------------------------------------------------------
(* Until the first disturbance                                              *)

\* A message that conforms is verified, is no rejection, and finds a context.
LEMMA ConformsFacts ==
    ASSUME NEW m, Conforms(m)
    PROVE  /\ Lawful(m) /\ m \notin Rejects
           /\ IsChallenge(m) => m.mac
           /\ IsSmc(m) => secCtx # None
<1>1. CASE IsChallenge(m) /\ m.ksi \in Ksi /\ m.complete /\ m.mac
  BY <1>1, Distinct DEF Lawful, IsChallenge, IsSmc
<1>2. CASE IsSmc(m) /\ m.ksi \in Ksi /\ secCtx # None
  BY <1>2, Distinct DEF Lawful, IsChallenge, IsSmc
<1>3. CASE m = RegistrationAccept
  BY <1>3, Distinct DEF Lawful
<1>. QED  BY <1>1, <1>2, <1>3 DEF Conforms

\* An undisturbed challenge is one that the UE can verify.
LEMMA ChallengeLife ==
    ASSUME amf \in Amf, NEW sqn \in Sqn, Challenge(sqn), Undisturbed'
    PROVE  /\ hssSqn' \in Sqn
           /\ \E k \in Ksi, c \in Kamf :
                 /\ c.sqn = sqn + 1
                 /\ amf.chal # None => c.rand # amf.chal.rand
                 /\ amf' = [amf EXCEPT !.step = "auth", !.ksi = k, !.chal = c, !.mac = TRUE]
                 /\ dl' = Append(dl, AuthenticationRequest(k, c, TRUE))
<1>1. PICK k \in Ksi, c \in Kamf, mac \in BOOLEAN :
          /\ c.sqn = sqn + 1
          /\ amf.chal # None => c.rand # amf.chal.rand
          /\ amf' = [amf EXCEPT !.step = "auth", !.ksi = k, !.chal = c, !.mac = mac]
          /\ dl' = Append(dl, AuthenticationRequest(k, c, mac))
          /\ Happens(IF mac THEN {} ELSE {"mac"})
  BY ChallengeEffect
<1>2. mac = TRUE
  BY <1>1 DEF Happens, Undisturbed
<1>3. hssSqn' \in Sqn
  BY ChallengeEffect
<1>. QED  BY <1>1, <1>2, <1>3

\* Undisturbed, the UE by itself does not die.
LEMMA AloneLife ==
    ASSUME LifeInv, UeAlone
    PROVE  /\ UNCHANGED <<auth, secCtx, dl, amf, hssSqn, used, faults>>
           /\ phase' \in {"created", "waiting", "listening"}
           /\ \/ toDu' = toDu
              \/ \E e \in UlMsg : e.type \in Quiet /\ toDu' = Append(toDu, e)
<1>1. /\ UNCHANGED <<auth, secCtx, netVars>>
      /\ \/ phase' \in {"created", "waiting", "listening"}
         \/ phase' = "panicked" /\ secCtx = None /\ \E t \in Triggers : trigger[t] = "checked"
      /\ \/ toDu' = toDu
         \/ \E e \in UlMsg : e.type \in Quiet /\ toDu' = Append(toDu, e)
  BY AloneEffect DEF LifeInv
<1>. QED  BY <1>1 DEF LifeInv, netVars

\* Undisturbed, the AMF neither rejects nor hears of a failed MAC.
LEMMA AmfLife ==
    ASSUME LifeInv, LifeInv', AmfReceives
    PROVE  /\ toDu # <<>> /\ toDu' = Tail(toDu)
           /\ UNCHANGED <<phase, state, guti, auth, secCtx, trigger, held, used>>
           /\ \/ UNCHANGED <<amf, dl, hssSqn>>
              \/ Restarts(Head(toDu)) \/ Resynchronises(Head(toDu)) \/ Authenticates(Head(toDu))
              \/ Secures(Head(toDu)) \/ Finishes(Head(toDu))
<1>. DEFINE m == Head(toDu)
<1>1. /\ toDu # <<>> /\ toDu' = Tail(toDu)
      /\ UNCHANGED <<phase, state, guti, auth, secCtx, trigger, held, used>>
      /\ \/ Ignores
         \/ Restarts(m) \/ Declines(m) \/ Resynchronises(m) \/ Rechallenges(m)
         \/ Authenticates(m) \/ Secures(m) \/ Finishes(m)
  BY AmfEffect
<1>2. m.type # "MacFailure"
  <2>1. toDu \in Seq(UlMsg)
    BY DEF LifeInv, NetTypeOK, TypeOK
  <2>2. 1 \in DOMAIN toDu /\ m = toDu[1]
    BY <1>1, <2>1
  <2>. QED  BY <2>2 DEF LifeInv
<1>. HIDE DEF m
<1>3. ~Rechallenges(m)
  BY <1>2 DEF Rechallenges
<1>4. ~Declines(m)
  BY DEF Declines, Reject, Happens, LifeInv, Undisturbed
<1>. QED  BY <1>1, <1>3, <1>4 DEF Ignores, m

\* The fields of the AMF's current challenge.
LEMMA CurrentFields ==
    /\ IsChallenge(Current) /\ ~IsSmc(Current)
    /\ Current.ksi = amf.ksi /\ Current.rand = amf.chal.rand /\ Current.sqn = amf.chal.sqn
BY DEF Current, AuthenticationRequest, IsChallenge, IsSmc

\* Only a Security Mode Command for k is both a command and among what the
\* AMF sends for k.
LEMMA CommandFields ==
    ASSUME NEW k
    PROVE  /\ IsSmc(SecurityModeCommand(k)) /\ ~IsChallenge(SecurityModeCommand(k))
           /\ SecurityModeCommand(k).ksi = k
           /\ ~IsSmc(RegistrationAccept) /\ ~IsChallenge(RegistrationAccept)
BY MessageFields DEF IsSmc, IsChallenge

\* The types that the lemmas about order need.
LEMMA OrderTypes ==
    ASSUME LifeInv
    PROVE  /\ dl \in Seq(DlNas) /\ toDu \in Seq(UlMsg) /\ amf \in Amf
           /\ amf.step \in AmfSteps
           /\ amf.step # "idle" => amf.chal \in Kamf /\ amf.chal.sqn \in Sqn
           /\ auth.sqn \in Sqn /\ hssSqn \in Sqn /\ Sqn \subseteq Nat
           /\ secCtx \in Contexts \cup {None}
BY DEF LifeInv, NetTypeOK, TypeOK, Amf, Sqn, Kamf

\* OrderInv holds at first.
LEMMA OrderInit == ASSUME NetInit PROVE OrderInv
<1>1. /\ dl = <<>> /\ toDu = <<>> /\ state = "DEREGISTERED"
      /\ amf.step = "idle" /\ ~amf.registered
  BY DEF NetInit, Init
<1>2. Early /\ Unchallenged
  BY <1>1 DEF Early, Unchallenged
<1>3. Challenged /\ Keying /\ Agreed /\ Registered
  BY <1>1 DEF Challenged, Keying, Agreed, Registered
<1>. QED  BY <1>2, <1>3 DEF OrderInv

\* p holds messages of q, d places further on, and quiet ones.
Quietly(q, p, d) ==
    \A i \in DOMAIN p : i \in Nat /\ (p[i].type \in Quiet \/ (i + d \in DOMAIN q /\ p[i] = q[i + d]))

\* A step that changes neither the keys nor the downlink, and sends nothing
\* of the procedures.
LEMMA QuietStep ==
    ASSUME LifeInv, OrderInv, UNCHANGED <<amf, auth, secCtx, dl>>,
           NEW d \in Nat, Quietly(toDu, toDu', d)
    PROVE  (Unchallenged /\ Challenged /\ Keying /\ Agreed)'
<1>1. \A i \in DOMAIN toDu' :
         /\ i \in Nat
         /\ \/ toDu'[i].type \in Quiet
            \/ i + d \in DOMAIN toDu /\ toDu'[i] = toDu[i + d]
  BY DEF Quietly
<1>2. \A i, j \in Nat : i < j => i + d < j + d
  OBVIOUS
<1>3. /\ Accepted' = Accepted /\ Current' = Current
  BY DEF Accepted, Current
<1>4. Unchallenged'
  BY <1>1 DEF OrderInv, Unchallenged, Quiet
<1>5. Challenged'
  <2>. SUFFICES ASSUME amf.step = "auth" PROVE (DownlinkOfAuth /\ ResponsesOfAuth /\ FailuresOfAuth)'
    BY DEF Challenged
  <2>1. DownlinkOfAuth /\ ResponsesOfAuth /\ FailuresOfAuth
    BY DEF OrderInv, Challenged
  <2>2. DownlinkOfAuth'
    BY <2>1, <1>3 DEF DownlinkOfAuth
  <2>3. ResponsesOfAuth'
    BY <1>1, <1>2, <1>3, <2>1 DEF ResponsesOfAuth, Quiet
  <2>4. FailuresOfAuth'
    BY <1>1, <1>3, <2>1 DEF FailuresOfAuth, Quiet
  <2>. QED  BY <2>2, <2>3, <2>4
<1>6. Keying'
  <2>. SUFFICES ASSUME amf.step = "smc" PROVE Keying'
    BY DEF Keying
  <2>. QED  BY <1>1, <1>2, <1>3 DEF OrderInv, Keying, Quiet
<1>7. Agreed'
  BY <1>1, <1>3 DEF OrderInv, Agreed, Quiet
<1>. QED  BY <1>4, <1>5, <1>6, <1>7

\* The listener takes the oldest downlink message, and its answer goes to the
\* end of the channel.
Listens(m) ==
    /\ 1 \in DOMAIN dl /\ m = dl[1] /\ m \in DlNas
    /\ IsTail(dl, dl')
    /\ phase = "listening" /\ UNCHANGED <<phase, amf, hssSqn>>

\* Undisturbed, it is always the oldest, and the UE can handle it.
LEMMA ListensFirst ==
    ASSUME LifeInv, LifeInv', NEW i \in DOMAIN dl, UeReceives(i)
    PROVE  /\ i = 1 /\ dl' = RemoveAt(dl, 1)
           /\ Listens(dl[1])
           /\ \/ Accepts(dl[1]) \/ Refuses(dl[1]) \/ Mismatches(dl[1])
              \/ Activates(dl[1]) \/ Registers(dl[1])
<1>1. i = 1
  BY DEF UeReceives, Happens, LifeInv, Undisturbed
<1>2. dl \in Seq(DlNas) /\ NetTypeOK
  BY OrderTypes DEF LifeInv
<1>3. Lawful(dl[1]) /\ dl[1] \notin Rejects /\ (IsChallenge(dl[1]) => dl[1].mac) /\ (IsSmc(dl[1]) => secCtx # None)
  BY <1>1, ConformsFacts DEF LifeInv
<1>4. /\ dl' = RemoveAt(dl, 1) /\ phase = "listening" /\ UNCHANGED <<amf, hssSqn, used>>
      /\ \/ Accepts(dl[1]) \/ Refuses(dl[1]) \/ FailsMac(dl[1]) \/ Mismatches(dl[1])
         \/ Activates(dl[1]) \/ Panics(dl[1]) \/ Registers(dl[1]) \/ Purges(dl[1])
  BY <1>1, <1>2, <1>3, ListenerEffect
<1>5. \/ Accepts(dl[1]) \/ Refuses(dl[1]) \/ Mismatches(dl[1])
      \/ Activates(dl[1]) \/ Registers(dl[1])
  BY <1>3, <1>4 DEF FailsMac, Panics, Purges
<1>6. phase' = phase
  BY <1>5 DEF Accepts, Refuses, Mismatches, Activates, Registers
<1>7. IsTail(dl, dl') /\ dl[1] \in DlNas
  BY <1>1, <1>2, <1>4, RemoveOf
<1>. QED  BY <1>1, <1>4, <1>5, <1>6, <1>7 DEF Listens

\* The end of the channel after an answer.
LEMMA AnswerGrows ==
    ASSUME LifeInv, LifeInv', NEW e, toDu' = Append(toDu, e)
    PROVE  Grows(toDu, toDu', e) /\ Len(toDu) + 1 \in DOMAIN toDu' /\ toDu'[Len(toDu) + 1] = e
<1>1. toDu \in Seq(UlMsg) /\ toDu' \in Seq(UlMsg)
  BY OrderTypes DEF LifeInv, NetTypeOK, TypeOK
<1>2. e \in UlMsg
  <2>1. Len(toDu) + 1 \in DOMAIN toDu' /\ toDu'[Len(toDu) + 1] = e
    BY <1>1
  <2>. QED  BY <1>1, <2>1
<1>. QED  BY <1>1, <1>2, AppendOf

\* The UE accepts a challenge while the AMF waits for the response: it is
\* the current one.
LEMMA AcceptInAuth ==
    ASSUME LifeInv, LifeInv', OrderInv, amf.step = "auth", Listens(dl[1]), Accepts(dl[1])
    PROVE  Challenged'
<1>. DEFINE m == dl[1]
           k == [rand |-> m.rand, sqn |-> m.sqn]
           e == [type |-> "AuthenticationResponse", key |-> None, arg |-> k]
<1>1. DownlinkOfAuth /\ ResponsesOfAuth /\ FailuresOfAuth
  BY DEF OrderInv, Challenged
<1>2. /\ amf.chal \in Kamf /\ amf.chal.sqn \in Nat /\ auth.sqn \in Nat /\ m.sqn \in Nat
      /\ IsChallenge(m) /\ 1 \in DOMAIN dl
  BY OrderTypes, ChallengeFields DEF Accepts, Listens, IsChallenge
<1>3. m = Current
  BY <1>1, <1>2 DEF DownlinkOfAuth, Accepts
<1>4. k = amf.chal /\ m.ksi = amf.ksi /\ amf.chal.sqn >= auth.sqn
  <2>1. m.rand = amf.chal.rand /\ m.sqn = amf.chal.sqn /\ m.ksi = amf.ksi
    BY <1>3, CurrentFields
  <2>. QED  BY <1>2, <2>1 DEF Kamf, Accepts
<1>5. UNCHANGED amf /\ Current' = Current /\ IsTail(dl, dl')
  BY DEF Listens, Current
<1>6. Accepted' /\ auth'.sqn = amf.chal.sqn
  <2>1. /\ auth'.ngKsi = amf.ksi /\ auth'.sqn = amf.chal.sqn
        /\ secCtx' # None /\ secCtx'.kamf = amf.chal /\ secCtx'.ngKsi = amf.ksi
    <3>1. /\ auth' = [ngKsi |-> m.ksi, rand |-> m.rand, sqn |-> m.sqn, kamf |-> k]
          /\ secCtx' = [ngKsi |-> m.ksi, kamf |-> k, keyed |-> FALSE]
      BY DEF Accepts
    <3>2. secCtx' \in Contexts
      BY <1>2, <1>4, <3>1, ChallengeFields DEF Contexts, LifeInv, NetTypeOK, TypeOK, Conforms, IsChallenge, IsSmc, RegistrationAccept
    <3>. QED  BY <1>4, <1>3, <3>1, <3>2, CurrentFields, ContextAssumption
  <2>. QED  BY <1>5, <2>1 DEF Accepted
<1>7. Grows(toDu, toDu', e)
  BY AnswerGrows DEF Accepts
<1>8. \A i \in DOMAIN dl' : dl'[i] = Current
  <2>1. \A j \in DOMAIN dl : 1 < j => dl[j] = Current
    BY <1>1, <1>2, <1>3 DEF DownlinkOfAuth
  <2>2. ASSUME NEW i \in DOMAIN dl' PROVE dl'[i] = Current
    <3>1. i \in Nat /\ i + 1 \in DOMAIN dl /\ dl'[i] = dl[i + 1] /\ i \in DOMAIN dl'
      BY <1>5 DEF IsTail
    <3>2. i # 0
      <4>1. dl' \in Seq(DlNas)
        BY DEF LifeInv, NetTypeOK
      <4>. QED  BY <4>1
    <3>. QED  BY <2>1, <3>1, <3>2
  <2>. QED  BY <2>2
<1>. HIDE DEF m, k
<1>9. DownlinkOfAuth'
  BY <1>5, <1>8, CurrentFields DEF DownlinkOfAuth, IsChallenge, IsSmc
<1>10. ResponsesOfAuth'
  BY <1>1, <1>5, <1>6, <1>7, <1>8 DEF ResponsesOfAuth, Grows
<1>11. FailuresOfAuth'
  BY <1>1, <1>2, <1>4, <1>5, <1>6, <1>7 DEF FailuresOfAuth, Grows
<1>. QED  BY <1>9, <1>10, <1>11 DEF Challenged

\* What the listener leaves in the channel stood behind the first message.
LEMMA ListensTail ==
    ASSUME LifeInv, LifeInv', Listens(dl[1])
    PROVE  \A i \in DOMAIN dl' :
              i \in Nat /\ 1 < i + 1 /\ i + 1 \in DOMAIN dl /\ dl'[i] = dl[i + 1]
<1>1. dl' \in Seq(DlNas) /\ IsTail(dl, dl')
  BY DEF LifeInv, NetTypeOK, Listens
<1>2. ASSUME NEW i \in DOMAIN dl' PROVE i \in Nat /\ 1 < i + 1
  BY <1>1
<1>. QED  BY <1>1, <1>2 DEF IsTail

\* The UE finds a challenge too old: either it is, or it is the current one,
\* which is then too old whenever it comes.
LEMMA RefuseInAuth ==
    ASSUME LifeInv, LifeInv', OrderInv, amf.step = "auth", Listens(dl[1]), Refuses(dl[1])
    PROVE  Challenged'
<1>. DEFINE m == dl[1]
           a == [rand |-> m.rand, sqn |-> auth.sqn]
           e == [type |-> "SyncFailure", key |-> None, arg |-> a]
<1>1. DownlinkOfAuth /\ ResponsesOfAuth /\ FailuresOfAuth
  BY DEF OrderInv, Challenged
<1>2. /\ amf.chal \in Kamf /\ amf.chal.sqn \in Nat /\ auth.sqn \in Nat /\ m.sqn \in Nat
      /\ IsChallenge(m) /\ 1 \in DOMAIN dl /\ m.sqn < auth.sqn
  BY OrderTypes, ChallengeFields DEF Refuses, Listens, IsChallenge
<1>3. UNCHANGED <<amf, secCtx>> /\ Current' = Current /\ auth'.sqn = auth.sqn
  <2>1. auth' = [auth EXCEPT !.ngKsi = m.ksi, !.rand = m.rand]
    BY DEF Refuses
  <2>2. auth \in [ngKsi : Ksi \cup {NoKsi}, rand : Rand \cup {None}, sqn : Sqn, kamf : Kamf \cup {None}]
    BY DEF LifeInv, NetTypeOK, TypeOK
  <2>3. auth'.sqn = auth.sqn
    BY <2>1, <2>2
  <2>. QED  BY <2>3 DEF Listens, Refuses, Current
<1>4. \A i \in DOMAIN dl' :
          i \in Nat /\ 1 < i + 1 /\ i + 1 \in DOMAIN dl /\ dl'[i] = dl[i + 1]
  BY ListensTail
<1>5. Grows(toDu, toDu', e)
  BY AnswerGrows DEF Refuses
<1>6. e.type = "SyncFailure" /\ e.arg.rand = m.rand /\ e.arg.sqn = auth.sqn
  OBVIOUS
<1>. HIDE DEF m, a, e
<1>7. \A i \in DOMAIN toDu : toDu[i].type # "AuthenticationResponse"
  <2>1. ASSUME NEW i \in DOMAIN toDu, toDu[i].type = "AuthenticationResponse" PROVE FALSE
    <3>1. m = Current /\ auth.sqn = amf.chal.sqn
      BY <1>1, <1>2, <2>1 DEF ResponsesOfAuth, Accepted, m
    <3>. QED  BY <1>2, <3>1, CurrentFields
  <2>. QED  BY <2>1
<1>8. m.rand = amf.chal.rand => amf.chal.sqn < auth.sqn
  <2>1. m.rand = amf.chal.rand => m = Current
    BY <1>1, <1>2 DEF DownlinkOfAuth, m
  <2>. QED  BY <1>2, <2>1, CurrentFields
<1>9. \A i \in DOMAIN dl' : IsChallenge(dl'[i])
  BY <1>1, <1>2, <1>4 DEF DownlinkOfAuth, m
<1>10. DownlinkOfAuth'
  <2>1. \A i \in DOMAIN dl' : ~IsSmc(dl'[i])
    BY <1>9 DEF IsSmc, IsChallenge
  <2>2. \A i \in DOMAIN dl' : IsChallenge(dl'[i]) /\ dl'[i] # Current =>
            dl'[i].sqn < auth.sqn /\ dl'[i].rand # amf.chal.rand
    BY <1>1, <1>4 DEF DownlinkOfAuth
  <2>3. \A i, j \in DOMAIN dl' : i < j /\ dl'[i] = Current => dl'[j] = Current
    BY <1>1, <1>4 DEF DownlinkOfAuth
  <2>. QED  BY <1>3, <1>9, <2>1, <2>2, <2>3 DEF DownlinkOfAuth, IsChallenge, IsSmc
<1>11. ResponsesOfAuth'
  BY <1>5, <1>6, <1>7 DEF ResponsesOfAuth, Grows
<1>12. FailuresOfAuth'
  <2>1. amf.chal.sqn < auth.sqn => m.rand = amf.chal.rand
    BY <1>1, <1>2, CurrentFields DEF FailuresOfAuth, m
  <2>2. amf.chal.sqn < auth.sqn => \A i \in DOMAIN dl' : IsChallenge(dl'[i]) => dl'[i] = Current
    BY <1>1, <1>4 DEF FailuresOfAuth
  <2>3. \A i \in DOMAIN toDu' : toDu'[i].type = "SyncFailure" /\ toDu'[i].arg.rand = amf.chal.rand =>
            amf.chal.sqn < auth.sqn /\ toDu'[i].arg.sqn = auth.sqn
    BY <1>1, <1>5, <1>6, <1>8 DEF FailuresOfAuth, Grows
  <2>4. amf.chal.sqn < auth.sqn =>
            \A i \in DOMAIN toDu' : toDu'[i].type = "SyncFailure" => toDu'[i].arg.rand = amf.chal.rand
    BY <1>1, <1>5, <1>6, <2>1 DEF FailuresOfAuth, Grows
  <2>. QED  BY <1>3, <2>2, <2>3, <2>4 DEF FailuresOfAuth, IsChallenge
<1>. QED  BY <1>10, <1>11, <1>12 DEF Challenged

\* A command or an acceptance of the last procedure, still under way while
\* the AMF waits for the response to a challenge.
LEMMA OldInAuth ==
    ASSUME LifeInv, LifeInv', OrderInv, amf.step = "auth", Listens(dl[1]),
           Activates(dl[1]) \/ Registers(dl[1])
    PROVE  Challenged'
<1>. DEFINE m == dl[1]
<1>1. DownlinkOfAuth /\ ResponsesOfAuth /\ FailuresOfAuth
  BY DEF OrderInv, Challenged
<1>2. 1 \in DOMAIN dl /\ ~IsChallenge(m)
  BY CommandFields DEF Listens, Activates, Registers, IsSmc, IsChallenge
<1>3. UNCHANGED <<amf, auth>> /\ Current' = Current
  BY DEF Listens, Activates, Registers, Current
<1>4. \A i \in DOMAIN dl' :
          i \in Nat /\ 1 < i + 1 /\ i + 1 \in DOMAIN dl /\ dl'[i] = dl[i + 1]
  BY ListensTail
<1>5. PICK e : Grows(toDu, toDu', e) /\ e.type \in {"SecurityModeComplete", "RegistrationComplete"}
  BY AnswerGrows DEF Activates, Registers
<1>. HIDE DEF m
<1>6. \A i \in DOMAIN toDu : toDu[i].type # "AuthenticationResponse"
  BY <1>1, <1>2, CurrentFields DEF ResponsesOfAuth, m
<1>7. DownlinkOfAuth'
  <2>1. \A i \in DOMAIN dl' : IsSmc(dl'[i]) => dl'[i].ksi = auth.ngKsi
    BY <1>1, <1>4 DEF DownlinkOfAuth
  <2>2. \A i \in DOMAIN dl' : IsChallenge(dl'[i]) /\ dl'[i] # Current =>
            dl'[i].sqn < auth.sqn /\ dl'[i].rand # amf.chal.rand
    BY <1>1, <1>4 DEF DownlinkOfAuth
  <2>3. \A i, j \in DOMAIN dl' : i < j => i + 1 < j + 1
    BY <1>4
  <2>4. \A i, j \in DOMAIN dl' : i < j /\ IsChallenge(dl'[i]) => IsChallenge(dl'[j])
    BY <1>1, <1>4, <2>3 DEF DownlinkOfAuth
  <2>5. \A i, j \in DOMAIN dl' : i < j /\ dl'[i] = Current => dl'[j] = Current
    BY <1>1, <1>4, <2>3 DEF DownlinkOfAuth
  <2>. QED  BY <1>3, <2>1, <2>2, <2>4, <2>5 DEF DownlinkOfAuth, IsChallenge, IsSmc
<1>8. ResponsesOfAuth'
  BY <1>5, <1>6 DEF ResponsesOfAuth, Grows
<1>9. FailuresOfAuth'
  BY <1>1, <1>3, <1>4, <1>5 DEF FailuresOfAuth, Grows, IsChallenge
<1>. QED  BY <1>7, <1>8, <1>9 DEF Challenged

\* The listener while the AMF waits for the Security Mode Complete: a repeated
\* challenge is accepted once more, or the command activates the context.
LEMMA ListenInSmc ==
    ASSUME LifeInv, LifeInv', OrderInv, amf.step = "smc", Listens(dl[1]),
           \/ Accepts(dl[1]) \/ Refuses(dl[1]) \/ Mismatches(dl[1])
           \/ Activates(dl[1]) \/ Registers(dl[1])
    PROVE  Keying'
<1>. DEFINE m == dl[1]
<1>1. /\ Accepted
      /\ \A i \in DOMAIN dl : dl[i] \in {Current, SecurityModeCommand(amf.ksi)}
      /\ \A i, j \in DOMAIN dl : i < j /\ IsSmc(dl[i]) => IsSmc(dl[j])
      /\ \A i \in DOMAIN toDu :
            /\ toDu[i].type # "SyncFailure"
            /\ toDu[i].type = "SecurityModeComplete" =>
                  /\ secCtx.keyed
                  /\ \A j \in DOMAIN dl : IsSmc(dl[j])
                  /\ \A j \in DOMAIN toDu : i < j => toDu[j].type # "AuthenticationResponse"
  BY DEF OrderInv, Keying
<1>2. /\ amf.chal \in Kamf /\ amf.chal.sqn \in Nat /\ auth.sqn \in Nat /\ 1 \in DOMAIN dl
      /\ m \in {Current, SecurityModeCommand(amf.ksi)} /\ auth.sqn = amf.chal.sqn
      /\ auth.ngKsi = amf.ksi /\ amf.ksi \in Ksi
  BY <1>1, OrderTypes DEF Listens, Accepted, LifeInv
<1>3. UNCHANGED amf /\ Current' = Current
  BY DEF Listens, Current
<1>4. \A i \in DOMAIN dl' :
          i \in Nat /\ 1 < i + 1 /\ i + 1 \in DOMAIN dl /\ dl'[i] = dl[i + 1]
  BY ListensTail
<1>5. /\ \A i \in DOMAIN dl' : dl'[i] \in {Current, SecurityModeCommand(amf.ksi)}
      /\ \A i, j \in DOMAIN dl' : i < j /\ IsSmc(dl'[i]) => IsSmc(dl'[j])
  <2>1. \A i, j \in DOMAIN dl' : i < j => i + 1 < j + 1
    BY <1>4
  <2>. QED  BY <1>1, <1>4, <2>1
<1>6. ~Refuses(m) /\ ~Mismatches(m) /\ ~Registers(m)
  <2>1. ~Refuses(m)
    BY <1>2, CurrentFields, CommandFields DEF Refuses
  <2>2. ~Mismatches(m)
    BY <1>2, CurrentFields, CommandFields DEF Mismatches
  <2>3. ~Registers(m)
    BY <1>2, CurrentFields, CommandFields DEF Registers
  <2>. QED  BY <2>1, <2>2, <2>3
<1>7. CASE Accepts(m)
  <2>. DEFINE k == [rand |-> m.rand, sqn |-> m.sqn]
             e == [type |-> "AuthenticationResponse", key |-> None, arg |-> k]
  <2>1. m = Current
    BY <1>2, <1>7, CommandFields DEF Accepts
  <2>2. k = amf.chal /\ m.ksi = amf.ksi
    <3>1. m.rand = amf.chal.rand /\ m.sqn = amf.chal.sqn /\ m.ksi = amf.ksi
      BY <2>1, CurrentFields
    <3>. QED  BY <1>2, <3>1 DEF Kamf
  <2>3. /\ auth' = [ngKsi |-> m.ksi, rand |-> m.rand, sqn |-> m.sqn, kamf |-> k]
        /\ secCtx' = [ngKsi |-> m.ksi, kamf |-> k, keyed |-> FALSE]
        /\ toDu' = Append(toDu, e)
    BY <1>7 DEF Accepts
  <2>4. secCtx' \in Contexts
    BY <1>2, <2>2, <2>3 DEF Contexts
  <2>5. Accepted'
    BY <1>3, <2>1, <2>2, <2>3, <2>4, CurrentFields, ContextAssumption DEF Accepted
  <2>6. Grows(toDu, toDu', e) /\ e.type = "AuthenticationResponse"
    BY <2>3, AnswerGrows
  <2>. HIDE DEF e, m, k
  <2>7. \A i \in DOMAIN toDu' : toDu'[i].type \notin {"SyncFailure", "SecurityModeComplete"}
    <3>1. \A i \in DOMAIN toDu : toDu[i].type \notin {"SyncFailure", "SecurityModeComplete"}
      BY <1>1, <1>2, <2>1, CurrentFields DEF m
    <3>. QED  BY <2>6, <3>1 DEF Grows
  <2>. QED  BY <1>3, <1>5, <2>5, <2>7 DEF Keying, IsSmc
<1>8. CASE Activates(m)
  <2>. DEFINE e == [type |-> "SecurityModeComplete", key |-> secCtx.kamf, arg |-> None]
  <2>1. IsSmc(m)
    BY <1>8 DEF Activates
  <2>2. secCtx \in Contexts /\ UNCHANGED auth /\ secCtx' = [secCtx EXCEPT !.keyed = TRUE]
    BY <1>1, <1>8, OrderTypes DEF Accepted, Activates
  <2>3. secCtx' \in Contexts /\ secCtx'.keyed /\ secCtx'.kamf = secCtx.kamf /\ secCtx'.ngKsi = secCtx.ngKsi
    BY <2>2 DEF Contexts
  <2>4. Accepted'
    BY <1>1, <1>3, <2>2, <2>3, ContextAssumption DEF Accepted
  <2>5. Grows(toDu, toDu', e) /\ e.type = "SecurityModeComplete"
    BY <1>8, AnswerGrows DEF Activates
  <2>. HIDE DEF e, m
  <2>6. \A i \in DOMAIN dl' : IsSmc(dl'[i])
    BY <1>1, <1>2, <1>4, <2>1 DEF m
  <2>7. \A i \in DOMAIN toDu' :
            /\ toDu'[i].type # "SyncFailure"
            /\ toDu'[i].type = "SecurityModeComplete" =>
                  \A j \in DOMAIN toDu' : i < j => toDu'[j].type # "AuthenticationResponse"
    <3>1. \A i \in DOMAIN toDu' : toDu'[i].type # "SyncFailure"
      BY <1>1, <2>5 DEF Grows
    <3>2. ASSUME NEW i \in DOMAIN toDu', toDu'[i].type = "SecurityModeComplete",
                 NEW j \in DOMAIN toDu', i < j, toDu'[j].type = "AuthenticationResponse"
          PROVE  FALSE
      <4>1. j \in DOMAIN toDu /\ toDu'[j] = toDu[j] /\ j \in Nat /\ i \in Nat
        BY <2>5, <3>2 DEF Grows
      <4>2. i \in DOMAIN toDu /\ toDu'[i] = toDu[i]
        <5>1. ~(j <= i)
          BY <3>2, <4>1
        <5>. QED  BY <2>5, <5>1 DEF Grows
      <4>. QED  BY <1>1, <3>2, <4>1, <4>2
    <3>. QED  BY <3>1, <3>2
  <2>. QED  BY <1>3, <1>5, <2>3, <2>4, <2>6, <2>7 DEF Keying, IsSmc
<1>. QED  BY <1>6, <1>7, <1>8

\* The listener once the AMF has activated the key.
LEMMA ListenInAgreed ==
    ASSUME LifeInv, LifeInv', OrderInv, amf.step \in {"accept", "done"}, Listens(dl[1]),
           \/ Accepts(dl[1]) \/ Refuses(dl[1]) \/ Mismatches(dl[1])
           \/ Activates(dl[1]) \/ Registers(dl[1])
    PROVE  Agreed'
<1>. DEFINE m == dl[1]
<1>1. /\ Accepted /\ secCtx.keyed /\ amf.kamf = amf.chal
      /\ \A i \in DOMAIN dl : dl[i] \in {SecurityModeCommand(amf.ksi), RegistrationAccept}
      /\ \A i \in DOMAIN toDu : toDu[i].type \notin {"AuthenticationResponse", "SyncFailure"}
  BY DEF OrderInv, Agreed
<1>2. /\ m \in {SecurityModeCommand(amf.ksi), RegistrationAccept}
      /\ auth.ngKsi = amf.ksi /\ UNCHANGED amf
  BY <1>1 DEF Listens, Accepted
<1>3. \A i \in DOMAIN dl' : i + 1 \in DOMAIN dl /\ dl'[i] = dl[i + 1]
  BY ListensTail
<1>4. Activates(m) \/ Registers(m)
  BY <1>2, CommandFields DEF Accepts, Refuses, Mismatches
<1>5. secCtx \in Contexts /\ secCtx # None
  BY <1>1, OrderTypes DEF Accepted
<1>6. secCtx' # None /\ secCtx'.keyed /\ secCtx'.kamf = secCtx.kamf /\ secCtx'.ngKsi = secCtx.ngKsi
      /\ UNCHANGED auth
  <2>1. CASE Activates(m)
    <3>1. secCtx' = [secCtx EXCEPT !.keyed = TRUE] /\ UNCHANGED auth
      BY <2>1 DEF Activates
    <3>2. secCtx' \in Contexts /\ secCtx'.keyed /\ secCtx'.kamf = secCtx.kamf /\ secCtx'.ngKsi = secCtx.ngKsi
      BY <1>5, <3>1 DEF Contexts
    <3>. QED  BY <3>1, <3>2, ContextAssumption
  <2>2. CASE Registers(m)
    BY <1>1, <1>5, <2>2 DEF Registers
  <2>. QED  BY <1>4, <2>1, <2>2
<1>7. PICK e : Grows(toDu, toDu', e) /\ e.type \notin {"AuthenticationResponse", "SyncFailure"}
  BY <1>4, AnswerGrows DEF Activates, Registers
<1>8. Accepted'
  BY <1>1, <1>2, <1>6 DEF Accepted
<1>. QED  BY <1>1, <1>2, <1>3, <1>6, <1>7, <1>8 DEF Agreed, Grows

\* Every command under way names the ngKSI that the UE stored last.
LEMMA NoMismatch ==
    ASSUME LifeInv, OrderInv, Listens(dl[1])
    PROVE  ~Mismatches(dl[1])
<1>. SUFFICES ASSUME IsSmc(dl[1]), dl[1].ksi # auth.ngKsi PROVE FALSE
  BY DEF Mismatches
<1>1. 1 \in DOMAIN dl /\ amf.step # "idle"
  BY DEF Listens, OrderInv, Unchallenged
<1>2. CASE amf.step = "auth"
  BY <1>1, <1>2 DEF OrderInv, Challenged, DownlinkOfAuth
<1>3. CASE amf.step = "smc"
  BY <1>1, <1>3, CurrentFields, CommandFields DEF OrderInv, Keying, Accepted
<1>4. CASE amf.step \in {"accept", "done"}
  BY <1>1, <1>4, CommandFields DEF OrderInv, Agreed, Accepted
<1>. QED  BY <1>1, <1>2, <1>3, <1>4, OrderTypes DEF AmfSteps, LifeInv

\* OrderInv survives the listener.
LEMMA OrderListens ==
    ASSUME LifeInv, LifeInv', OrderInv, UeListens
    PROVE  OrderInv'
<1>1. /\ Listens(dl[1])
      /\ \/ Accepts(dl[1]) \/ Refuses(dl[1]) \/ Mismatches(dl[1])
         \/ Activates(dl[1]) \/ Registers(dl[1])
  BY ListensFirst DEF UeListens
<1>2. amf.step # "idle" /\ UNCHANGED <<amf, phase>> /\ phase = "listening" /\ 1 \in DOMAIN dl
  BY <1>1 DEF OrderInv, Unchallenged, Listens
<1>3. Early' /\ Unchallenged'
  BY <1>2 DEF Early, Unchallenged
<1>4. Challenged'
  <2>. SUFFICES ASSUME amf.step = "auth" PROVE Challenged'
    BY <1>2 DEF Challenged
  <2>. QED  BY <1>1, NoMismatch, AcceptInAuth, RefuseInAuth, OldInAuth
<1>5. Keying'
  <2>. SUFFICES ASSUME amf.step = "smc" PROVE Keying'
    BY <1>2 DEF Keying
  <2>. QED  BY <1>1, ListenInSmc
<1>6. Agreed'
  <2>. SUFFICES ASSUME amf.step \in {"accept", "done"} PROVE Agreed'
    BY <1>2 DEF Agreed
  <2>. QED  BY <1>1, ListenInAgreed
<1>7. Registered'
  <2>1. Registered
    BY DEF OrderInv
  <2>2. ~Mismatches(dl[1])
    BY <1>1, NoMismatch
  <2>3. CASE Registers(dl[1])
    BY <1>2, <2>1, <2>3 DEF Registered, Registers
  <2>4. CASE Accepts(dl[1]) \/ Refuses(dl[1]) \/ Activates(dl[1])
    <3>1. /\ state' = state
          /\ \E e : toDu' = Append(toDu, e) /\ e.type # "RegistrationComplete"
      BY <2>4 DEF Accepts, Refuses, Activates
    <3>2. PICK e : Grows(toDu, toDu', e) /\ e.type # "RegistrationComplete"
      BY <3>1, AnswerGrows
    <3>. QED  BY <1>2, <2>1, <3>1, <3>2 DEF Registered, Grows
  <2>. QED  BY <1>1, <2>2, <2>3, <2>4
<1>. QED  BY <1>3, <1>4, <1>5, <1>6, <1>7 DEF OrderInv

------------------------------------------------------------------------------
(* The UE by itself, and the AMF                                            *)

\* OrderInv survives the UE's own steps.
LEMMA OrderAlone ==
    ASSUME LifeInv, LifeInv', OrderInv, UeAlone
    PROVE  OrderInv'
<1>1. /\ UNCHANGED <<auth, secCtx, dl, amf>>
      /\ \/ toDu' = toDu
         \/ \E e \in UlMsg : e.type \in Quiet /\ toDu' = Append(toDu, e)
  BY AloneLife
<1>2. toDu \in Seq(UlMsg)
  BY OrderTypes
<1>3. Quietly(toDu, toDu', 0)
  <2>1. CASE toDu' = toDu
    BY <1>2, <2>1 DEF Quietly
  <2>2. ASSUME NEW e \in UlMsg, e.type \in Quiet, toDu' = Append(toDu, e)
        PROVE  Quietly(toDu, toDu', 0)
    <3>1. Grows(toDu, toDu', e)
      BY <1>2, <2>2, AppendOf
    <3>. QED  BY <2>2, <3>1 DEF Grows, Quietly
  <2>. QED  BY <1>1, <2>1, <2>2
<1>4. (Unchallenged /\ Challenged /\ Keying /\ Agreed)'
  BY <1>1, <1>3, QuietStep
<1>5. Early' /\ Registered'
  <2>1. Early /\ Registered
    BY DEF OrderInv
  <2>2. CASE InitRRCConn
    <3>1. state' = state /\ phase # "listening"
      BY <2>2 DEF InitRRCConn
    <3>2. \A i \in DOMAIN toDu' : toDu'[i].type = "RRCSetupRequest"
      <4>1. Grows(toDu, toDu', [type |-> "RRCSetupRequest", key |-> None, arg |-> None])
        BY <2>2, AnswerGrows DEF InitRRCConn, Send
      <4>. QED  BY <2>1, <3>1, <4>1 DEF Early, Grows
    <3>. QED  BY <1>1, <2>1, <3>1, <3>2 DEF Early, Registered
  <2>3. CASE HandleRRCSetup
    <3>1. phase # "listening" /\ phase' = "listening"
      BY <2>3 DEF HandleRRCSetup
    <3>2. \A i \in DOMAIN toDu' : toDu'[i].type # "RegistrationComplete"
      <4>1. Grows(toDu, toDu', [type |-> "RegistrationRequest", key |-> None, arg |-> None])
        BY <2>3, AnswerGrows DEF HandleRRCSetup, Send
      <4>. QED  BY <2>1, <3>1, <4>1 DEF Early, Grows
    <3>. QED  BY <1>1, <2>1, <3>1, <3>2 DEF Early, Registered
  <2>4. ASSUME NEW t \in Triggers, TriggerStep(t) \/ DropN1Sm(t)
        PROVE  Early' /\ Registered'
    <3>1. phase = "listening" /\ state' = state
      BY <2>4 DEF TriggerStep, WakeUp, FetchContext, SendN1Sm, DropN1Sm, FinishTrigger
    <3>2. phase' = "listening"
      <4>1. phase' = phase \/ phase' = "panicked"
        BY <2>4 DEF TriggerStep, WakeUp, FetchContext, SendN1Sm, DropN1Sm, FinishTrigger
      <4>. QED  BY <3>1, <4>1 DEF LifeInv
    <3>3. \A i \in DOMAIN toDu' : toDu'[i].type = "RegistrationComplete" =>
              i \in DOMAIN toDu /\ toDu'[i] = toDu[i]
      BY <1>3 DEF Quietly, Quiet
    <3>. QED  BY <1>1, <2>1, <3>1, <3>2, <3>3 DEF Early, Registered
  <2>. QED  BY <2>2, <2>3, <2>4 DEF UeAlone
<1>. QED  BY <1>4, <1>5 DEF OrderInv

\* The AMF challenges the UE when nothing of a procedure is under way.
LEMMA OrderChallenge ==
    ASSUME LifeInv, LifeInv', OrderInv, NEW sqn \in Sqn, Challenge(sqn),
           UNCHANGED <<phase, state, auth, secCtx>>, phase = "listening",
           \A i \in DOMAIN dl : ~IsChallenge(dl[i]) /\ (IsSmc(dl[i]) => dl[i].ksi = auth.ngKsi),
           \A i \in DOMAIN toDu' :
              /\ toDu'[i].type \notin {"AuthenticationResponse", "SyncFailure"}
              /\ toDu'[i].type = "RegistrationComplete" => state = "REGISTERED"
    PROVE  OrderInv'
<1>1. dl \in Seq(DlNas) /\ amf \in Amf
  BY OrderTypes
<1>2. PICK k \in Ksi, c \in Kamf :
          /\ amf' = [amf EXCEPT !.step = "auth", !.ksi = k, !.chal = c, !.mac = TRUE]
          /\ dl' = Append(dl, AuthenticationRequest(k, c, TRUE))
  BY <1>1, ChallengeLife DEF LifeInv
<1>3. amf'.step = "auth" /\ amf'.registered = amf.registered /\ amf'.ksi = k /\ amf'.chal = c
  BY <1>1, <1>2 DEF Amf
<1>4. Grows(dl, dl', Current')
  BY <1>1, <1>2, <1>3, AppendOf, DownlinkType DEF Current
<1>5. (IsChallenge(Current) /\ ~IsSmc(Current))'
  BY <1>3, MessageFields DEF Current, IsChallenge, IsSmc
<1>6. /\ \A i \in DOMAIN dl' : IsChallenge(dl'[i]) => dl'[i] = Current' /\ \A j \in DOMAIN dl' : j <= i
      /\ \A i \in DOMAIN dl' : dl'[i] # Current' => ~IsChallenge(dl'[i])
      /\ \A i \in DOMAIN dl' : IsSmc(dl'[i]) => dl'[i].ksi = auth.ngKsi
      /\ \A i \in DOMAIN dl' : i \in Nat
  BY <1>4, <1>5 DEF Grows
<1>7. DownlinkOfAuth'
  <2>1. \A i, j \in DOMAIN dl' : i < j => ~(j <= i)
    BY <1>6
  <2>. QED  BY <1>5, <1>6, <2>1 DEF DownlinkOfAuth, IsChallenge, IsSmc
<1>8. ResponsesOfAuth' /\ FailuresOfAuth'
  BY <1>6 DEF ResponsesOfAuth, FailuresOfAuth, IsChallenge
<1>9. Registered'
  BY <1>3 DEF OrderInv, Registered
<1>. QED  BY <1>3, <1>7, <1>8, <1>9 DEF OrderInv, Early, Unchallenged, Challenged, Keying, Agreed

\* The UE found the challenge too old, and the next is above its own number.
LEMMA OrderResync ==
    ASSUME LifeInv, LifeInv', OrderInv, phase = "listening",
           toDu # <<>>, toDu' = Tail(toDu), UNCHANGED <<phase, state, auth, secCtx>>,
           Resynchronises(Head(toDu))
    PROVE  OrderInv'
<1>1. /\ dl \in Seq(DlNas) /\ amf \in Amf /\ toDu \in Seq(UlMsg)
      /\ amf.step = "auth" /\ amf.chal \in Kamf /\ amf.chal # None /\ auth.sqn \in Sqn /\ Sqn \subseteq Nat
      /\ amf.chal.sqn \in Nat
  BY OrderTypes DEF Resynchronises, LifeInv
<1>2. IsTail(toDu, toDu') /\ 1 \in DOMAIN toDu /\ Head(toDu) = toDu[1]
  BY <1>1, TailOf
<1>3. DownlinkOfAuth /\ ResponsesOfAuth /\ FailuresOfAuth
  BY <1>1 DEF OrderInv, Challenged
<1>4. amf.chal.sqn < auth.sqn /\ Head(toDu).arg.sqn = auth.sqn /\ Challenge(auth.sqn)
  BY <1>2, <1>3 DEF FailuresOfAuth, Resynchronises
<1>5. PICK k \in Ksi, c \in Kamf :
          /\ c.sqn = auth.sqn + 1 /\ c.rand # amf.chal.rand
          /\ amf' = [amf EXCEPT !.step = "auth", !.ksi = k, !.chal = c, !.mac = TRUE]
          /\ dl' = Append(dl, AuthenticationRequest(k, c, TRUE))
  BY <1>1, <1>4, ChallengeLife DEF LifeInv
<1>6. amf'.step = "auth" /\ amf'.registered = amf.registered /\ amf'.ksi = k /\ amf'.chal = c
  BY <1>1, <1>5 DEF Amf
<1>7. Grows(dl, dl', Current')
  BY <1>1, <1>5, <1>6, AppendOf, DownlinkType DEF Current
<1>8. /\ (IsChallenge(Current) /\ ~IsSmc(Current))' /\ Current'.rand = c.rand
      /\ Current.rand = amf.chal.rand /\ Current.sqn = amf.chal.sqn
  BY <1>6, CurrentFields DEF Current, AuthenticationRequest, IsChallenge, IsSmc
<1>9. \A i \in DOMAIN dl : IsChallenge(dl[i]) => dl[i] = Current /\ dl[i] # Current'
  BY <1>3, <1>4, <1>5, <1>8 DEF FailuresOfAuth
<1>10. \A i \in DOMAIN toDu :
          /\ toDu[i].type # "AuthenticationResponse"
          /\ toDu[i].type = "SyncFailure" => toDu[i].arg.rand # c.rand
  <2>1. ~Accepted
    BY <1>1, <1>4 DEF Accepted
  <2>. QED  BY <1>3, <1>4, <1>5, <2>1 DEF ResponsesOfAuth, FailuresOfAuth
<1>11. \A i \in DOMAIN toDu' :
          /\ toDu'[i].type # "AuthenticationResponse"
          /\ toDu'[i].type = "SyncFailure" => toDu'[i].arg.rand # c.rand
          /\ toDu'[i].type = "RegistrationComplete" => state = "REGISTERED"
  BY <1>2, <1>10 DEF IsTail, OrderInv, Registered
<1>12. DownlinkOfAuth'
  <2>1. \A i \in DOMAIN dl' : IsSmc(dl'[i]) => dl'[i].ksi = auth.ngKsi
    BY <1>3, <1>7, <1>8 DEF DownlinkOfAuth, Grows
  <2>2. \A i \in DOMAIN dl' : IsChallenge(dl'[i]) /\ dl'[i] # Current' =>
            dl'[i].sqn < auth.sqn /\ dl'[i].rand # c.rand
    BY <1>4, <1>5, <1>7, <1>8, <1>9 DEF Grows
  <2>3. \A i, j \in DOMAIN dl' : i < j /\ IsChallenge(dl'[i]) => IsChallenge(dl'[j])
    <3>1. ASSUME NEW i \in DOMAIN dl', NEW j \in DOMAIN dl', i < j, IsChallenge(dl'[i])
          PROVE  IsChallenge(dl'[j])
      <4>1. i \in Nat /\ j \in Nat /\ ~(j <= i)
        BY <1>7, <3>1 DEF Grows
      <4>2. i \in DOMAIN dl /\ dl'[i] = dl[i]
        BY <1>7, <4>1 DEF Grows
      <4>. QED  BY <1>3, <1>7, <1>8, <3>1, <4>2 DEF DownlinkOfAuth, Grows
    <3>. QED  BY <3>1
  <2>4. \A i, j \in DOMAIN dl' : i < j => dl'[i] # Current'
    <3>1. ASSUME NEW i \in DOMAIN dl', NEW j \in DOMAIN dl', i < j
          PROVE  dl'[i] # Current'
      <4>1. i \in Nat /\ j \in Nat /\ ~(j <= i)
        BY <1>7, <3>1 DEF Grows
      <4>2. i \in DOMAIN dl /\ dl'[i] = dl[i]
        BY <1>7, <4>1 DEF Grows
      <4>. QED  BY <1>8, <1>9, <4>2
    <3>. QED  BY <3>1
  <2>. QED  BY <1>6, <2>1, <2>2, <2>3, <2>4 DEF DownlinkOfAuth, IsChallenge, IsSmc
<1>13. ResponsesOfAuth'
  BY <1>11 DEF ResponsesOfAuth
<1>14. FailuresOfAuth'
  <2>1. auth' = auth /\ amf'.chal.sqn = auth.sqn + 1 /\ amf'.chal.rand = c.rand
    BY <1>5, <1>6
  <2>. DEFINE n == auth.sqn
  <2>2. n \in Nat /\ amf'.chal.sqn = n + 1 /\ auth'.sqn = n
    BY <1>1, <2>1
  <2>. HIDE DEF n
  <2>3. n \in Nat => ~(n + 1 < n)
    OBVIOUS
  <2>4. ~(amf'.chal.sqn < auth'.sqn)
    BY <2>2, <2>3
  <2>. QED  BY <1>11, <2>1, <2>4 DEF FailuresOfAuth
<1>15. Registered'
  BY <1>6, <1>11 DEF OrderInv, Registered
<1>. QED  BY <1>6, <1>12, <1>13, <1>14, <1>15 DEF OrderInv, Early, Unchallenged, Challenged, Keying, Agreed

\* The response: the command follows the challenges, and nothing of an older
\* procedure follows the response.
LEMMA OrderAuthenticates ==
    ASSUME LifeInv, OrderInv, phase = "listening",
           toDu # <<>>, toDu' = Tail(toDu), UNCHANGED <<phase, state, auth, secCtx>>,
           Authenticates(Head(toDu))
    PROVE  OrderInv'
<1>1. dl \in Seq(DlNas) /\ amf \in Amf /\ toDu \in Seq(UlMsg) /\ amf.step = "auth" /\ amf.ksi \in Ksi
  BY OrderTypes DEF Authenticates, LifeInv
<1>2. IsTail(toDu, toDu') /\ 1 \in DOMAIN toDu /\ Head(toDu) = toDu[1] /\ toDu' \in Seq(UlMsg)
  BY <1>1, TailOf
<1>3. ResponsesOfAuth
  BY <1>1 DEF OrderInv, Challenged
<1>4. /\ Accepted
      /\ \A j \in DOMAIN dl : dl[j] = Current
      /\ \A j \in DOMAIN toDu : 1 < j => toDu[j].type \notin {"SyncFailure", "SecurityModeComplete"}
  BY <1>2, <1>3 DEF ResponsesOfAuth, Authenticates
<1>5. amf' = [amf EXCEPT !.step = "smc"] /\ dl' = Append(dl, SecurityModeCommand(amf.ksi))
  BY DEF Authenticates
<1>6. amf'.step = "smc" /\ amf'.ksi = amf.ksi /\ amf'.chal = amf.chal /\ amf'.registered = amf.registered
  BY <1>1, <1>5 DEF Amf
<1>7. Grows(dl, dl', SecurityModeCommand(amf.ksi))
  BY <1>1, <1>5, AppendOf, DownlinkType
<1>8. \A i \in DOMAIN toDu' : i + 1 \in DOMAIN toDu /\ 1 < i + 1 /\ toDu'[i] = toDu[i + 1]
  <2>1. \A i \in DOMAIN toDu' : 1 < i + 1
    BY <1>2
  <2>. QED  BY <1>2, <2>1 DEF IsTail
<1>9. Accepted' /\ Current' = Current
  BY <1>4, <1>6 DEF Accepted, Current
<1>10. \A i \in DOMAIN dl' : dl'[i] \in {Current, SecurityModeCommand(amf.ksi)}
  BY <1>4, <1>7 DEF Grows
<1>11. \A i, j \in DOMAIN dl' : i < j => ~IsSmc(dl'[i])
  <2>1. ASSUME NEW i \in DOMAIN dl', NEW j \in DOMAIN dl', i < j PROVE ~IsSmc(dl'[i])
    <3>1. i \in Nat /\ j \in Nat /\ ~(j <= i)
      BY <1>7, <2>1 DEF Grows
    <3>. QED  BY <1>4, <1>7, <3>1, CurrentFields DEF Grows
  <2>. QED  BY <2>1
<1>12. Keying'
  BY <1>4, <1>6, <1>8, <1>9, <1>10, <1>11 DEF Keying, IsSmc
<1>13. Registered'
  BY <1>6, <1>8 DEF OrderInv, Registered
<1>. QED  BY <1>6, <1>12, <1>13 DEF OrderInv, Early, Unchallenged, Challenged, Agreed

\* The Security Mode Complete: only commands are left under way.
LEMMA OrderSecures ==
    ASSUME LifeInv, OrderInv, phase = "listening",
           toDu # <<>>, toDu' = Tail(toDu), UNCHANGED <<phase, state, auth, secCtx>>,
           Secures(Head(toDu))
    PROVE  OrderInv'
<1>1. dl \in Seq(DlNas) /\ amf \in Amf /\ toDu \in Seq(UlMsg) /\ amf.step = "smc" /\ amf.ksi \in Ksi
  BY OrderTypes DEF Secures, LifeInv
<1>2. IsTail(toDu, toDu') /\ 1 \in DOMAIN toDu /\ Head(toDu) = toDu[1] /\ toDu' \in Seq(UlMsg)
  BY <1>1, TailOf
<1>3. /\ Accepted /\ secCtx.keyed
      /\ \A i \in DOMAIN dl : dl[i] = SecurityModeCommand(amf.ksi)
      /\ \A i \in DOMAIN toDu : toDu[i].type # "SyncFailure"
      /\ \A j \in DOMAIN toDu : 1 < j => toDu[j].type # "AuthenticationResponse"
  <2>1. Keying /\ Head(toDu).type = "SecurityModeComplete"
    BY DEF OrderInv, Secures
  <2>. QED  BY <1>1, <1>2, <2>1, CurrentFields DEF Keying
<1>4. /\ amf'.step \in {"accept", "done"} /\ amf'.kamf = amf.chal
      /\ amf'.ksi = amf.ksi /\ amf'.chal = amf.chal /\ amf'.registered = amf.registered
      /\ amf'.step = "done" => amf.registered
  BY <1>1 DEF Secures, Amf
<1>5. \A i \in DOMAIN dl' : dl'[i] \in {SecurityModeCommand(amf.ksi), RegistrationAccept}
  <2>1. CASE dl' = dl
    BY <1>3, <2>1
  <2>2. CASE dl' = Append(dl, RegistrationAccept)
    <3>1. Grows(dl, dl', RegistrationAccept)
      BY <1>1, <2>2, AppendOf, DownlinkType
    <3>. QED  BY <1>3, <3>1 DEF Grows
  <2>. QED  BY <2>1, <2>2 DEF Secures
<1>6. \A i \in DOMAIN toDu' : i + 1 \in DOMAIN toDu /\ 1 < i + 1 /\ toDu'[i] = toDu[i + 1]
  <2>1. \A i \in DOMAIN toDu' : 1 < i + 1
    BY <1>2
  <2>. QED  BY <1>2, <2>1 DEF IsTail
<1>7. Accepted'
  BY <1>3, <1>4 DEF Accepted
<1>8. Agreed'
  BY <1>3, <1>4, <1>5, <1>6, <1>7 DEF Agreed
<1>9. Registered'
  BY <1>4, <1>6 DEF OrderInv, Registered
<1>. QED  BY <1>4, <1>8, <1>9 DEF OrderInv, Early, Unchallenged, Challenged, Keying

\* The registration completes at the network.
LEMMA OrderFinishes ==
    ASSUME LifeInv, OrderInv, phase = "listening",
           toDu # <<>>, toDu' = Tail(toDu), UNCHANGED <<phase, state, auth, secCtx>>,
           Finishes(Head(toDu))
    PROVE  OrderInv'
<1>1. amf \in Amf /\ toDu \in Seq(UlMsg) /\ amf.step = "accept"
  BY OrderTypes DEF Finishes
<1>2. IsTail(toDu, toDu') /\ 1 \in DOMAIN toDu /\ Head(toDu) = toDu[1]
  BY <1>1, TailOf
<1>3. /\ amf'.step = "done" /\ amf'.registered /\ amf'.kamf = amf.kamf
      /\ amf'.ksi = amf.ksi /\ amf'.chal = amf.chal /\ dl' = dl
  BY <1>1 DEF Finishes, Amf
<1>4. \A i \in DOMAIN toDu' : i + 1 \in DOMAIN toDu /\ toDu'[i] = toDu[i + 1]
  BY <1>2 DEF IsTail
<1>5. Agreed'
  <2>1. Accepted' = Accepted
    BY <1>3 DEF Accepted
  <2>. QED  BY <1>1, <1>3, <1>4, <2>1 DEF OrderInv, Agreed
<1>6. Registered'
  <2>1. state = "REGISTERED"
    BY <1>2 DEF OrderInv, Registered, Finishes
  <2>. QED  BY <1>3, <1>4, <2>1 DEF Registered
<1>. QED  BY <1>3, <1>5, <1>6 DEF OrderInv, Early, Unchallenged, Challenged, Keying

\* OrderInv survives whatever the AMF receives.
LEMMA OrderReceives ==
    ASSUME LifeInv, LifeInv', OrderInv, AmfReceives
    PROVE  OrderInv'
<1>. DEFINE m == Head(toDu)
<1>1. /\ toDu # <<>> /\ toDu' = Tail(toDu)
      /\ UNCHANGED <<phase, state, auth, secCtx>>
      /\ \/ UNCHANGED <<amf, dl, hssSqn>>
         \/ Restarts(m) \/ Resynchronises(m) \/ Authenticates(m) \/ Secures(m) \/ Finishes(m)
  BY AmfLife
<1>2. toDu \in Seq(UlMsg) /\ hssSqn \in Sqn
  BY OrderTypes
<1>3. IsTail(toDu, toDu') /\ 1 \in DOMAIN toDu /\ m = toDu[1]
  BY <1>1, <1>2, TailOf
<1>. HIDE DEF m
<1>4. CASE UNCHANGED <<amf, dl, hssSqn>>
  <2>1. Quietly(toDu, toDu', 1)
    BY <1>3 DEF IsTail, Quietly
  <2>2. (Unchallenged /\ Challenged /\ Keying /\ Agreed)'
    BY <1>1, <1>4, <2>1, QuietStep
  <2>3. Early' /\ Registered'
    BY <1>1, <1>3, <1>4 DEF OrderInv, Early, Registered, IsTail
  <2>. QED  BY <2>2, <2>3 DEF OrderInv
<1>5. CASE phase # "listening"
  <2>1. m.type = "RRCSetupRequest"
    BY <1>3, <1>5 DEF OrderInv, Early
  <2>2. UNCHANGED <<amf, dl, hssSqn>>
    BY <1>1, <2>1 DEF Restarts, Resynchronises, Authenticates, Secures, Finishes
  <2>. QED  BY <1>4, <2>2
<1>6. CASE Restarts(m) /\ phase = "listening"
  <2>1. /\ dl = <<>>
        /\ \A i \in DOMAIN toDu :
              /\ toDu[i].type \notin {"AuthenticationResponse", "SyncFailure"}
              /\ toDu[i].type = "RegistrationComplete" => state = "REGISTERED"
    BY <1>6 DEF Restarts, OrderInv, Unchallenged, Registered
  <2>2. \A i \in DOMAIN toDu' :
           /\ toDu'[i].type \notin {"AuthenticationResponse", "SyncFailure"}
           /\ toDu'[i].type = "RegistrationComplete" => state = "REGISTERED"
    BY <1>3, <2>1 DEF IsTail
  <2>. QED  BY <1>1, <1>2, <1>6, <2>1, <2>2, OrderChallenge DEF Restarts
<1>7. CASE (Resynchronises(m) \/ Authenticates(m) \/ Secures(m) \/ Finishes(m)) /\ phase = "listening"
  BY <1>1, <1>7, OrderResync, OrderAuthenticates, OrderSecures, OrderFinishes DEF m
<1>. QED  BY <1>1, <1>4, <1>5, <1>6, <1>7

\* The AMF sends the outstanding message again.
LEMMA OrderTimeout ==
    ASSUME LifeInv, OrderInv, AmfTimeout
    PROVE  OrderInv'
<1>1. UNCHANGED <<phase, state, auth, secCtx, toDu, amf>>
  BY DEF AmfTimeout, vars
<1>2. dl \in Seq(DlNas) /\ amf \in Amf /\ Current' = Current /\ Accepted' = Accepted
  BY <1>1, OrderTypes DEF Current, Accepted
<1>3. Early' /\ Unchallenged' /\ Registered'
  <2>1. amf.step # "idle"
    BY DEF AmfTimeout
  <2>. QED  BY <1>1, <2>1 DEF OrderInv, Early, Unchallenged, Registered
<1>4. CASE amf.step = "auth"
  <2>1. amf.ksi \in Ksi /\ amf.chal \in Kamf
    BY <1>4, OrderTypes DEF LifeInv
  <2>2. dl' = Append(dl, Current)
    BY <1>4 DEF AmfTimeout, Current, LifeInv
  <2>3. Grows(dl, dl', Current)
    BY <1>2, <2>1, <2>2, AppendOf, DownlinkType DEF Current
  <2>4. DownlinkOfAuth /\ ResponsesOfAuth /\ FailuresOfAuth
    BY <1>4 DEF OrderInv, Challenged
  <2>5. \A i, j \in DOMAIN dl' : i < j => i \in DOMAIN dl /\ dl'[i] = dl[i]
    <3>1. ASSUME NEW i \in DOMAIN dl', NEW j \in DOMAIN dl', i < j PROVE i \in DOMAIN dl /\ dl'[i] = dl[i]
      <4>1. i \in Nat /\ j \in Nat /\ ~(j <= i)
        BY <2>3, <3>1 DEF Grows
      <4>. QED  BY <2>3, <4>1 DEF Grows
    <3>. QED  BY <3>1
  <2>6. DownlinkOfAuth'
    <3>1. \A i \in DOMAIN dl' : IsSmc(dl'[i]) => dl'[i].ksi = auth.ngKsi
      BY <2>3, <2>4, CurrentFields DEF DownlinkOfAuth, Grows
    <3>2. \A i \in DOMAIN dl' : IsChallenge(dl'[i]) /\ dl'[i] # Current =>
              dl'[i].sqn < auth.sqn /\ dl'[i].rand # amf.chal.rand
      BY <2>3, <2>4 DEF DownlinkOfAuth, Grows
    <3>3. \A i, j \in DOMAIN dl' : i < j /\ IsChallenge(dl'[i]) => IsChallenge(dl'[j])
      BY <2>3, <2>4, <2>5, CurrentFields DEF DownlinkOfAuth, Grows
    <3>4. \A i, j \in DOMAIN dl' : i < j /\ dl'[i] = Current => dl'[j] = Current
      BY <2>3, <2>4, <2>5 DEF DownlinkOfAuth, Grows
    <3>. QED  BY <1>1, <1>2, <3>1, <3>2, <3>3, <3>4 DEF DownlinkOfAuth, IsChallenge, IsSmc
  <2>7. ResponsesOfAuth'
    BY <1>1, <1>2, <2>3, <2>4 DEF ResponsesOfAuth, Grows
  <2>8. FailuresOfAuth'
    BY <1>1, <1>2, <2>3, <2>4 DEF FailuresOfAuth, Grows, IsChallenge
  <2>. QED  BY <1>1, <1>3, <1>4, <2>6, <2>7, <2>8 DEF OrderInv, Challenged, Keying, Agreed
<1>5. CASE amf.step = "smc"
  <2>1. Grows(dl, dl', SecurityModeCommand(amf.ksi))
    <3>1. amf.ksi \in Ksi /\ dl' = Append(dl, SecurityModeCommand(amf.ksi))
      BY <1>5 DEF AmfTimeout, LifeInv
    <3>. QED  BY <1>2, <3>1, AppendOf, DownlinkType
  <2>2. \A i, j \in DOMAIN dl' : i < j => i \in DOMAIN dl /\ dl'[i] = dl[i]
    <3>1. ASSUME NEW i \in DOMAIN dl', NEW j \in DOMAIN dl', i < j PROVE i \in DOMAIN dl /\ dl'[i] = dl[i]
      <4>1. i \in Nat /\ j \in Nat /\ ~(j <= i)
        BY <2>1, <3>1 DEF Grows
      <4>. QED  BY <2>1, <4>1 DEF Grows
    <3>. QED  BY <3>1
  <2>3. Keying
    BY DEF OrderInv
  <2>4. /\ \A i \in DOMAIN dl' : dl'[i] \in {Current, SecurityModeCommand(amf.ksi)}
        /\ \A i, j \in DOMAIN dl' : i < j /\ IsSmc(dl'[i]) => IsSmc(dl'[j])
    BY <1>5, <2>1, <2>2, <2>3, CommandFields DEF Keying, Grows
  <2>5. Keying'
    BY <1>1, <1>2, <1>5, <2>1, <2>3, <2>4, CommandFields DEF Keying, Grows, IsSmc
  <2>. QED  BY <1>1, <1>3, <1>5, <2>5 DEF OrderInv, Challenged, Agreed
<1>6. CASE amf.step = "accept"
  <2>1. Grows(dl, dl', RegistrationAccept)
    <3>1. dl' = Append(dl, RegistrationAccept)
      BY <1>6 DEF AmfTimeout
    <3>. QED  BY <1>2, <3>1, AppendOf, DownlinkType
  <2>2. Agreed'
    BY <1>1, <1>2, <1>6, <2>1 DEF OrderInv, Agreed, Grows
  <2>. QED  BY <1>1, <1>3, <1>6, <2>2 DEF OrderInv, Challenged, Keying
<1>. QED  BY <1>4, <1>5, <1>6 DEF AmfTimeout

\* OrderInv survives every step that is no disturbance.
LEMMA OrderStep ==
    ASSUME LifeInv, LifeInv', OrderInv, [NetNext]_allVars
    PROVE  OrderInv'
<1>1. ~AmfRejects
  BY DEF AmfRejects, Reject, Happens, LifeInv, Undisturbed
<1>2. CASE AmfReauthenticates
  <2>1. /\ amf.step = "done" /\ Challenge(hssSqn) /\ hssSqn \in Sqn
        /\ UNCHANGED <<phase, state, auth, secCtx, toDu>>
    BY <1>2, OrderTypes DEF AmfReauthenticates, vars
  <2>2. phase = "listening"
    BY <2>1 DEF OrderInv, Early
  <2>3. \A i \in DOMAIN dl : ~IsChallenge(dl[i]) /\ (IsSmc(dl[i]) => dl[i].ksi = auth.ngKsi)
    BY <2>1, CommandFields DEF OrderInv, Agreed, Accepted
  <2>4. \A i \in DOMAIN toDu' :
              /\ toDu'[i].type \notin {"AuthenticationResponse", "SyncFailure"}
              /\ toDu'[i].type = "RegistrationComplete" => state = "REGISTERED"
    BY <2>1 DEF OrderInv, Agreed, Registered
  <2>. QED  BY <2>1, <2>2, <2>3, <2>4, OrderChallenge
<1>3. CASE HssRestores \/ UNCHANGED allVars
  <2>1. UNCHANGED <<phase, state, auth, secCtx, toDu, amf, dl>>
    BY <1>3 DEF HssRestores, allVars, vars, netVars
  <2>2. Accepted' = Accepted /\ Current' = Current
    BY <2>1 DEF Accepted, Current
  <2>3. Quietly(toDu, toDu', 0)
    BY <2>1, OrderTypes DEF Quietly
  <2>4. (Unchallenged /\ Challenged /\ Keying /\ Agreed)'
    BY <2>1, <2>3, QuietStep
  <2>. QED  BY <2>1, <2>4 DEF OrderInv, Early, Registered
<1>. QED  BY <1>1, <1>2, <1>3, OrderListens, OrderAlone, OrderReceives, OrderTimeout DEF NetNext

------------------------------------------------------------------------------
(* Theorems                                                                 *)

\* Until the first disturbance, IInv is LifeInv and OrderInv.
LEMMA Calm == ASSUME IInv, Undisturbed PROVE LifeInv /\ OrderInv
BY SafeLife DEF IInv

\* A step that leaves the registration undisturbed starts so.
LEMMA CalmStep ==
    ASSUME IInv, IInv', [NetNext]_allVars, Undisturbed'
    PROVE  LifeInv /\ OrderInv /\ LifeInv' /\ OrderInv' /\ Undisturbed
<1>1. Undisturbed
  BY FaultsGrow DEF IInv
<1>2. LifeInv'
  BY SafeLifeNext DEF IInv
<1>. QED  BY <1>1, <1>2, Calm DEF IInv

\* Both invariants hold, the second until the first disturbance.
LEMMA Invariance == NetSpec => []IInv
<1>1. NetInit => IInv
  BY SafeInit, OrderInit DEF IInv
<1>2. ASSUME SafeInv, Undisturbed => OrderInv, [NetNext]_allVars
      PROVE  SafeInv' /\ (Undisturbed' => OrderInv')
  <2>1. SafeInv'
    BY <1>2, SafeStep
  <2>2. ASSUME Undisturbed' PROVE OrderInv'
    <3>1. Undisturbed
      BY <1>2, <2>2, FaultsGrow
    <3>2. LifeInv /\ LifeInv'
      BY <1>2, <2>1, <2>2, <3>1, SafeLife, SafeLifeNext
    <3>. QED  BY <1>2, <3>1, <3>2, OrderStep
  <2>. QED  BY <2>1, <2>2
<1>. QED  BY <1>1, <1>2, PTL DEF NetSpec, IInv

\* Until the first disturbance the two ends agree on the key whenever the AMF
\* has no procedure running.
THEOREM KeysAgree == NetSpec => []Agreement
<1>1. IInv => Agreement
  <2>. SUFFICES ASSUME IInv, Undisturbed, amf.step = "done" PROVE Agreement
    BY DEF Agreement
  <2>1. /\ Accepted /\ secCtx.keyed /\ amf.kamf = amf.chal /\ state = "REGISTERED"
    BY Calm DEF OrderInv, Agreed, Registered
  <2>. QED  BY <2>1 DEF Agreement, Accepted
<1>. QED  BY <1>1, Invariance, PTL

\* Only a disturbance deregisters a registered UE.
THEOREM RegistrationLasts == NetSpec => StaysRegistered
<1>1. ASSUME LifeInv, LifeInv', OrderInv, NetNext, state = "REGISTERED" PROVE state' = "REGISTERED"
  <2>1. CASE UeListens
    <3>1. /\ Listens(dl[1])
          /\ \/ Accepts(dl[1]) \/ Refuses(dl[1]) \/ Mismatches(dl[1])
             \/ Activates(dl[1]) \/ Registers(dl[1])
      BY <1>1, <2>1, ListensFirst DEF UeListens
    <3>2. ~Mismatches(dl[1])
      BY <1>1, <3>1, NoMismatch
    <3>. QED  BY <1>1, <3>1, <3>2 DEF Accepts, Refuses, Activates, Registers
  <2>2. CASE UeAlone
    <3>1. phase = "listening"
      BY <1>1 DEF OrderInv, Early
    <3>. QED  BY <1>1, <2>2, <3>1 DEF UeAlone, InitRRCConn, HandleRRCSetup, TriggerStep,
              WakeUp, FetchContext, SendN1Sm, DropN1Sm, FinishTrigger
  <2>3. CASE AmfReceives
    BY <1>1, <2>3, AmfEffect
  <2>4. CASE AmfTimeout \/ AmfRejects \/ AmfReauthenticates \/ HssRestores
    BY <1>1, <2>4 DEF AmfTimeout, AmfRejects, AmfReauthenticates, HssRestores, vars
  <2>. QED  BY <1>1, <2>1, <2>2, <2>3, <2>4 DEF NetNext
<1>2. IInv /\ IInv' /\ [NetNext]_allVars =>
          [Undisturbed' /\ state = "REGISTERED" => state' = "REGISTERED"]_allVars
  BY <1>1, CalmStep
<1>. QED  BY <1>2, Invariance, PTL DEF StaysRegistered, NetSpec

\* The composition implements the safety part of KeyAgreement: the UE moves
\* to keys that are not older, the network adopts the key that the UE holds
\* at that moment, and registration completes on a key that both hold.
THEOREM Refinement == NetSpec => KA!Init /\ [][KA!Next]_(KA!kaVars)
<1>1. NetInit => KA!Init /\ ContextFromLatestChallenge
  BY DEF NetInit, Init, UeKey, KA!Init, ContextFromLatestChallenge, Undisturbed
<1>2. ASSUME SafeInv, ContextFromLatestChallenge, [NetNext]_allVars
      PROVE  ContextFromLatestChallenge'
  <2>1. Sourced
    BY <1>2, UeStep, NextSourced DEF SafeInv, NetTypeOK
  <2>. QED  BY <1>2, <2>1 DEF Sourced, ContextFromLatestChallenge
<1>3. ASSUME LifeInv, LifeInv', OrderInv, ContextFromLatestChallenge, [NetNext]_allVars
      PROVE  \/ (\E k \in Kamf : KA!Install(k)) \/ KA!Confirm \/ KA!Register
             \/ UNCHANGED <<UeKey, amf.kamf, amf.registered>>
  <2>1. amf \in Amf
    BY <1>3, OrderTypes
  <2>2. CASE UeListens
    <3>1. /\ Listens(dl[1])
          /\ \/ Accepts(dl[1]) \/ Refuses(dl[1]) \/ Mismatches(dl[1])
             \/ Activates(dl[1]) \/ Registers(dl[1])
      BY <1>3, <2>2, ListensFirst DEF UeListens
    <3>2. UNCHANGED amf
      BY <3>1 DEF Listens
    <3>3. CASE Accepts(dl[1])
      <4>. DEFINE k == [rand |-> dl[1].rand, sqn |-> dl[1].sqn]
      <4>1. k \in Kamf /\ dl[1].ksi \in Ksi
        BY <1>3, <3>1, <3>3, ChallengeFields DEF Accepts, Listens, IsChallenge, LifeInv, Conforms, IsSmc, RegistrationAccept
      <4>2. secCtx' = [ngKsi |-> dl[1].ksi, kamf |-> k, keyed |-> FALSE] /\ k.sqn >= auth.sqn
        BY <3>3 DEF Accepts
      <4>. HIDE DEF k
      <4>3. secCtx' # None /\ UeKey' = k
        <5>1. secCtx' \in Contexts
          BY <4>1, <4>2 DEF Contexts
        <5>. QED  BY <4>2, <5>1, ContextAssumption DEF UeKey
      <4>4. UeKey # None => k.sqn >= UeKey.sqn
        BY <1>3, <4>2 DEF UeKey, ContextFromLatestChallenge
      <4>5. KA!Install(k)
        BY <3>2, <4>3, <4>4 DEF KA!Install
      <4>. QED  BY <4>1, <4>5
    <3>4. CASE Activates(dl[1])
      <4>1. secCtx \in Contexts
        BY <1>3, <3>1, <3>4, OrderTypes DEF LifeInv, Listens, Conforms, Activates, IsSmc, IsChallenge, RegistrationAccept
      <4>2. secCtx' = [secCtx EXCEPT !.keyed = TRUE]
        BY <3>4 DEF Activates
      <4>3. secCtx' \in Contexts /\ secCtx'.kamf = secCtx.kamf
        BY <4>1, <4>2 DEF Contexts
      <4>4. UeKey' = UeKey
        BY <4>1, <4>3, ContextAssumption DEF UeKey
      <4>. QED  BY <3>2, <4>4
    <3>5. CASE Refuses(dl[1]) \/ Mismatches(dl[1]) \/ Registers(dl[1])
      BY <3>2, <3>5 DEF Refuses, Mismatches, Registers, UeKey
    <3>. QED  BY <3>1, <3>3, <3>4, <3>5
  <2>3. CASE UeAlone
    BY <1>3, <2>3, AloneLife DEF UeKey
  <2>4. CASE AmfReceives
    <3>. DEFINE m == Head(toDu)
    <3>1. UNCHANGED secCtx
      BY <1>3, <2>4, AmfLife
    <3>2. UeKey' = UeKey
      BY <3>1 DEF UeKey
    <3>. HIDE DEF m
    <3>3. CASE Restarts(m) \/ Resynchronises(m)
      <4>. QED  BY <2>1, <3>2, <3>3, ChallengeStep DEF Restarts, Resynchronises
    <3>4. CASE Authenticates(m)
      <4>1. amf'.kamf = amf.kamf /\ amf'.registered = amf.registered
        BY <2>1, <3>4 DEF Authenticates, Amf
      <4>. QED  BY <3>2, <4>1
    <3>5. CASE Secures(m)
      <4>1. amf'.kamf = amf.chal /\ amf'.registered = amf.registered
        BY <2>1, <3>5 DEF Secures, Amf
      <4>2. UeKey = amf.chal /\ UeKey # None
        BY <1>3, <3>5 DEF Secures, OrderInv, Keying, Accepted, UeKey, LifeInv
      <4>3. KA!Confirm
        BY <3>2, <4>1, <4>2 DEF KA!Confirm
      <4>. QED  BY <4>3
    <3>6. CASE Finishes(m)
      <4>1. amf'.kamf = amf.kamf /\ amf'.registered = TRUE
        BY <2>1, <3>6 DEF Finishes, Amf
      <4>2. amf.kamf = UeKey /\ amf.kamf # None
        BY <1>3, <3>6 DEF Finishes, OrderInv, Agreed, Accepted, UeKey, LifeInv
      <4>3. KA!Register
        BY <3>2, <4>1, <4>2 DEF KA!Register
      <4>. QED  BY <4>3
    <3>7. CASE UNCHANGED amf
      BY <3>2, <3>7
    <3>. QED  BY <1>3, <2>4, <3>3, <3>4, <3>5, <3>6, <3>7, AmfLife DEF m
  <2>5. CASE AmfReauthenticates
    <3>2. amf'.kamf = amf.kamf /\ amf'.registered = amf.registered
      BY <2>1, <2>5, ChallengeStep DEF AmfReauthenticates
    <3>3. UeKey' = UeKey
      BY <2>5 DEF AmfReauthenticates, vars, UeKey
    <3>. QED  BY <3>2, <3>3
  <2>6. CASE AmfTimeout \/ HssRestores \/ UNCHANGED allVars
    BY <2>6 DEF AmfTimeout, HssRestores, allVars, netVars, vars, UeKey
  <2>7. ~AmfRejects
    BY <1>3 DEF AmfRejects, Reject, Happens, LifeInv, Undisturbed
  <2>. QED  BY <1>3, <2>2, <2>3, <2>4, <2>5, <2>6, <2>7 DEF NetNext
<1>4. ASSUME IInv, IInv', ContextFromLatestChallenge, [NetNext]_allVars
      PROVE  [KA!Next]_(KA!kaVars)
  <2>1. CASE Undisturbed'
    <3>1. Undisturbed /\ LifeInv /\ LifeInv' /\ OrderInv
      BY <1>4, <2>1, CalmStep
    <3>2. KA!Undisturbed
      BY <2>1, <3>1 DEF KA!Undisturbed, Undisturbed
    <3>3. \/ (\E k \in Kamf : KA!Install(k)) \/ KA!Confirm \/ KA!Register
          \/ UNCHANGED <<UeKey, amf.kamf, amf.registered>>
      BY <1>3, <1>4, <3>1
    <3>. QED  BY <3>2, <3>3 DEF KA!Next, KA!kaVars, KA!Undisturbed
  <2>2. CASE ~Undisturbed'
    BY <2>2 DEF KA!Next, KA!Disturb
  <2>. QED  BY <2>1, <2>2
<1>5. IInv => SafeInv
  BY DEF IInv
<1>. QED  BY <1>1, <1>2, <1>4, <1>5, Invariance, PTL DEF NetSpec

------------------------------------------------------------------------------
(* Whoever waits is answered                                                *)

\* What is in a channel stays there when something is appended.
LEMMA AppendKeeps ==
    ASSUME NEW S, NEW q \in Seq(S), NEW e, Append(q, e) \in Seq(S)
    PROVE  /\ \A i \in DOMAIN q : i \in DOMAIN Append(q, e) /\ Append(q, e)[i] = q[i]
           /\ Len(q) + 1 \in DOMAIN Append(q, e) /\ Append(q, e)[Len(q) + 1] = e
OBVIOUS

\* All but the first element are in the tail.
LEMMA TailKeeps ==
    ASSUME NEW S, NEW q \in Seq(S), q # <<>>, NEW i \in DOMAIN q, i # 1
    PROVE  i - 1 \in DOMAIN Tail(q) /\ Tail(q)[i - 1] = q[i]
OBVIOUS

DlHas == \E i \in DOMAIN dl : Outstanding(dl[i])
UlHas == \E i \in DOMAIN toDu : Awaited(toDu[i])

\* What the AMF waits for depends on nothing but its own state.
LEMMA AmfWaits ==
    ASSUME UNCHANGED amf, NEW m
    PROVE  (Awaited(m)' <=> Awaited(m)) /\ (Outstanding(m)' <=> Outstanding(m))
BY DEF Awaited, Outstanding, AuthenticationRequest, SecurityModeCommand, RegistrationAccept

\* The UE takes the outstanding message, and answers it.
LEMMA ListenerAnswers ==
    ASSUME LifeInv, LifeInv', OrderInv, UeListens, amf.step # "done", DlHas \/ UlHas
    PROVE  DlHas' \/ UlHas'
<1>1. PICK i \in DOMAIN dl : UeReceives(i)
  BY DEF UeListens
<1>2. i = 1 /\ dl' = RemoveAt(dl, 1) /\ dl \in Seq(DlNas) /\ toDu \in Seq(UlMsg) /\ toDu' \in Seq(UlMsg)
  BY <1>1, ListensFirst, OrderTypes DEF LifeInv, NetTypeOK, TypeOK
<1>. DEFINE m == dl[1]
<1>3. /\ Listens(m) /\ UNCHANGED amf
      /\ Accepts(m) \/ Refuses(m) \/ Mismatches(m) \/ Activates(m) \/ Registers(m)
  BY <1>1, ListensFirst DEF Listens
<1>4. amf.step \in AmfSteps \ {"done"} /\ (amf.step # "idle" => amf.chal \in Kamf)
  BY OrderTypes
<1>. HIDE DEF m
<1>5. toDu' = toDu \/ \E e : toDu' = Append(toDu, e)
  BY <1>3 DEF Accepts, Refuses, Mismatches, Activates, Registers
<1>6. ASSUME UlHas PROVE UlHas'
  <2>1. \A j \in DOMAIN toDu : j \in DOMAIN toDu' /\ toDu'[j] = toDu[j]
    BY <1>2, <1>5, AppendKeeps
  <2>. QED  BY <1>3, <1>6, <2>1, AmfWaits DEF UlHas
<1>7. ASSUME NEW k \in DOMAIN dl \ {1}, Outstanding(dl[k]) PROVE DlHas'
  <2>1. PICK j \in DOMAIN dl' : dl'[j] = dl[k]
    BY <1>1, <1>2, RemoveOf
  <2>. QED  BY <1>3, <1>7, <2>1, AmfWaits DEF DlHas
<1>8. ASSUME NEW e, toDu' = Append(toDu, e), Awaited(e) PROVE UlHas'
  <2>1. Len(toDu) + 1 \in DOMAIN toDu' /\ toDu'[Len(toDu) + 1] = e
    BY <1>2, <1>8, AppendKeeps
  <2>. QED  BY <1>3, <1>8, <2>1, AmfWaits DEF UlHas
<1>9. ASSUME Outstanding(m) PROVE UlHas'
  <2>1. CASE amf.step = "auth"
    <3>1. /\ IsChallenge(m) /\ m.rand = amf.chal.rand /\ m.sqn = amf.chal.sqn
          /\ [rand |-> m.rand, sqn |-> m.sqn] = amf.chal
      BY <1>4, <1>9, <2>1, CurrentFields DEF Outstanding, Current, Kamf, LifeInv
    <3>2. Accepts(m) \/ Refuses(m)
      BY <1>3, <3>1, CommandFields DEF IsChallenge, IsSmc, Mismatches, Activates, Registers
    <3>3. CASE Accepts(m)
      BY <1>8, <2>1, <3>1, <3>3 DEF Accepts, Awaited
    <3>4. CASE Refuses(m)
      <4>. DEFINE a == [rand |-> m.rand, sqn |-> auth.sqn]
      <4>1. toDu' = Append(toDu, [type |-> "SyncFailure", key |-> None, arg |-> a])
        BY <3>4 DEF Refuses
      <4>2. a.rand = amf.chal.rand
        BY <3>1
      <4>. HIDE DEF a
      <4>. QED  BY <1>8, <2>1, <4>1, <4>2 DEF Awaited
    <3>. QED  BY <3>2, <3>3, <3>4
  <2>2. CASE amf.step = "smc"
    <3>1. m = SecurityModeCommand(amf.ksi)
      BY <1>9, <2>2 DEF Outstanding
    <3>2. IsSmc(m) /\ ~IsChallenge(m) /\ m.ksi = amf.ksi /\ m # RegistrationAccept
      BY <3>1, CommandFields
    <3>3. auth.ngKsi = amf.ksi /\ secCtx.kamf = amf.chal
      BY <2>2 DEF OrderInv, Keying, Accepted
    <3>4. Activates(m)
      BY <1>3, <3>2, <3>3 DEF Accepts, Refuses, Mismatches, Registers
    <3>. QED  BY <1>8, <2>2, <3>3, <3>4 DEF Activates, Awaited
  <2>3. CASE amf.step = "accept"
    <3>1. m = RegistrationAccept
      BY <1>9, <2>3 DEF Outstanding
    <3>2. Registers(m)
      BY <1>3, <3>1, CommandFields DEF Accepts, Refuses, Mismatches, Activates
    <3>3. NasKey = amf.kamf
      BY <2>3 DEF OrderInv, Agreed, Accepted, NasKey
    <3>. QED  BY <1>8, <2>3, <3>2, <3>3 DEF Registers, Awaited
  <2>. QED  BY <1>4, <1>9, <2>1, <2>2, <2>3 DEF AmfSteps, Outstanding, LifeInv
<1>10. CASE UlHas
  BY <1>6, <1>10
<1>11. CASE DlHas
  <2>1. PICK k \in DOMAIN dl : Outstanding(dl[k])
    BY <1>11 DEF DlHas
  <2>. QED  BY <1>7, <1>9, <2>1 DEF m
<1>. QED  BY <1>10, <1>11

\* The UE by itself leaves both as they are, and begins with a request.
LEMMA AloneAnswers ==
    ASSUME LifeInv, LifeInv', OrderInv, UeAlone, AlwaysAnswered
    PROVE  AlwaysAnswered'
<1>1. /\ UNCHANGED <<amf, dl>> /\ toDu \in Seq(UlMsg) /\ toDu' \in Seq(UlMsg)
      /\ toDu' = toDu \/ \E e : toDu' = Append(toDu, e)
  BY AloneLife, OrderTypes DEF LifeInv, NetTypeOK, TypeOK
<1>2. CASE phase = "listening"
  <2>1. \A j \in DOMAIN toDu : j \in DOMAIN toDu' /\ toDu'[j] = toDu[j]
    BY <1>1, AppendKeeps
  <2>. QED  BY <1>1, <1>2, <2>1, AmfWaits DEF AlwaysAnswered, LifeInv
<1>3. CASE phase # "listening"
  <2>1. amf.step = "idle"
    BY <1>3 DEF OrderInv, Early
  <2>. DEFINE e == [type |-> "RegistrationRequest", key |-> None, arg |-> None]
  <2>2. phase' = "listening" => toDu' = Append(toDu, e)
    BY <1>3 DEF UeAlone, InitRRCConn, HandleRRCSetup, TriggerStep, WakeUp, FetchContext,
                SendN1Sm, DropN1Sm, FinishTrigger, Send
  <2>3. e.type = "RegistrationRequest"
    OBVIOUS
  <2>. HIDE DEF e
  <2>4. phase' = "listening" => \E i \in DOMAIN toDu' : toDu'[i] = e
    BY <1>1, <2>2, AppendKeeps
  <2>. QED  BY <1>1, <2>1, <2>3, <2>4 DEF AlwaysAnswered, Awaited, LifeInv
<1>. QED  BY <1>2, <1>3

\* A new challenge is outstanding.
LEMMA ChallengeOutstanding ==
    ASSUME LifeInv, LifeInv', NEW sqn \in Sqn, Challenge(sqn)
    PROVE  DlHas'
<1>1. amf \in Amf /\ dl \in Seq(DlNas) /\ dl' \in Seq(DlNas)
  BY OrderTypes DEF LifeInv, NetTypeOK
<1>2. PICK k \in Ksi, c \in Kamf :
         /\ amf' = [amf EXCEPT !.step = "auth", !.ksi = k, !.chal = c, !.mac = TRUE]
         /\ dl' = Append(dl, AuthenticationRequest(k, c, TRUE))
  BY <1>1, ChallengeLife DEF LifeInv
<1>3. amf'.step = "auth" /\ amf'.ksi = k /\ amf'.chal = c
  BY <1>1, <1>2 DEF Amf
<1>. DEFINE e == AuthenticationRequest(k, c, TRUE)
<1>4. Outstanding(e)'
  BY <1>3 DEF Outstanding, AuthenticationRequest, LifeInv
<1>5. dl' = Append(dl, e)
  BY <1>2
<1>. HIDE DEF e
<1>6. Len(dl) + 1 \in DOMAIN dl' /\ dl'[Len(dl) + 1] = e
  BY <1>1, <1>5, AppendKeeps
<1>. QED  BY <1>4, <1>6 DEF DlHas

\* The AMF goes on with the message it waits for, and only with that.
LEMMA AwaitedIsHandled ==
    ASSUME LifeInv, LifeInv', AmfReceives, amf.step \in AmfSteps
    PROVE  IF amf.step # "done" /\ Awaited(Head(toDu))
           THEN \/ Restarts(Head(toDu)) \/ Resynchronises(Head(toDu))
                \/ Authenticates(Head(toDu)) \/ Secures(Head(toDu)) \/ Finishes(Head(toDu))
           ELSE UNCHANGED <<amf, dl, hssSqn>>
<1>. DEFINE m == Head(toDu)
<1>1. /\ AmfHandles(m)
      /\ \/ UNCHANGED <<amf, dl, hssSqn>>
         \/ Restarts(m) \/ Resynchronises(m) \/ Authenticates(m) \/ Secures(m) \/ Finishes(m)
  BY AmfLife DEF AmfReceives
<1>. HIDE DEF m, Challenge
<1>2. ASSUME amf.step # "done", Awaited(m)
      PROVE  Restarts(m) \/ Resynchronises(m) \/ Authenticates(m) \/ Secures(m) \/ Finishes(m)
  <2>1. \A r : ~Reject(r)
    BY DEF Reject, Happens, LifeInv, Undisturbed
  <2>2. amf.step \in {"idle", "auth", "smc", "accept"}
    BY <1>2 DEF LifeInv, AmfSteps
  <2>. HIDE DEF Reject
  <2>3. CASE amf.step = "idle"
    BY <1>1, <1>2, <2>1, <2>3 DEF AmfHandles, Awaited, Restarts
  <2>4. CASE amf.step = "auth"
    BY <1>1, <1>2, <2>4 DEF AmfHandles, Awaited, Resynchronises, Authenticates
  <2>5. CASE amf.step = "smc"
    BY <1>1, <1>2, <2>5 DEF AmfHandles, Awaited, Secures
  <2>6. CASE amf.step = "accept"
    BY <1>1, <1>2, <2>6 DEF AmfHandles, Awaited, Finishes
  <2>. QED  BY <2>2, <2>3, <2>4, <2>5, <2>6
<1>3. ASSUME ~(amf.step # "done" /\ Awaited(m))
      PROVE  UNCHANGED <<amf, dl, hssSqn>>
  <2>1. /\ ~(m.type = "RegistrationRequest" /\ amf.step = "idle")
        /\ ~(m.type = "SyncFailure" /\ amf.step = "auth" /\ m.arg.rand = amf.chal.rand)
        /\ ~(m.type = "AuthenticationResponse" /\ amf.step = "auth" /\ m.arg = amf.chal)
        /\ ~(m.type = "SecurityModeComplete" /\ amf.step = "smc" /\ m.key = amf.chal)
        /\ ~(m.type = "RegistrationComplete" /\ amf.step = "accept" /\ m.key = amf.kamf)
    BY <1>3 DEF Awaited
  <2>. QED  BY <1>1, <2>1 DEF Restarts, Resynchronises, Authenticates, Secures, Finishes
<1>. QED  BY <1>2, <1>3 DEF m

LEMMA AmfAnswers ==
    ASSUME LifeInv, LifeInv', AmfReceives, amf.step # "done", DlHas \/ UlHas
    PROVE  amf'.step = "done" \/ DlHas' \/ UlHas'
<1>1. /\ toDu # <<>> /\ toDu' = Tail(toDu) /\ AmfHandles(Head(toDu))
      /\ toDu \in Seq(UlMsg) /\ dl \in Seq(DlNas) /\ dl' \in Seq(DlNas)
      /\ amf \in Amf /\ amf.step \in AmfSteps /\ hssSqn \in Sqn
  BY OrderTypes DEF AmfReceives, DuReceives, LifeInv, NetTypeOK
<1>. DEFINE m == Head(toDu)
<1>2. m = toDu[1] /\ 1 \in DOMAIN toDu /\ m \in UlMsg
  BY <1>1
<1>3. m.type = "SyncFailure" => m.arg.sqn \in Sqn
  <2>1. m.type = "SyncFailure" => m.arg \in Kamf
    BY <1>2 DEF LifeInv, UlMsg
  <2>. QED  BY <2>1 DEF Kamf
<1>. HIDE DEF m
<1>4. CASE Awaited(m)
  <2>1. Restarts(m) \/ Resynchronises(m) \/ Authenticates(m) \/ Secures(m) \/ Finishes(m)
    BY <1>1, <1>4, AwaitedIsHandled DEF m
  <2>2. CASE Restarts(m) \/ Resynchronises(m)
    BY <1>1, <1>3, <2>2, ChallengeOutstanding DEF Restarts, Resynchronises
  <2>3. CASE Authenticates(m)
    <3>1. amf'.step = "smc" /\ amf'.ksi = amf.ksi
      BY <1>1, <2>3 DEF Authenticates, Amf
    <3>2. Outstanding(SecurityModeCommand(amf.ksi))'
      BY <3>1 DEF Outstanding, SecurityModeCommand
    <3>3. Len(dl) + 1 \in DOMAIN dl' /\ dl'[Len(dl) + 1] = SecurityModeCommand(amf.ksi)
      BY <1>1, <2>3, AppendKeeps DEF Authenticates
    <3>. QED  BY <3>1, <3>2, <3>3 DEF DlHas
  <2>4. CASE Secures(m)
    <3>1. amf'.step = "done" \/ (amf'.step = "accept" /\ dl' = Append(dl, RegistrationAccept))
      BY <1>1, <2>4 DEF Secures, Amf
    <3>2. amf'.step = "accept" => Outstanding(RegistrationAccept)'
      BY DEF Outstanding, RegistrationAccept
    <3>3. CASE amf'.step = "accept" /\ dl' = Append(dl, RegistrationAccept)
      <4>1. Len(dl) + 1 \in DOMAIN dl' /\ dl'[Len(dl) + 1] = RegistrationAccept
        BY <1>1, <3>3, AppendKeeps
      <4>. QED  BY <3>2, <3>3, <4>1 DEF DlHas
    <3>. QED  BY <3>1, <3>3
  <2>5. CASE Finishes(m)
    BY <1>1, <2>5 DEF Finishes, Amf
  <2>. QED  BY <2>1, <2>2, <2>3, <2>4, <2>5
<1>5. CASE ~Awaited(m)
  <2>1. UNCHANGED <<amf, dl>>
    BY <1>1, <1>5, AwaitedIsHandled DEF m
  <2>2. CASE DlHas
    BY <2>1, <2>2, AmfWaits DEF DlHas
  <2>3. CASE UlHas
    <3>1. PICK i \in DOMAIN toDu : Awaited(toDu[i])
      BY <2>3 DEF UlHas
    <3>2. i # 1
      BY <1>2, <1>5, <3>1
    <3>3. i - 1 \in DOMAIN toDu' /\ toDu'[i - 1] = toDu[i]
      BY <1>1, <3>2, TailKeeps
    <3>. QED  BY <2>1, <3>1, <3>3, AmfWaits DEF UlHas
  <2>. QED  BY <2>2, <2>3
<1>. QED  BY <1>4, <1>5

\* Timers add to the downlink; a restart of the database changes neither.
LEMMA RestAnswers ==
    ASSUME LifeInv, LifeInv', AmfTimeout \/ AmfReauthenticates \/ HssRestores \/ UNCHANGED allVars,
           AlwaysAnswered
    PROVE  AlwaysAnswered'
<1>1. /\ UNCHANGED <<phase, toDu>> /\ dl \in Seq(DlNas) /\ dl' \in Seq(DlNas) /\ hssSqn \in Sqn
  BY OrderTypes DEF LifeInv, NetTypeOK, AmfTimeout, AmfReauthenticates, HssRestores,
                    allVars, netVars, vars
<1>2. CASE AmfReauthenticates
  <2>1. DlHas'
    BY <1>1, <1>2, ChallengeOutstanding DEF AmfReauthenticates
  <2>. QED  BY <2>1 DEF DlHas, AlwaysAnswered
<1>3. CASE AmfTimeout \/ HssRestores \/ UNCHANGED allVars
  <2>1. UNCHANGED amf /\ (dl' = dl \/ \E e : dl' = Append(dl, e))
    BY <1>3 DEF AmfTimeout, HssRestores, allVars, netVars
  <2>2. \A j \in DOMAIN dl : j \in DOMAIN dl' /\ dl'[j] = dl[j]
    BY <1>1, <2>1, AppendKeeps
  <2>. QED  BY <1>1, <2>1, <2>2, AmfWaits DEF AlwaysAnswered, LifeInv
<1>. QED  BY <1>2, <1>3

\* Until the first disturbance the AMF never waits for an answer that cannot
\* come, for any number of retransmissions, re-authentications and restarts.
THEOREM Answered == NetSpec => []AlwaysAnswered
<1>1. NetInit => AlwaysAnswered
  BY DEF NetInit, Init, AlwaysAnswered
<1>2. ASSUME LifeInv, LifeInv', OrderInv, AlwaysAnswered, [NetNext]_allVars PROVE AlwaysAnswered'
  <2>1. CASE UeListens
    <3>1. phase' = phase /\ UNCHANGED amf
      BY <1>2, <2>1, ListensFirst DEF UeListens, Listens
    <3>. QED  BY <1>2, <2>1, <3>1, ListenerAnswers DEF AlwaysAnswered, DlHas, UlHas, LifeInv
  <2>2. CASE AmfReceives
    <3>1. phase' = phase
      BY <2>2, AmfEffect
    <3>2. CASE amf.step # "done"
      BY <1>2, <2>2, <3>1, <3>2, AmfAnswers DEF AlwaysAnswered, DlHas, UlHas, LifeInv
    <3>3. CASE amf.step = "done"
      <4>1. amf'.step = amf.step
        BY <1>2, <2>2, <3>3, AwaitedIsHandled, OrderTypes
      <4>. QED  BY <3>3, <4>1 DEF AlwaysAnswered
    <3>. QED  BY <3>2, <3>3
  <2>3. ~AmfRejects
    BY <1>2 DEF AmfRejects, Reject, Happens, LifeInv, Undisturbed
  <2>. QED  BY <1>2, <2>1, <2>2, <2>3, AloneAnswers, RestAnswers DEF NetNext
<1>3. ASSUME IInv, IInv', AlwaysAnswered, [NetNext]_allVars PROVE AlwaysAnswered'
  <2>1. CASE Undisturbed'
    BY <1>2, <1>3, <2>1, CalmStep
  <2>2. CASE ~Undisturbed'
    BY <2>2 DEF AlwaysAnswered
  <2>. QED  BY <2>1, <2>2
<1>. QED  BY <1>1, <1>3, Invariance, PTL DEF NetSpec
=============================================================================

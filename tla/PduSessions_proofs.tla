------------------------- MODULE PduSessions_proofs -------------------------
(***************************************************************************)
(* The session table is safe for any number of identities, sessions and    *)
(* callers: the listener never unlinks a session it did not look up, and   *)
(* no identity leaks.                                                      *)
(*                                                                         *)
(* The inductive invariant adds what the callers' program counters imply:  *)
(* a caller that is not idle has a session to work on.  The rest is        *)
(* inductive because only the listener empties slots and only empty slots  *)
(* are filled.                                                             *)
(***************************************************************************)
EXTENDS PduSessions, FiniteSetTheorems, TLAPS

LEMMA SendType ==
    ASSUME NEW type \in {"EstablishmentRequest", "ReleaseRequest", "ReleaseComplete"},
           NEW s \in Session, NEW p \in Pti, sess[s].id \in Id,
           toDu \in Seq(UlSm), Len(toDu) <= ChanCap, SendN1Sm(type, s, p)
    PROVE  toDu' \in Seq(UlSm) /\ Len(toDu') <= ChanCap
BY PtiAssumption, ChanAssumption DEF SendN1Sm, UlSm

\* Every session a caller or the listener works on has been created, and has
\* an identity.
Created(s) == ~sess[s].new /\ sess[s].id \in Id

PointersCreated ==
    /\ \A c \in Caller :
          /\ caller[c].step # "idle" => caller[c].todo # <<>>
          /\ \A k \in DOMAIN caller[c].todo : Created(caller[c].todo[k])
    /\ listener.step # "idle" => listener.session \in Session

IInv ==
    /\ TypeOK
    /\ PointersCreated
    /\ SlotsMatch
    /\ ListenerNotStale
    /\ NoLeak

------------------------------------------------------------------------------
(* Sequences of sessions                                                    *)

\* The session a busy caller works on exists, and has an identity.
LEMMA CurrentCreated ==
    ASSUME TypeOK, PointersCreated, NEW c \in Caller, caller[c].step # "idle"
    PROVE  Current(c) \in Session /\ Created(Current(c))
<1>1. caller[c].todo \in Seq(Session) /\ caller[c].todo # <<>>
  BY DEF TypeOK, PointersCreated
<1>2. 1 \in DOMAIN caller[c].todo /\ Current(c) = caller[c].todo[1]
  BY <1>1 DEF Current
<1> QED BY <1>1, <1>2 DEF PointersCreated

\* Moving on keeps the caller well formed.
LEMMA ContinueCaller ==
    ASSUME TypeOK, PointersCreated, NEW c \in Caller, caller[c].step # "idle", Continue(c)
    PROVE  /\ caller' \in [Caller -> [step : CallerSteps, todo : Seq(Session)]]
           /\ \A d \in Caller :
                 /\ caller'[d].step # "idle" => caller'[d].todo # <<>>
                 /\ \A k \in DOMAIN caller'[d].todo : Created(caller'[d].todo[k])
           /\ caller'[c].step # "created"
           /\ \A d \in Caller \ {c} : caller'[d] = caller[d]
<1> DEFINE rest == Tail(caller[c].todo)
           step == IF rest = <<>> THEN "idle" ELSE "check"
<1>1. caller[c].todo \in Seq(Session) /\ caller[c].todo # <<>>
  BY DEF TypeOK, PointersCreated
<1>2. /\ rest \in Seq(Session)
      /\ \A k \in DOMAIN rest : k + 1 \in DOMAIN caller[c].todo /\ rest[k] = caller[c].todo[k + 1]
  BY <1>1
<1>3. \A k \in DOMAIN rest : Created(rest[k])
  BY <1>2 DEF PointersCreated
<1>8. step \in CallerSteps /\ (step # "idle" => rest # <<>>) /\ step # "created"
  BY DEF CallerSteps
<1>4. caller' = [caller EXCEPT ![c] = [step |-> step, todo |-> rest]]
  BY DEF Continue, Goto
<1> HIDE DEF rest, step
<1>5. caller'[c] = [step |-> step, todo |-> rest]
      /\ \A d \in Caller \ {c} : caller'[d] = caller[d]
  BY <1>4 DEF TypeOK
<1>6. caller' \in [Caller -> [step : CallerSteps, todo : Seq(Session)]]
  BY <1>2, <1>8, <1>4 DEF TypeOK
<1>7. ASSUME NEW d \in Caller
      PROVE  /\ caller'[d].step # "idle" => caller'[d].todo # <<>>
             /\ \A k \in DOMAIN caller'[d].todo : Created(caller'[d].todo[k])
  <2>1. CASE d = c
    <3>1. caller'[d].todo = rest /\ (caller'[d].step # "idle" => rest # <<>>)
      BY <1>8, <1>5, <2>1
    <3> QED BY <1>3, <3>1
  <2>2. CASE d # c
    <3>1. caller'[d] = caller[d]
      BY <1>5, <2>2
    <3> QED BY <3>1 DEF PointersCreated
  <2> QED BY <2>1, <2>2
<1> QED BY <1>8, <1>5, <1>6, <1>7

\* Going on with the same sessions does, too.
LEMMA GotoCaller ==
    ASSUME TypeOK, PointersCreated, NEW c \in Caller, caller[c].step # "idle",
           NEW st \in CallerSteps, Goto(c, st, caller[c].todo)
    PROVE  /\ caller' \in [Caller -> [step : CallerSteps, todo : Seq(Session)]]
           /\ \A d \in Caller :
                 /\ caller'[d].step # "idle" => caller'[d].todo # <<>>
                 /\ \A k \in DOMAIN caller'[d].todo : Created(caller'[d].todo[k])
           /\ caller'[c] = [step |-> st, todo |-> caller[c].todo]
           /\ \A d \in Caller \ {c} : caller'[d] = caller[d]
<1>1. caller[c].todo \in Seq(Session) /\ caller[c].todo # <<>>
  BY DEF TypeOK, PointersCreated
<1>2. caller' = [caller EXCEPT ![c] = [step |-> st, todo |-> caller[c].todo]]
  BY DEF Goto
<1>3. caller'[c] = [step |-> st, todo |-> caller[c].todo]
      /\ \A d \in Caller \ {c} : caller'[d] = caller[d]
  BY <1>2 DEF TypeOK
<1>4. caller' \in [Caller -> [step : CallerSteps, todo : Seq(Session)]]
  BY <1>1, <1>2 DEF TypeOK
<1> QED BY <1>1, <1>3, <1>4 DEF PointersCreated

\* Changing the state of a session that exists keeps everything but states.
LEMMA SetStateKeeps ==
    ASSUME TypeOK, NEW s \in Session, NEW st \in States, SetState(s, st)
    PROVE  /\ sess' \in [Session -> [new : BOOLEAN, id : Id \cup {None}, state : States]]
           /\ sess'[s].state = st
           /\ \A r \in Session : sess'[r].new = sess[r].new /\ sess'[r].id = sess[r].id
           /\ \A r \in Session \ {s} : sess'[r] = sess[r]
BY DEF SetState, TypeOK

\* Starting on a list of sessions from the table.
LEMMA StartCaller ==
    ASSUME TypeOK, PointersCreated, NEW c \in Caller, NEW list \in Seq(Session), list # <<>>,
           NEW st \in CallerSteps, Goto(c, st, list)
    PROVE  /\ caller' \in [Caller -> [step : CallerSteps, todo : Seq(Session)]]
           /\ caller'[c] = [step |-> st, todo |-> list]
           /\ \A d \in Caller \ {c} : caller'[d] = caller[d]
BY DEF Goto, TypeOK

------------------------------------------------------------------------------
(* The steps                                                                *)

LEMMA CreateStep ==
    ASSUME IInv, NEW c \in Caller, CreatePDUSession(c)
    PROVE  IInv'
<1> USE DEF IInv
<1>1. PICK i \in Id, s \in Session :
        /\ FreeId(i) /\ sess[s].new
        /\ sess' = [sess EXCEPT ![s] = [new |-> FALSE, id |-> i, state |-> "INACTIVE"]]
        /\ slot' = [slot EXCEPT ![i] = s]
        /\ Goto(c, "created", <<s>>)
  BY DEF CreatePDUSession
<1>2. caller[c].step = "idle" /\ UNCHANGED <<listener, toDu>>
  BY DEF CreatePDUSession
<1>3. /\ <<s>> \in Seq(Session) /\ <<s>> # <<>> /\ Head(<<s>>) = s
      /\ "created" \in CallerSteps
  BY DEF CallerSteps
<1>4. /\ caller' \in [Caller -> [step : CallerSteps, todo : Seq(Session)]]
      /\ caller'[c] = [step |-> "created", todo |-> <<s>>]
      /\ \A d \in Caller \ {c} : caller'[d] = caller[d]
  BY <1>1, <1>3, StartCaller
<1>5. /\ sess'[s] = [new |-> FALSE, id |-> i, state |-> "INACTIVE"]
      /\ \A r \in Session \ {s} : sess'[r] = sess[r]
      /\ slot'[i] = s /\ slot[i] = None
      /\ \A j \in Id \ {i} : slot'[j] = slot[j] /\ slot[j] # s
  BY <1>1, IdAssumption DEF TypeOK, FreeId, SlotsMatch
<1>6. \A r \in Session : Created(r) => r # s /\ Created(r)'
  BY <1>1, <1>5 DEF Created
<1>7. TypeOK'
  BY <1>1, <1>2, <1>4 DEF TypeOK, States
<1>8. PointersCreated'
  <2>1. ASSUME NEW d \in Caller
        PROVE  /\ caller'[d].step # "idle" => caller'[d].todo # <<>>
               /\ \A k \in DOMAIN caller'[d].todo : Created(caller[d].todo[k])'
    <3>1. CASE d = c
      <4>1. ~sess'[s].new /\ sess'[s].id \in Id
        BY <1>5
      <4>2. caller'[d].todo = <<s>> /\ \A k \in DOMAIN <<s>> : <<s>>[k] = s
        BY <1>4, <3>1
      <4> QED BY <4>1, <4>2 DEF Created
    <3>2. CASE d # c
      <4>1. caller'[d] = caller[d] /\ caller[d].todo \in Seq(Session)
        BY <1>4, <3>2 DEF TypeOK
      <4>2. \A k \in DOMAIN caller[d].todo : caller[d].todo[k] \in Session
        BY <4>1
      <4> QED BY <1>6, <4>1, <4>2 DEF PointersCreated, Created
    <3> QED BY <3>1, <3>2
  <2> QED BY <1>2, <2>1 DEF PointersCreated
<1>9. SlotsMatch'
  <2> SUFFICES ASSUME NEW j \in Id, slot'[j] # None
               PROVE  ~sess'[slot'[j]].new /\ sess'[slot'[j]].id = j
    BY DEF SlotsMatch
  <2>1. CASE j = i
    BY <1>5, <2>1
  <2>2. CASE j # i
    <3>1. slot'[j] = slot[j] /\ slot[j] \in Session \ {s}
      BY <1>5, <2>2 DEF TypeOK
    <3> QED BY <1>5, <3>1 DEF SlotsMatch
  <2> QED BY <2>1, <2>2
<1>10. ListenerNotStale'
  BY <1>1, <1>2, <1>5, IdAssumption DEF ListenerNotStale, PointersCreated, SlotsMatch
<1>11. NoLeak'
  <2> SUFFICES ASSUME NEW j \in Id, slot'[j] # None, sess'[slot'[j]].state = "INACTIVE"
               PROVE  \/ listener'.step = "unlink" /\ listener'.session = slot'[j]
                      \/ \E d \in Caller : caller'[d].step = "created" /\ Current(d)' = slot'[j]
    BY DEF NoLeak
  <2>1. CASE j = i
    BY <1>3, <1>4, <1>5, <2>1 DEF Current
  <2>2. CASE j # i
    <3>1. slot[j] \in Session /\ slot'[j] = slot[j] /\ sess'[slot[j]] = sess[slot[j]]
      BY <1>5, <2>2 DEF TypeOK
    <3>2. \/ listener.step = "unlink" /\ listener.session = slot[j]
          \/ \E d \in Caller : caller[d].step = "created" /\ Current(d) = slot[j]
      BY <3>1 DEF NoLeak
    <3> QED BY <1>2, <1>4, <3>1, <3>2 DEF Current
  <2> QED BY <2>1, <2>2
<1> QED BY <1>7, <1>8, <1>9, <1>10, <1>11

\* A caller's step that leaves the table, the sessions and the creators alone.
LEMMA QuietCallerStep ==
    ASSUME IInv, NEW c \in Caller, UNCHANGED <<slot, sess, listener>>,
           toDu' \in Seq(UlSm), Len(toDu') <= ChanCap,
           caller' \in [Caller -> [step : CallerSteps, todo : Seq(Session)]],
           \A d \in Caller :
                 /\ caller'[d].step # "idle" => caller'[d].todo # <<>>
                 /\ \A k \in DOMAIN caller'[d].todo : Created(caller'[d].todo[k]),
           caller[c].step # "created",
           \A d \in Caller \ {c} : caller'[d] = caller[d]
    PROVE  IInv'
<1> USE DEF IInv
<1>1. TypeOK'
  BY DEF TypeOK
<1>2. PointersCreated'
  BY DEF PointersCreated, Created
<1>3. SlotsMatch' /\ ListenerNotStale'
  BY DEF SlotsMatch, ListenerNotStale
<1>4. NoLeak'
  BY DEF NoLeak, Current
<1> QED BY <1>1, <1>2, <1>3, <1>4

\* A caller's step that changes the state of its session to one other than
\* INACTIVE.
LEMMA MarkStep ==
    ASSUME IInv, NEW c \in Caller, caller[c].step # "idle",
           NEW st \in States \ {"INACTIVE"}, SetState(Current(c), st),
           NEW next \in CallerSteps, Goto(c, next, caller[c].todo),
           UNCHANGED <<slot, listener, toDu>>
    PROVE  IInv'
<1> USE DEF IInv
<1> DEFINE s == Current(c)
<1>1. s \in Session /\ Created(s)
  BY CurrentCreated
<1> HIDE DEF s
<1>2. /\ sess' \in [Session -> [new : BOOLEAN, id : Id \cup {None}, state : States]]
      /\ sess'[s].state = st
      /\ \A r \in Session : sess'[r].new = sess[r].new /\ sess'[r].id = sess[r].id
      /\ \A r \in Session \ {s} : sess'[r] = sess[r]
  BY <1>1, SetStateKeeps DEF s
<1>3. /\ caller' \in [Caller -> [step : CallerSteps, todo : Seq(Session)]]
      /\ \A d \in Caller :
            /\ caller'[d].step # "idle" => caller'[d].todo # <<>>
            /\ \A k \in DOMAIN caller'[d].todo : Created(caller'[d].todo[k])
      /\ \A d \in Caller \ {c} : caller'[d] = caller[d]
  BY GotoCaller
<1>4. TypeOK'
  BY <1>2, <1>3 DEF TypeOK
<1>5. PointersCreated'
  <2>1. ASSUME NEW d \in Caller
        PROVE  \A k \in DOMAIN caller'[d].todo : Created(caller[d].todo[k])'
    <3>1. caller'[d].todo \in Seq(Session)
      BY <1>3
    <3>2. \A k \in DOMAIN caller'[d].todo : caller'[d].todo[k] \in Session
      BY <3>1
    <3> QED BY <1>2, <1>3, <3>2 DEF Created
  <2> QED BY <1>3, <2>1 DEF PointersCreated
<1>6. SlotsMatch'
  BY <1>2 DEF SlotsMatch, TypeOK
<1>7. ListenerNotStale'
  BY <1>2 DEF ListenerNotStale, PointersCreated
<1>8. NoLeak'
  <2> SUFFICES ASSUME NEW j \in Id, slot[j] # None, sess'[slot[j]].state = "INACTIVE"
               PROVE  \/ listener.step = "unlink" /\ listener.session = slot[j]
                      \/ \E d \in Caller : caller'[d].step = "created" /\ Current(d)' = slot[j]
    BY DEF NoLeak
  <2>1. slot[j] \in Session \ {s} /\ sess'[slot[j]] = sess[slot[j]]
    BY <1>2 DEF TypeOK
  <2>2. CASE listener.step = "unlink" /\ listener.session = slot[j]
    BY <2>2
  <2>3. ASSUME NEW d \in Caller, caller[d].step = "created", Current(d) = slot[j]
        PROVE  caller'[d].step = "created" /\ Current(d)' = slot[j]
    <3>1. d # c
      BY <2>1, <2>3 DEF s
    <3> QED BY <1>3, <2>3, <3>1 DEF Current
  <2> QED BY <2>1, <2>2, <2>3 DEF NoLeak
<1> QED BY <1>4, <1>5, <1>6, <1>7, <1>8

\* The listener's step that looks a session up, or sends a Release Complete.
LEMMA ListenStep ==
    ASSUME IInv, UNCHANGED <<slot, sess, caller>>,
           toDu' \in Seq(UlSm), Len(toDu') <= ChanCap,
           NEW step \in ListenerSteps \ {"idle"}, NEW s \in Session, NEW p \in Pti,
           Listen(step, s, p),
           \E i \in Id : slot[i] = s,
           listener.step # "unlink"
    PROVE  IInv'
<1> USE DEF IInv
<1>1. listener' = [step |-> step, session |-> s, pti |-> p]
  BY DEF Listen
<1>2. TypeOK'
  BY <1>1 DEF TypeOK
<1>3. PointersCreated'
  BY <1>1 DEF PointersCreated, Created
<1>4. SlotsMatch'
  BY DEF SlotsMatch
<1>5. ListenerNotStale'
  BY <1>1, IdAssumption DEF SlotsMatch, ListenerNotStale
<1>6. NoLeak'
  BY DEF NoLeak, Current
<1> QED BY <1>2, <1>3, <1>4, <1>5, <1>6

\* SetActive, and SetInactive followed by the unlinking: the listener changes
\* the state of its session.
LEMMA ListenerStateStep ==
    ASSUME IInv, SetActive \/ SetInactive
    PROVE  IInv'
<1> USE DEF IInv
<1> DEFINE s == listener.session
<1>1. s \in Session /\ listener.step # "idle" /\ listener.step # "unlink"
  BY DEF SetActive, SetInactive, PointersCreated
<1> HIDE DEF s
<1>2. PICK st \in States :
        /\ SetState(s, st)
        /\ st = "INACTIVE" => listener'.step = "unlink" /\ listener'.session = s
  BY DEF SetActive, SetInactive, Listen, States, s
<1>3. /\ sess' \in [Session -> [new : BOOLEAN, id : Id \cup {None}, state : States]]
      /\ sess'[s].state = st
      /\ \A r \in Session : sess'[r].new = sess[r].new /\ sess'[r].id = sess[r].id
      /\ \A r \in Session \ {s} : sess'[r] = sess[r]
  BY <1>1, <1>2, SetStateKeeps
<1>4. /\ UNCHANGED <<slot, caller, toDu>>
      /\ listener' \in [step : ListenerSteps, session : Session \cup {None}, pti : Pti]
      /\ listener'.step # "idle" => listener'.session = s
  BY <1>1, PtiAssumption DEF SetActive, SetInactive, Listen, ListenerSteps, TypeOK, s
<1>5. TypeOK'
  BY <1>3, <1>4 DEF TypeOK
<1>6. PointersCreated'
  <2>1. ASSUME NEW d \in Caller
        PROVE  \A k \in DOMAIN caller[d].todo : Created(caller[d].todo[k])'
    <3>1. caller[d].todo \in Seq(Session)
      BY DEF TypeOK
    <3>2. \A k \in DOMAIN caller[d].todo : caller[d].todo[k] \in Session
      BY <3>1
    <3> QED BY <1>3, <1>4, <3>2 DEF PointersCreated, Created
  <2> QED BY <1>1, <1>4, <2>1 DEF PointersCreated
<1>7. SlotsMatch'
  BY <1>3, <1>4 DEF SlotsMatch, TypeOK
<1>8. ListenerNotStale'
  BY <1>1, <1>3, <1>4 DEF ListenerNotStale, s
<1>9. NoLeak'
  <2> SUFFICES ASSUME NEW j \in Id, slot[j] # None, sess'[slot[j]].state = "INACTIVE"
               PROVE  \/ listener'.step = "unlink" /\ listener'.session = slot[j]
                      \/ \E d \in Caller : caller[d].step = "created" /\ Current(d) = slot[j]
    BY <1>4 DEF NoLeak, Current
  <2>1. CASE slot[j] = s
    BY <1>2, <1>3, <2>1
  <2>2. CASE slot[j] # s
    BY <1>1, <1>3, <2>2 DEF NoLeak, TypeOK
  <2> QED BY <2>1, <2>2
<1> QED BY <1>5, <1>6, <1>7, <1>8, <1>9

\* releasePduSession empties the slot of the very session the listener holds.
LEMMA ReleaseStep ==
    ASSUME IInv, ReleasePduSession
    PROVE  IInv'
<1> USE DEF IInv
<1>1. PICK i \in Id : slot[i] = listener.session /\ sess[listener.session].id = i
  BY DEF ReleasePduSession, ListenerNotStale
<1>2. /\ slot' = [slot EXCEPT ![i] = None]
      /\ listener' = [step |-> "idle", session |-> None, pti |-> 1]
      /\ UNCHANGED <<sess, caller, toDu>>
  BY <1>1 DEF ReleasePduSession, Listen
<1>3. slot'[i] = None /\ \A j \in Id \ {i} : slot'[j] = slot[j]
  BY <1>2 DEF TypeOK
<1>4. TypeOK'
  BY <1>2, PtiAssumption DEF TypeOK, ListenerSteps
<1>5. PointersCreated' /\ ListenerNotStale'
  BY <1>2 DEF PointersCreated, Created, ListenerNotStale
<1>6. SlotsMatch'
  BY <1>2, <1>3 DEF SlotsMatch
<1>7. NoLeak'
  <2> SUFFICES ASSUME NEW j \in Id, slot'[j] # None, sess[slot'[j]].state = "INACTIVE"
               PROVE  \E d \in Caller : caller[d].step = "created" /\ Current(d) = slot'[j]
    BY <1>2 DEF NoLeak, Current
  <2>1. j # i /\ slot'[j] = slot[j]
    BY <1>3
  <2>2. slot[j] # listener.session
    BY <1>1, <2>1 DEF SlotsMatch
  <2> QED BY <2>1, <2>2 DEF NoLeak
<1> QED BY <1>4, <1>5, <1>6, <1>7

\* A caller's step other than the creation of a session.
LEMMA CallerStepKeeps ==
    ASSUME IInv, NEW c \in Caller, CallerStep(c) \/ DropRequest(c)
    PROVE  IInv'
<1> USE DEF IInv
<1>1. CASE SetActivePending(c)
  <2>1. "request" \in CallerSteps /\ "ACTIVE_PENDING" \in States \ {"INACTIVE"}
    BY DEF CallerSteps, States
  <2> QED BY <1>1, <2>1, MarkStep DEF SetActivePending
<1>2. CASE SetInactivePending(c)
  <2>1. "release" \in CallerSteps /\ "INACTIVE_PENDING" \in States \ {"INACTIVE"}
    BY DEF CallerSteps, States
  <2> QED BY <1>2, <2>1, MarkStep DEF SetInactivePending
<1>3. CASE SendEstablishmentRequest(c) \/ SendReleaseRequest(c)
  <2>1. /\ caller[c].step # "idle" /\ caller[c].step # "created"
        /\ Continue(c)
        /\ UNCHANGED <<slot, sess, listener>>
        /\ \/ SendN1Sm("EstablishmentRequest", Current(c), 1)
           \/ SendN1Sm("ReleaseRequest", Current(c), 1)
    BY <1>3 DEF SendEstablishmentRequest, SendReleaseRequest
  <2>2. Current(c) \in Session /\ sess[Current(c)].id \in Id
    BY <2>1, CurrentCreated DEF Created
  <2>3. toDu \in Seq(UlSm) /\ Len(toDu) <= ChanCap
    BY DEF TypeOK
  <2>4. toDu' \in Seq(UlSm) /\ Len(toDu') <= ChanCap
    BY <2>1, <2>2, <2>3, SendType, PtiAssumption
  <2> HIDE DEF IInv
  <2>5. TypeOK /\ PointersCreated
    BY DEF IInv
  <2> QED BY <2>1, <2>4, <2>5, ContinueCaller, QuietCallerStep
<1>4. CASE CheckActive(c) \/ DropRequest(c)
  <2>1. /\ caller[c].step # "idle" /\ caller[c].step # "created"
        /\ UNCHANGED <<slot, sess, listener, toDu>>
        /\ Continue(c) \/ Goto(c, "mark", caller[c].todo)
    BY <1>4 DEF CheckActive, DropRequest
  <2>2. toDu' \in Seq(UlSm) /\ Len(toDu') <= ChanCap
    BY <2>1 DEF TypeOK
  <2> HIDE DEF IInv
  <2>3. TypeOK /\ PointersCreated /\ "mark" \in CallerSteps
    BY DEF IInv, CallerSteps
  <2>4. CASE Continue(c)
    BY <2>1, <2>2, <2>3, <2>4, ContinueCaller, QuietCallerStep
  <2>5. CASE Goto(c, "mark", caller[c].todo)
    BY <2>1, <2>2, <2>3, <2>5, GotoCaller, QuietCallerStep
  <2> QED BY <2>1, <2>4, <2>5
<1> QED BY <1>1, <1>2, <1>3, <1>4 DEF CallerStep

\* An idle caller takes a list of sessions from the table.
LEMMA StartStep ==
    ASSUME IInv, NEW c \in Caller, caller[c].step = "idle",
           NEW list \in Seq(Session), list # <<>>,
           \A k \in DOMAIN list : Created(list[k]),
           Goto(c, "check", list), UNCHANGED <<slot, sess, listener, toDu>>
    PROVE  IInv'
<1>1. TypeOK /\ PointersCreated /\ "check" \in CallerSteps
  BY DEF IInv, CallerSteps
<1>2. /\ caller' \in [Caller -> [step : CallerSteps, todo : Seq(Session)]]
      /\ caller'[c] = [step |-> "check", todo |-> list]
      /\ \A d \in Caller \ {c} : caller'[d] = caller[d]
  BY <1>1, StartCaller
<1>3. ASSUME NEW d \in Caller
      PROVE  /\ caller'[d].step # "idle" => caller'[d].todo # <<>>
             /\ \A k \in DOMAIN caller'[d].todo : Created(caller'[d].todo[k])
  <2>1. CASE d = c
    <3>1. caller'[d].todo = list
      BY <1>2, <2>1
    <3> QED BY <3>1
  <2>2. CASE d # c
    <3>1. caller'[d] = caller[d]
      BY <1>2, <2>2
    <3> QED BY <1>1, <3>1 DEF PointersCreated
  <2> QED BY <2>1, <2>2
<1>4. toDu' \in Seq(UlSm) /\ Len(toDu') <= ChanCap
  BY <1>1 DEF TypeOK
<1> QED BY <1>2, <1>3, <1>4, QuietCallerStep

LEMMA LookUpSteps ==
    ASSUME IInv, NEW c \in Caller, LookUp(c) \/ LookUpAll(c)
    PROVE  IInv'
<1>1. CASE LookUp(c)
  <2>1. PICK i \in Id : slot[i] # None /\ Goto(c, "check", <<slot[i]>>)
    BY <1>1 DEF LookUp
  <2>2. slot[i] \in Session /\ Created(slot[i])
    BY <2>1 DEF IInv, TypeOK, SlotsMatch, Created
  <2> DEFINE list == <<slot[i]>>
  <2>3. list \in Seq(Session) /\ list # <<>> /\ \A k \in DOMAIN list : Created(list[k])
    BY <2>2
  <2> HIDE DEF list
  <2> QED BY <1>1, <2>1, <2>3, StartStep DEF LookUp, list
<1>2. CASE LookUpAll(c)
  <2>1. PICK n \in 1 .. Cardinality(Id) : \E ids \in [1 .. n -> ActiveIds] :
            Goto(c, "check", [k \in 1 .. n |-> slot[ids[k]]])
    BY <1>2 DEF LookUpAll
  <2>2. PICK ids \in [1 .. n -> ActiveIds] :
            Goto(c, "check", [k \in 1 .. n |-> slot[ids[k]]])
    BY <2>1
  <2>3. n \in Nat /\ n >= 1
    BY FS_CardinalityType, IdAssumption
  <2>4. \A i \in ActiveIds : slot[i] \in Session /\ Created(slot[i])
    BY DEF IInv, TypeOK, SlotsMatch, Created, ActiveIds
  <2> DEFINE list == [k \in 1 .. n |-> slot[ids[k]]]
  <2>5. list \in [1 .. n -> Session] /\ \A k \in 1 .. n : Created(list[k])
    BY <2>4
  <2>6. list \in Seq(Session) /\ list # <<>> /\ DOMAIN list = 1 .. n
    BY <2>3, <2>5
  <2>7. Goto(c, "check", list)
    BY <2>2
  <2> HIDE DEF list
  <2> QED BY <1>2, <2>5, <2>6, <2>7, StartStep DEF LookUpAll
<1> QED BY <1>1, <1>2

\* The listener receives a message about a session of the table.
LEMMA ReceiveSteps ==
    ASSUME IInv, ReceiveAccept \/ ReceiveReject \/ ReceiveReleaseCommand
    PROVE  IInv'
<1>1. PICK i \in Id, p \in Pti, step \in {"activate", "deactivate", "complete"} :
          slot[i] # None /\ Listen(step, slot[i], p)
  BY PtiAssumption DEF ReceiveAccept, ReceiveReject, ReceiveReleaseCommand
<1>2. /\ UNCHANGED <<slot, sess, caller, toDu>>
      /\ listener.step # "unlink"
  BY DEF ReceiveAccept, ReceiveReject, ReceiveReleaseCommand
<1>3. slot[i] \in Session /\ toDu' \in Seq(UlSm) /\ Len(toDu') <= ChanCap
  BY <1>1, <1>2 DEF IInv, TypeOK
<1>4. step \in ListenerSteps \ {"idle"}
  BY DEF ListenerSteps
<1> QED BY <1>1, <1>2, <1>3, <1>4, ListenStep

LEMMA CompleteStep ==
    ASSUME IInv, SendReleaseComplete \/ DropReleaseComplete
    PROVE  IInv'
<1> DEFINE s == listener.session
<1>1. PICK i \in Id : slot[i] = s /\ sess[s].id = i
  BY DEF IInv, ListenerNotStale, SendReleaseComplete, DropReleaseComplete
<1>2. s \in Session /\ listener.pti \in Pti /\ toDu \in Seq(UlSm) /\ Len(toDu) <= ChanCap
  BY DEF IInv, TypeOK, PointersCreated, SendReleaseComplete, DropReleaseComplete
<1>3. /\ UNCHANGED <<slot, sess, caller>>
      /\ listener.step # "unlink"
      /\ SendN1Sm("ReleaseComplete", s, listener.pti) \/ UNCHANGED toDu
      /\ Listen("deactivate", s, listener.pti)
      /\ "deactivate" \in ListenerSteps \ {"idle"}
  BY DEF SendReleaseComplete, DropReleaseComplete, ListenerSteps
<1> HIDE DEF s
<1>4. toDu' \in Seq(UlSm) /\ Len(toDu') <= ChanCap
  BY <1>1, <1>2, <1>3, SendType
<1> QED BY <1>1, <1>2, <1>3, <1>4, ListenStep

\* The DU only drains the channel.
LEMMA QuietStep ==
    ASSUME IInv, DuReceives \/ UNCHANGED vars
    PROVE  IInv'
<1>1. UNCHANGED <<slot, sess, caller, listener>>
  BY DEF DuReceives, vars
<1>2. toDu' \in Seq(UlSm) /\ Len(toDu') <= ChanCap
  <2>1. toDu \in Seq(UlSm) /\ Len(toDu) <= ChanCap
    BY DEF IInv, TypeOK
  <2>2. CASE toDu # <<>> /\ toDu' = Tail(toDu)
    <3>1. toDu' \in Seq(UlSm) /\ Len(toDu') = Len(toDu) - 1 /\ Len(toDu) \in Nat
      BY <2>1, <2>2
    <3> QED BY <2>1, <3>1, ChanAssumption
  <2>3. CASE toDu' = toDu
    BY <2>1, <2>3
  <2> QED BY <2>2, <2>3 DEF DuReceives, vars
<1> QED BY <1>1, <1>2
    DEF IInv, TypeOK, PointersCreated, Created, SlotsMatch, ListenerNotStale, NoLeak, Current

------------------------------------------------------------------------------
(* The theorems                                                             *)

LEMMA Invariance == Spec => []IInv
<1>1. Init => IInv
  <2> SUFFICES ASSUME Init PROVE IInv
    OBVIOUS
  <2>1. TypeOK
    BY PtiAssumption, ChanAssumption
    DEF Init, TypeOK, States, CallerSteps, ListenerSteps
  <2>2. PointersCreated
    BY DEF Init, PointersCreated
  <2>3. SlotsMatch /\ ListenerNotStale /\ NoLeak
    BY DEF Init, SlotsMatch, ListenerNotStale, NoLeak
  <2> QED BY <2>1, <2>2, <2>3 DEF IInv
<1>2. IInv /\ [Next]_vars => IInv'
  <2> SUFFICES ASSUME IInv, [Next]_vars PROVE IInv'
    OBVIOUS
  <2>1. ASSUME NEW c \in Caller, CreatePDUSession(c) \/ LookUp(c) \/ LookUpAll(c)
                                \/ CallerStep(c) \/ DropRequest(c)
        PROVE  IInv'
    BY <2>1, CreateStep, LookUpSteps, CallerStepKeeps
  <2>2. CASE ReceiveAccept \/ ReceiveReject \/ ReceiveReleaseCommand
    BY <2>2, ReceiveSteps
  <2>3. CASE ListenerStep \/ DropReleaseComplete
    BY <2>3, ListenerStateStep, CompleteStep, ReleaseStep DEF ListenerStep
  <2>4. CASE DuReceives \/ UNCHANGED vars
    BY <2>4, QuietStep
  <2> QED BY <2>1, <2>2, <2>3, <2>4 DEF Next
<1> QED BY <1>1, <1>2, PTL DEF Spec

\* Every value the table, the goroutines and the channel take is of its type,
\* for any number of identities, sessions and callers.
THEOREM TypeCorrect == Spec => []TypeOK
BY Invariance, PTL DEF IInv

\* handlePduSessionReleaseCommand and handlePduSessionEstablishmentReject
\* look a session up, drop ue.mutex, and unlink it later by its identity: no
\* interleaving with callers makes them unlink another session.
THEOREM ListenerCorrect == Spec => []ListenerNotStale
BY Invariance, PTL DEF IInv

\* Each identity of the table names its own session, and none is leaked: an
\* inactive session in the table has a goroutine that is about to move it on.
THEOREM TableCorrect == Spec => [](SlotsMatch /\ NoLeak)
<1>1. IInv => SlotsMatch /\ NoLeak
  BY DEF IInv
<1> QED BY <1>1, Invariance, PTL
=============================================================================

----------------------------- MODULE PduSessions -----------------------------
(***************************************************************************)
(* The UE's PDU session table (uecontext/pdu_session.go,                   *)
(* trigger_pdu_session.go, handle_n1sm.go).                                *)
(*                                                                         *)
(* Two kinds of goroutine touch it: any number of callers that establish   *)
(* and release sessions, and the one RRC listener that handles the         *)
(* network's 5GSM messages.  ue.mutex guards the table, each session's     *)
(* mutex guards its state, and nothing guards the steps between the locks: *)
(* each action below is one critical section or one channel operation.     *)
(*                                                                         *)
(* A session is a Go object.  Callers keep pointers to sessions that the   *)
(* listener may meanwhile have taken out of the table.                     *)
(***************************************************************************)
EXTENDS Naturals, FiniteSets, Sequences

CONSTANTS
    Id,         \* PDU session identities (1 .. 15)
    Session,    \* session objects, numbered in the order of their creation:
                \* as many as the run may create
    Caller,     \* goroutines that call Trigger...PduSession
    Pti,        \* procedure transaction identities; 1 is the only one used
    ChanCap,    \* capacity of SendToDuChannel
    None

ASSUME IdAssumption ==
    /\ Id \subseteq Nat
    /\ IsFiniteSet(Id)
    /\ Session \subseteq Nat
    /\ None \notin Session \cup Id
ASSUME PtiAssumption == 1 \in Pti
ASSUME ChanAssumption == ChanCap \in Nat \ {0}

VARIABLES
    slot,      \* ue.sessions
    sess,      \* of each object: whether it exists, its id and its state
    caller,    \* of each caller: what it does next and the sessions it does it to
    listener,  \* what the listener does next, to which session, on what PTI
    toDu       \* SendToDuChannel

vars == <<slot, sess, caller, listener, toDu>>

States == {"INACTIVE", "ACTIVE_PENDING", "ACTIVE", "INACTIVE_PENDING"}
CallerSteps == {"idle", "created", "request", "check", "mark", "release"}
ListenerSteps == {"idle", "activate", "deactivate", "complete", "unlink"}
\* cmdPti: the PTI of the message this one answers, if it answers one.
UlSm == [type : {"EstablishmentRequest", "ReleaseRequest", "ReleaseComplete"},
         id : Id, pti : Pti, cmdPti : Pti]

TypeOK ==
    /\ slot \in [Id -> Session \cup {None}]
    /\ sess \in [Session -> [new : BOOLEAN, id : Id \cup {None}, state : States]]
    /\ caller \in [Caller -> [step : CallerSteps, todo : Seq(Session)]]
    /\ listener \in [step : ListenerSteps, session : Session \cup {None}, pti : Pti]
    /\ toDu \in Seq(UlSm)
    /\ Len(toDu) <= ChanCap

Init ==
    /\ slot = [i \in Id |-> None]
    /\ sess = [s \in Session |-> [new |-> TRUE, id |-> None, state |-> "INACTIVE"]]
    /\ caller = [c \in Caller |-> [step |-> "idle", todo |-> <<>>]]
    /\ listener = [step |-> "idle", session |-> None, pti |-> 1]
    /\ toDu = <<>>

------------------------------------------------------------------------------
(* Primitives                                                               *)

SetState(s, st) == sess' = [sess EXCEPT ![s].state = st]

\* A send that does not wait for room in the channel.
Bug_SendN1Sm(type, s, cmdPti) ==
    toDu' = Append(toDu, [type |-> type, id |-> sess[s].id, pti |-> 1, cmdPti |-> cmdPti])

\* sendN1Sm: the send blocks while the channel is full.
SendN1Sm(type, s, cmdPti) ==
    /\ Len(toDu) < ChanCap
    /\ toDu' = Append(toDu, [type |-> type, id |-> sess[s].id,
                             pti |-> 1, cmdPti |-> cmdPti])

DuReceives ==
    /\ toDu # <<>>
    /\ toDu' = Tail(toDu)
    /\ UNCHANGED <<slot, sess, caller, listener>>

Goto(c, step, todo) == caller' = [caller EXCEPT ![c] = [step |-> step, todo |-> todo]]

\* The session a caller works on.
Current(c) == Head(caller[c].todo)

\* A loop that does not move on to the next session.
Bug_Continue(c) == Goto(c, "check", caller[c].todo)

\* What it does when it is done with that one.
Continue(c) ==
    LET rest == Tail(caller[c].todo)
    IN  Goto(c, IF rest = <<>> THEN "idle" ELSE "check", rest)

------------------------------------------------------------------------------
(* Establishment: createPDUSession under ue.mutex, then SetState, then send *)

\* The lowest identity whose slot is empty.
FreeId(i) ==
    /\ slot[i] = None
    /\ \A j \in Id : slot[j] = None => i <= j

\* No identity free: the call returns an error and changes nothing.
CreatePDUSession(c) ==
    /\ caller[c].step = "idle"
    /\ \E i \in Id, s \in Session :
          /\ FreeId(i)
          /\ sess[s].new
          /\ \A r \in Session : sess[r].new => s <= r
          /\ sess' = [sess EXCEPT ![s] = [new |-> FALSE, id |-> i, state |-> "INACTIVE"]]
          /\ slot' = [slot EXCEPT ![i] = s]
          /\ Goto(c, "created", <<s>>)
    /\ UNCHANGED <<listener, toDu>>

SetActivePending(c) ==
    /\ caller[c].step = "created"
    /\ SetState(Current(c), "ACTIVE_PENDING")
    /\ Goto(c, "request", caller[c].todo)
    /\ UNCHANGED <<slot, listener, toDu>>

SendEstablishmentRequest(c) ==
    /\ caller[c].step = "request"
    /\ SendN1Sm("EstablishmentRequest", Current(c), 1)
    /\ Continue(c)
    /\ UNCHANGED <<slot, sess, listener>>

\* sendN1Sm cannot encode the request and drops it; the caller goes on.
DropRequest(c) ==
    /\ caller[c].step \in {"request", "release"}
    /\ Continue(c)
    /\ UNCHANGED <<slot, sess, listener, toDu>>

------------------------------------------------------------------------------
(* Release by a caller                                                      *)

\* TriggerReleasePduSession: an empty slot is only a warning.
LookUp(c) ==
    /\ caller[c].step = "idle"
    /\ \E i \in Id : slot[i] # None /\ Goto(c, "check", <<slot[i]>>)
    /\ UNCHANGED <<slot, sess, listener, toDu>>

\* TriggerReleaseAllPduSessions: the active sessions in order of identity.
ActiveIds == {i \in Id : slot[i] # None /\ sess[slot[i]].state = "ACTIVE"}

LookUpAll(c) ==
    /\ caller[c].step = "idle"
    /\ \E n \in 1 .. Cardinality(Id) : \E ids \in [1 .. n -> ActiveIds] :
          /\ ActiveIds = {ids[k] : k \in 1 .. n}
          /\ \A k \in 2 .. n : ids[k - 1] < ids[k]
          /\ Goto(c, "check", [k \in 1 .. n |-> slot[ids[k]]])
    /\ UNCHANGED <<slot, sess, listener, toDu>>

CheckActive(c) ==
    /\ caller[c].step = "check"
    /\ IF sess[Current(c)].state = "ACTIVE"
       THEN Goto(c, "mark", caller[c].todo)
       ELSE Continue(c)
    /\ UNCHANGED <<slot, sess, listener, toDu>>

SetInactivePending(c) ==
    /\ caller[c].step = "mark"
    /\ SetState(Current(c), "INACTIVE_PENDING")
    /\ Goto(c, "release", caller[c].todo)
    /\ UNCHANGED <<slot, listener, toDu>>

\* A caller that frees the identity as soon as it has asked for the release.
Bug_SendReleaseRequest(c) ==
    /\ caller[c].step = "release"
    /\ SendN1Sm("ReleaseRequest", Current(c), 1)
    /\ slot' = [slot EXCEPT ![sess[Current(c)].id] = None]
    /\ Continue(c)
    /\ UNCHANGED <<sess, listener>>

SendReleaseRequest(c) ==
    /\ caller[c].step = "release"
    /\ SendN1Sm("ReleaseRequest", Current(c), 1)
    /\ Continue(c)
    /\ UNCHANGED <<slot, sess, listener>>

------------------------------------------------------------------------------
(* The listener.  A message about an unknown session is dropped, as is an   *)
(* Accept with a PTI other than 1 or a session type other than IPv4.        *)

Listen(step, s, pti) == listener' = [step |-> step, session |-> s, pti |-> pti]

ReceiveAccept ==
    /\ listener.step = "idle"
    /\ \E i \in Id : slot[i] # None /\ Listen("activate", slot[i], 1)
    /\ UNCHANGED <<slot, sess, caller, toDu>>

\* Whatever state the session was in.
SetActive ==
    /\ listener.step = "activate"
    /\ SetState(listener.session, "ACTIVE")
    /\ Listen("idle", None, 1)
    /\ UNCHANGED <<slot, caller, toDu>>

ReceiveReject ==
    /\ listener.step = "idle"
    /\ \E i \in Id : slot[i] # None /\ Listen("deactivate", slot[i], 1)
    /\ UNCHANGED <<slot, sess, caller, toDu>>

\* A session that is already inactive is left alone.
MayComplete(s) == sess[s].state # "INACTIVE"

\* handlePduSessionReleaseCommand, up to the test of the session's state.
ReceiveReleaseCommand ==
    /\ listener.step = "idle"
    /\ \E i \in Id, p \in Pti :
          /\ slot[i] # None
          /\ MayComplete(slot[i])
          /\ Listen("complete", slot[i], p)
    /\ UNCHANGED <<slot, sess, caller, toDu>>

SendReleaseComplete ==
    /\ listener.step = "complete"
    /\ SendN1Sm("ReleaseComplete", listener.session, listener.pti)
    /\ Listen("deactivate", listener.session, listener.pti)
    /\ UNCHANGED <<slot, sess, caller>>

DropReleaseComplete ==
    /\ listener.step = "complete"
    /\ Listen("deactivate", listener.session, listener.pti)
    /\ UNCHANGED <<slot, sess, caller, toDu>>

SetInactive ==
    /\ listener.step = "deactivate"
    /\ SetState(listener.session, "INACTIVE")
    /\ Listen("unlink", listener.session, listener.pti)
    /\ UNCHANGED <<slot, caller, toDu>>

\* A release that leaves the session in its slot.
Bug_ReleasePduSession ==
    /\ listener.step = "unlink"
    /\ Listen("idle", None, 1)
    /\ UNCHANGED <<slot, sess, caller, toDu>>

\* releasePduSession empties the slot of that identity, whatever it holds.
ReleasePduSession ==
    /\ listener.step = "unlink"
    /\ slot' = [slot EXCEPT ![sess[listener.session].id] = None]
    /\ Listen("idle", None, 1)
    /\ UNCHANGED <<sess, caller, toDu>>

------------------------------------------------------------------------------
CallerStep(c) ==
    \/ SetActivePending(c)
    \/ SendEstablishmentRequest(c)
    \/ CheckActive(c)
    \/ SetInactivePending(c)
    \/ SendReleaseRequest(c)

ListenerStep ==
    \/ SetActive
    \/ SendReleaseComplete
    \/ SetInactive
    \/ ReleasePduSession

Next ==
    \/ \E c \in Caller : CreatePDUSession(c) \/ LookUp(c) \/ LookUpAll(c) \/ CallerStep(c) \/ DropRequest(c)
    \/ ReceiveAccept
    \/ ReceiveReject
    \/ ReceiveReleaseCommand
    \/ ListenerStep
    \/ DropReleaseComplete
    \/ DuReceives

Spec ==
    /\ Init
    /\ [][Next]_vars
    /\ WF_vars(DuReceives)
    /\ SF_vars(ListenerStep)
    /\ \A c \in Caller : SF_vars(CallerStep(c))

------------------------------------------------------------------------------
(* Properties                                                               *)

\* A slot holds a session of its own identity.
SlotsMatch ==
    \A i \in Id : slot[i] # None => ~sess[slot[i]].new /\ sess[slot[i]].id = i

\* The session the listener works on is still in its slot, whatever callers
\* do meanwhile: releasePduSession, which goes by identity, never unlinks a
\* younger session that took over the identity.
ListenerNotStale ==
    listener.step # "idle" =>
        \E i \in Id : slot[i] = listener.session /\ sess[listener.session].id = i

\* No identity is leaked: an inactive session in the table is one its creator
\* is about to make pending, or one the listener is about to unlink.
NoLeak ==
    \A i \in Id : slot[i] # None /\ sess[slot[i]].state = "INACTIVE" =>
        \/ listener.step = "unlink" /\ listener.session = slot[i]
        \/ \E c \in Caller : caller[c].step = "created" /\ Current(c) = slot[i]

\* Every call returns: a full channel or a session that disappears under the
\* caller does not wedge it.
CallsReturn == \A c \in Caller : caller[c].step # "idle" ~> caller[c].step = "idle"

\* A session the network has released leaves the table for good.
ReleaseUnlinks ==
    \A s \in Session :
        listener.step = "complete" /\ listener.session = s
            ~> [](\A i \in Id : slot[i] # s)

\* Release Complete carries the PTI of the command it answers, as
\* trigger_pdu_session.go:92 demands.
ReleaseCompletePti ==
    \A k \in DOMAIN toDu : toDu[k].type = "ReleaseComplete" => toDu[k].pti = toDu[k].cmdPti

\* A caller never marks for release a session that the listener has made
\* inactive: trigger_pdu_session.go:64 lets only an active one pass.
ReleasesOnlyActive ==
    [][\A s \in Session :
          sess[s].state = "INACTIVE" => sess'[s].state # "INACTIVE_PENDING"]_vars
==============================================================================

----------------------------- MODULE DuLifecycle -----------------------------
(***************************************************************************)
(* The life of the DU (internal/du/du.go): Start, Stop, the F1 setup and   *)
(* InitUE, which all hold du.mu, over the F1AP client, with the UE's       *)
(* bring-up (uecontext/init.go) and the loop HandleRrcFromUE.              *)
(*                                                                         *)
(* OnF1SetupResponse keeps du.mu from the test of du.ue until the UE has   *)
(* its first message; messages are forwarded without it.                   *)
(*                                                                         *)
(* The CU-CP is not in the repository.  It answers the F1 setup and the    *)
(* UE's first message, and sends more once the UE is up.  At any time it   *)
(* may send something that is no F1AP message.                             *)
(***************************************************************************)
EXTENDS F1Client, FiniteSets

CONSTANTS
    Caller,   \* goroutines that call Start and Stop
    Free      \* nobody holds du.mu

ASSUME LifecycleAssumption == Free \notin Caller \cup Task /\ Caller \cap Task = {}

VARIABLES
    state,    \* du.State
    mu,       \* who holds du.mu
    ue,       \* du.ue: how far the UE is, isInitialMessage of its loop, and
              \* the channels SendToUeChannel and ReceiveFromUeChannel
    caller,   \* of each caller: next step
    cu,       \* the CU-CP: every message it sent; per association what it
              \* sent and received; Initial ULs; whether it sent a message
              \* before it had the answer to the one before, and whether it
              \* sent anything that is no F1AP message
    exited    \* Logger.Fatal

vars == <<conn, assoc, reader, task, state, mu, ue, caller, cu, exited>>

CuKinds == {"F1SetupResponse", "RRCSetup", "RRCReject", "DLRRCMessageTransfer"}
Received == {"F1SetupRequest", "RRCSetupRequest", "RRCSetupComplete"}
CallerSteps == {"idle", "start", "connect", "send", "stop"}

TypeOK ==
    /\ ClientTypeOK
    /\ state \in {"INACTIVE", "ACTIVE"}
    /\ mu \in Caller \cup Task \cup {Free}
    /\ ue \in [progress : {"nil", "starting", "up", "failed"}, initial : BOOLEAN,
               to : Seq(CuKinds), from : Seq(Received)]
    /\ caller \in [Caller -> CallerSteps]
    /\ cu.sent \in Seq(CuKinds) /\ Len(cu.sent) <= MaxMsgs
    /\ cu.did \in [1 .. Len(assoc) -> SUBSET CuKinds]
    /\ cu.got \in [1 .. Len(assoc) -> SUBSET Received]
    /\ cu.initials \in Nat /\ {cu.ahead, cu.foreign} \subseteq BOOLEAN
    /\ exited \in BOOLEAN

Init ==
    /\ ClientInit
    /\ state = "INACTIVE"
    /\ mu = Free
    /\ ue = [progress |-> "nil", initial |-> TRUE, to |-> <<>>, from |-> <<>>]
    /\ caller = [c \in Caller |-> "idle"]
    /\ cu = [sent |-> <<>>, did |-> <<>>, got |-> <<>>, initials |-> 0,
             ahead |-> FALSE, foreign |-> FALSE]
    /\ exited = FALSE

duVars == <<state, mu, ue, caller, cu, exited>>

------------------------------------------------------------------------------
(* Start and Stop                                                           *)

Go(c, step) == caller' = [caller EXCEPT ![c] = step]

Call(c) ==
    /\ caller[c] = "idle"
    /\ \/ Go(c, "start")
       \/ Go(c, "stop")
    /\ UNCHANGED <<clientVars, state, mu, ue, cu, exited>>

StartLock(c) ==
    /\ caller[c] = "start" /\ mu = Free
    /\ IF state = "INACTIVE" THEN mu' = c /\ Go(c, "connect")
       ELSE Go(c, "idle") /\ UNCHANGED mu
    /\ UNCHANGED <<clientVars, state, ue, cu, exited>>

StartConnect(c) ==
    /\ caller[c] = "connect"
    /\ \/ /\ Connect
          /\ cu' = [cu EXCEPT !.did = Append(@, {}), !.got = Append(@, {})]
          /\ Go(c, "send")
          /\ UNCHANGED mu
       \/ /\ Go(c, "idle") /\ mu' = Free
          /\ UNCHANGED <<clientVars, cu>>
    /\ UNCHANGED <<state, ue, exited>>

\* A Start that brings the UE up beside the F1 setup.
Bug_StartSend(c) ==
    /\ caller[c] = "send"
    /\ IF CanSend
       THEN /\ cu' = [cu EXCEPT !.got[conn] = @ \cup {"F1SetupRequest"}]
            /\ state' = "ACTIVE"
            /\ ue' = [ue EXCEPT !.progress = "starting", !.from = <<"RRCSetupRequest">>]
       ELSE UNCHANGED <<cu, state, ue>>
    /\ Go(c, "idle") /\ mu' = Free
    /\ UNCHANGED <<clientVars, exited>>

\* SendF1SetupRequest.  When it fails, the reader and the association stay.
StartSend(c) ==
    /\ caller[c] = "send"
    /\ IF CanSend
       THEN /\ cu' = [cu EXCEPT !.got[conn] = @ \cup {"F1SetupRequest"}]
            /\ state' = "ACTIVE"
       ELSE UNCHANGED <<cu, state>>
    /\ Go(c, "idle") /\ mu' = Free
    /\ UNCHANGED <<clientVars, ue, exited>>

Stop(c) ==
    /\ caller[c] = "stop" /\ mu = Free
    /\ Close
    /\ state' = "INACTIVE"
    /\ Go(c, "idle")
    /\ UNCHANGED <<mu, ue, cu, exited>>

CallerStep(c) == StartLock(c) \/ StartConnect(c) \/ StartSend(c) \/ Stop(c)

------------------------------------------------------------------------------
(* handleMessage, in a goroutine of its own                                 *)

Step(g, step) == task' = [task EXCEPT ![g].step = step]
Finish(g) == task' = [task EXCEPT ![g] = IdleTask]
Kind(g) == cu.sent[task[g].got]

FirstStep(kind) == IF kind = "F1SetupResponse" THEN "setup" ELSE "forward"

\* Bytes other than those of the one message it was started for may decode to
\* any of the messages among them, to one that is ignored, or not at all.
Decode(g) ==
    /\ task[g].step = "decode"
    /\ \/ \E m \in Bytes(g) \ {Foreign} :
             /\ task' = [task EXCEPT ![g].step = FirstStep(cu.sent[m]), ![g].got = m]
             /\ UNCHANGED exited
       \/ ~Intact(g) /\ Finish(g) /\ UNCHANGED exited
       \/ ~Intact(g) /\ exited' = TRUE /\ UNCHANGED task
    /\ UNCHANGED <<conn, assoc, reader, state, mu, ue, caller, cu>>

\* An OnF1SetupResponse that tries again when the UE did not come up.
Bug_OnF1SetupResponse(g) ==
    /\ task[g].step = "setup" /\ mu = Free
    /\ state' = "ACTIVE"
    /\ IF ue.progress \in {"nil", "failed"}
       THEN /\ mu' = g
            /\ ue' = [progress |-> "starting", initial |-> TRUE, to |-> <<>>, from |-> <<>>]
            /\ Step(g, "init")
       ELSE Finish(g) /\ UNCHANGED <<mu, ue>>
    /\ UNCHANGED <<conn, assoc, reader, caller, cu, exited>>

\* Makes a stopped DU active again.  InitUE sets du.ue and starts
\* HandleRrcFromUE before there is a UE.
OnF1SetupResponse(g) ==
    /\ task[g].step = "setup" /\ mu = Free
    /\ state' = "ACTIVE"
    /\ IF ue.progress = "nil"
       THEN /\ mu' = g
            /\ ue' = [ue EXCEPT !.progress = "starting"]
            /\ Step(g, "init")
       ELSE Finish(g) /\ UNCHANGED <<mu, ue>>
    /\ UNCHANGED <<conn, assoc, reader, caller, cu, exited>>

InitRRCConn(g) ==
    /\ task[g].step = "init"
    /\ ue' = [ue EXCEPT !.from = Append(@, "RRCSetupRequest")]
    /\ Step(g, "await")
    /\ UNCHANGED <<conn, assoc, reader, state, mu, caller, cu, exited>>

\* An InitUE whose caller keeps the mutex when it fails.
Bug_HandleRRCSetup(g) ==
    /\ task[g].step = "await" /\ ue.to # <<>>
    /\ ue' = IF Head(ue.to) = "RRCSetup"
             THEN [ue EXCEPT !.to = Tail(@), !.progress = "up",
                             !.from = Append(@, "RRCSetupComplete")]
             ELSE [ue EXCEPT !.to = Tail(@), !.progress = "failed"]
    /\ mu' = IF Head(ue.to) = "RRCSetup" THEN Free ELSE mu
    /\ Finish(g)
    /\ UNCHANGED <<conn, assoc, reader, state, caller, cu, exited>>

\* InitUE waits without a timeout; only an RRCSetup brings the UE up.
HandleRRCSetup(g) ==
    /\ task[g].step = "await" /\ ue.to # <<>>
    /\ ue' = IF Head(ue.to) = "RRCSetup"
             THEN [ue EXCEPT !.to = Tail(@), !.progress = "up",
                             !.from = Append(@, "RRCSetupComplete")]
             ELSE [ue EXCEPT !.to = Tail(@), !.progress = "failed"]
    /\ mu' = Free
    /\ Finish(g)
    /\ UNCHANGED <<conn, assoc, reader, state, caller, cu, exited>>

\* A DU that forwards only to a UE that is up.
Bug_Forward(g) ==
    /\ task[g].step = "forward"
    /\ ue' = IF ue.progress = "up" THEN [ue EXCEPT !.to = Append(@, Kind(g))] ELSE ue
    /\ Finish(g)
    /\ UNCHANGED <<conn, assoc, reader, state, mu, caller, cu, exited>>

\* HandleDlRrcMessageTransfer, without the mutex.
Forward(g) ==
    /\ task[g].step = "forward"
    /\ ue' = IF ue.progress = "nil" THEN ue ELSE [ue EXCEPT !.to = Append(@, Kind(g))]
    /\ Finish(g)
    /\ UNCHANGED <<conn, assoc, reader, state, mu, caller, cu, exited>>

TaskStep(g) ==
    \/ Decode(g) \/ OnF1SetupResponse(g) \/ InitRRCConn(g) \/ HandleRRCSetup(g)
    \/ Forward(g)

------------------------------------------------------------------------------
(* HandleRrcFromUE, and the UE's listener                                   *)

\* The first message is sent as an Initial UL, or lost.
Uplink ==
    /\ ue.from # <<>>
    /\ IF CanSend
       THEN cu' = [cu EXCEPT !.got[conn] = @ \cup {Head(ue.from)},
                             !.initials = IF ue.initial THEN @ + 1 ELSE @]
       ELSE UNCHANGED cu
    /\ ue' = [ue EXCEPT !.from = Tail(@), !.initial = FALSE]
    /\ UNCHANGED <<clientVars, state, mu, caller, exited>>

\* listenForRrcMessages, from RRCSetup on.
Listen ==
    /\ ue.progress = "up" /\ ue.to # <<>>
    /\ ue' = [ue EXCEPT !.to = Tail(@)]
    /\ UNCHANGED <<clientVars, state, mu, caller, cu, exited>>

------------------------------------------------------------------------------
(* The CU-CP                                                                *)

\* When the CU-CP sends a message on an association.
Due(a, kind) ==
    CASE kind = "F1SetupResponse" -> "F1SetupRequest" \in cu.got[a] /\ kind \notin cu.did[a]
      [] kind \in {"RRCSetup", "RRCReject"} ->
            /\ "RRCSetupRequest" \in cu.got[a] /\ "F1SetupResponse" \in cu.did[a]
            /\ cu.did[a] \cap {"RRCSetup", "RRCReject"} = {}
      [] kind = "DLRRCMessageTransfer" -> {"RRCSetupRequest", "RRCSetupComplete"} \subseteq cu.got[a]

\* It has yet to see the effect of the message before.
Ahead(a, kind) ==
    \/ kind = "F1SetupResponse" /\ "RRCSetupRequest" \in cu.got[a]
    \/ kind \in cu.did[a]

MaySend == Len(cu.sent) + (IF cu.foreign THEN 1 ELSE 0) < MaxMsgs

CuSend(a, kind) ==
    /\ assoc[a].link = "up"
    /\ Due(a, kind)
    /\ MaySend
    /\ cu' = [cu EXCEPT !.sent = Append(@, kind), !.did[a] = @ \cup {kind},
                        !.ahead = @ \/ Ahead(a, kind)]
    /\ assoc' = [assoc EXCEPT ![a].inbox = Append(@, Len(cu.sent) + 1)]
    /\ UNCHANGED <<conn, reader, task, state, mu, ue, caller, exited>>

\* A message with another PPID, once in a run.
CuSendsForeign(a) ==
    /\ assoc[a].link = "up" /\ ~cu.foreign /\ MaySend
    /\ cu' = [cu EXCEPT !.foreign = TRUE]
    /\ assoc' = [assoc EXCEPT ![a].inbox = Append(@, Foreign)]
    /\ UNCHANGED <<conn, reader, task, state, mu, ue, caller, exited>>

CuAnswers(a) == CuSend(a, "F1SetupResponse") \/ CuSend(a, "RRCSetup") \/ CuSend(a, "RRCReject")

------------------------------------------------------------------------------
Next ==
    /\ ~exited
    /\ \/ \E c \in Caller : Call(c) \/ CallerStep(c)
       \/ \E g \in Task : TaskStep(g)
       \/ Uplink \/ Listen
       \/ \E a \in DOMAIN assoc :
             \/ \E kind \in CuKinds : CuSend(a, kind)
             \/ CuSendsForeign(a)
             \/ Lose(a) /\ UNCHANGED duVars
       \/ \E r \in DOMAIN reader : ReaderStep(r) /\ UNCHANGED duVars

Run(action) == ~exited /\ action

\* A mutex and a channel serve those who wait in turn: strong fairness for
\* the goroutines that lock.  The reader and the loop run on; the CU-CP
\* answers on an association that stays up.
Spec ==
    /\ Init
    /\ [][Next]_vars
    /\ \A c \in Caller : SF_vars(Run(CallerStep(c)))
    /\ \A g \in Task : SF_vars(Run(TaskStep(g)))
    /\ WF_vars(Run(Uplink))
    /\ \A n \in 1 .. MaxConns :
          /\ WF_vars(n \in DOMAIN reader /\ Run(ReaderStep(n) /\ UNCHANGED duVars))
          /\ WF_vars(n \in DOMAIN assoc /\ Run(CuAnswers(n)))

------------------------------------------------------------------------------
(* Properties                                                               *)

\* ReadLoop's buffer is shared with the goroutines (f1ap_client.go:159).  As
\* long as the CU-CP waits for its answers and the DU is not started again, no
\* goroutine takes one message for another; and the simulator exits on bytes it
\* cannot decode in one case only: a notification or a message with another
\* PPID has overwritten a message before its goroutine decoded it.
AsReceived ==
    ~cu.ahead /\ Len(assoc) <= 1 =>
        /\ \A g \in Task : task[g].got # 0 => task[g].got = task[g].msg
        /\ exited => \E g \in Task : task[g].step = "decode" /\ Foreign \in Bytes(g)

\* However many setup responses, starts and failures there are, and although
\* du.ue exists before its UE (du.go:78), one UE is announced to the CU-CP;
\* and although the flag for the first message is cleared when the message is
\* lost (du_rrc_handler.go:30), no message of the UE reaches the CU-CP
\* unannounced.
UeMessages(a) == cu.got[a] \ {"F1SetupRequest"}

OneInitialUl ==
    /\ cu.initials <= 1
    /\ \A a \in DOMAIN assoc : UeMessages(a) # {} => cu.initials = 1

\* Start and Stop wait for a mutex that OnF1SetupResponse holds while InitUE
\* blocks (du.go:147).  They get stuck in one case only: the association is
\* lost, or a foreign message overwrites the answer, while the UE waits for its
\* first message.
Awaiting == \E g \in Task : task[g].step = "await"

LockReleased ==
    \A c \in Caller : caller[c] \in {"start", "stop"} ~>
        (caller[c] = "idle" \/ exited \/ (Awaiting /\ (~CanSend \/ cu.foreign)))

\* A setup response ends in a UE that is up or rejected, unless the
\* association goes down meanwhile, or the CU-CP sends what is no F1AP message
\* (du.go:156, init.go:31).
SetupLeadsToUe ==
    (\E g \in Task : task[g].step = "setup") ~>
        (ue.progress \in {"up", "failed"} \/ ~CanSend \/ cu.foreign \/ exited)

\* handleMessage "decodes and handles incoming F1AP messages"
\* (f1ap_client.go:163): those that came in, each as it came in.
HandlesWhatCame == \A g \in Task : task[g].step # "idle" /\ task[g].got # 0 => task[g].got = task[g].msg
==============================================================================

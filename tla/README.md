# A TLA+ model of du-ue

du-ue simulates a 5G base station's distributed unit (DU) and one UE behind it,
to validate a CU-CP. The DU talks F1AP over SCTP to the CU-CP; the UE talks RRC
to the DU over two Go channels and NAS, inside RRC, to the AMF behind the CU-CP.
As it exists to test networks, any message may reach it in any order.

These modules model the parts of the program that decide something. Package
roots below are `src/internal/uecontext` (UE) and `src/internal/du` (DU).

## Inventory

| Component | State | Operations | What is hard | What makes it correct | Module |
|---|---|---|---|---|---|
| UE mobility management and security (`ue.go`, `init.go`, `trigger.go`, `handle_rrc.go`, `handle_n1mm.go`, `auth.go`, `sec/`) | `state`, `guti`, `auth` (ngKSI, RAND, SQN, K_AMF), `secCtx` | RRC bring-up, one handler per NAS message, a goroutine that triggers a PDU session 100 ms after registration | arbitrary message orders, failed challenges, retransmissions, unlocked reads of `secCtx` beside the listener | the context comes from the last accepted challenge; SQN never goes back; both ends agree on the key; nothing but a rejection kills the process | UeContext, Registration, KeyAgreement |
| UE PDU sessions (`pdu_session.go`, `trigger_pdu_session.go`, `handle_n1sm.go`) | table of 15 slots; per session a state | create, release, release all; Accept, Reject, Release Command | two levels of locks, and none between them | no inactive session keeps its identity; nothing younger is unlinked; calls return | PduSessions |
| DU handover (`du_handover_state.go`, `du_rrc_handler.go`, `ue_context_setup.go`, `f1ap_handover.go`, `du_rach.go`) | `hoCtx` role and state; the UE channel; global F1AP identities | measurement reports, handover command, context setup, RACH, completion | one goroutine per F1AP message, a loop for uplink RRC, tests and sets in different critical sections | one trigger, in order, command before execution and never lost, every setup answered | DuHandover, HandoverProtocol |
| UE measurements and handover (`init.go`, `handle_rrc.go`, `ue_handover.go`; `ue_rrc_handler.go` is started by nothing) | the listener's pending answer; the two channels | measurement report, downlink RRC messages, NAS answers | two bounded channels in opposite directions, callers beside the listener | UE and DU agree on A3; a handover command reaches the UE | Handover |
| DU life cycle (`du.go`) | `State`, `ue`, `du.mu` | Start, Stop, F1 setup, InitUE | a mutex held while InitUE blocks; a failed InitUE; late answers | one UE is announced; whoever waits for the mutex gets it; a setup leads to a UE | DuLifecycle |
| F1AP client (`f1ap_client.go`) | SCTP association, read buffer | Connect, Close, ReadLoop, Send | the buffer is shared with the goroutines that decode it, and with reads that are skipped; loss; two ReadLoops after a restart | every message is handled as received | F1Client |
| Encodings (`f1ap_client.go`, `ue_context_setup.go`, `ue_handover.go`, `du_rrc_handler.go`) | none | PLMN identities, RSRP | widths, two encoders of one value | they agree where they should, and invert | Codec |
| Cryptography, configuration, logging, command | | | | | not modelled: symbolic, or no state |

How they interact: `Start` connects and starts `ReadLoop`, which starts a
goroutine per F1AP message. The F1 setup response makes one of them bring up the
UE under `du.mu`. Others put RRC containers into `SendToUeChannel` (100 places).
The UE's listener takes them out, one at a time, and handles the NAS inside;
uplink messages go into `SendToDuChannel` (100 places), from which
`HandleRrcFromUE` takes them, looks for measurement reports and reconfiguration
completions, and sends everything to the CU-CP. The UE's trigger goroutine and
any caller of the exported `Trigger...` functions work beside the listener.

## Modules

| Module | EXTENDS or INSTANCE | Proofs | Model checking |
|---|---|---|---|
| UeContext | | UeContext_proofs | MCUeContext |
| Registration | UeContext; refines KeyAgreement | Registration_proofs | MCRegistration |
| PduSessions | | PduSessions_proofs | MCPduSessions |
| Codec | | Codec_proofs | (by DuHandover and Handover) |
| DuHandover | Codec; refines HandoverProtocol | DuHandover_proofs | MCDuHandover |
| HandoverProtocol | | (as above) | (as above) |
| Handover | DuHandover, which it also refines | Handover_proofs | MCHandover |
| F1Client | | | (by DuLifecycle) |
| DuLifecycle | F1Client | DuLifecycle_proofs, DuReceived_proofs | MCDuLifecycle |

**UeContext** is the UE without its sessions. `phase` is the progress of `InitUE`
and the fate of the process: `Fatal` is `"exited"`, a nil dereference
`"panicked"`. `auth`, `secCtx`, `state`, `guti` are the fields of the same names;
`secCtx.keyed` says that `DeriveKeys` has run. One action per handler:
`HandleNas(m)` for every `m` in `DlNas` is what the listener does with message
`m`. A handler's writes and its send are one step, as the listener runs one
handler at a time; a goroutine's two reads of `secCtx` (`WakeUp`, `FetchContext`,
`getNasContext` at `ue.go:150`) are two. Keys are symbolic: K_AMF, RES* and AUTS
are the pair of RAND and SQN they are computed from. `DropN1Sm` is an encoding
that fails; it is not part of any fairness condition.

**KeyAgreement** is the abstract specification of registration: what either end
may do to the key it holds, and when.

**Registration** adds what the repository leaves to the outside: an AMF with
retransmission (T3560, T3550), re-authentication and resynchronisation, and a
subscriber database that may be restored from a backup. These actions are
external, written from the messages the UE expects and the answers it gives.
Three disturbances are part of the same behaviours: a message overtakes another,
as the DU's goroutines allow; a challenge is computed with a wrong key, so that
its MAC fails (the AMF sends a new one); the AMF answers with Registration or
Authentication Reject. `faults` records which of them have happened, and what can
only hold without them is stated for `Undisturbed` states, in runs that go on to
be disturbed. `KA` is the refinement mapping; a disturbance is KeyAgreement's
`Disturb`, after which it promises nothing.

**PduSessions** is the session table. An action is one critical section or one
channel operation. A session is an object: callers keep pointers to sessions that
the listener may have unlinked. `caller[c].step` and `listener.step` say what
comes next. The network is free: any Accept, Reject or Release Command at any
time. `TriggerReleaseAllPduSessions` takes its list in one step, although the code
reads the states one by one under `ue.mutex`; each session on the list is tested
again (`CheckActive`) before anything is done to it.

**Codec** is the hand-written encodings: the two PLMN encoders digit by digit, the
constant in the F1 setup, RSRP to and from its coded form, and the A3 condition.

**DuHandover** is the handover context, the goroutines started by `ReadLoop`
(`handler[h]`) and the loop `HandleRrcFromUE` (`loop`). Tests and sets of `hoCtx`
are separate steps. A report is a sequence of booleans, one per neighbour:
whether A3 holds for it. `cu.told` collects which PLMN identity the CU-CP was told
where. The initial state is a serving DU, or one prepared as a target through the
exported `SetTargetHandoverState` (nothing in the program itself does that), with
or without a UE channel and a UE that reads it. External assumptions about the
CU-CP: it confirms a required modification once, has one context setup
outstanding, and the UE completes towards a target only after the target's
answer. `HO_STATE_COMPLETION` is never assigned and left out.

**HandoverProtocol** is the abstract specification of a DU's handover, without
goroutines, locks and channels. A DU takes one side of one handover. The source
requires it once, may give it up only before the CU-CP knows of it, and executes
after the UE has its command; the target opens for the UE, then answers, then
completes. `HP` in DuHandover is the refinement mapping: `commanded` counts the
commands put into `SendToUeChannel`, `answered` is a target's admission.

**Handover** puts a UE behind a source DU. Its listener is `listenForRrcMessages`
(`init.go:47`), the one that `InitUE` starts. It handles one message at a time: the
NAS message in a DLInformationTransfer or a reconfiguration may have an answer,
which the listener sends before it receives again (`Answer`), and nothing else has
one: a handover command ends here (`handle_rrc.go:121`). `ul` is `SendToDuChannel`;
`TriggerMeasurement` and `SendNas` are the UE's other goroutines. DuHandover's free
choice of uplink messages becomes what this UE sends, with the strengths it
reports, and `ImplementsDuHandover` says that nothing else changes.

**F1Client** has the association, every `ReadLoop` so far (an old one may live on
after a restart) with its buffer, and the goroutine per message. A message is
copied into the buffer in `Chunks` steps; what a goroutine decodes is what the
buffer holds when it does. `Foreign` stands for what `ReadLoop` skips, the
notifications that `Connect` subscribes to and messages with another PPID: the read
has overwritten some of the buffer all the same (`Overwrite`). **DuLifecycle** is `Start`, `Stop` and the F1 setup,
each of their steps between taking and giving back `du.mu`, the UE's bring-up, and
a CU-CP that answers. `task[g].got` is the message goroutine `g` decoded,
`task[g].msg` the one it was started for.

`MC*.tla` give TLC an instance each; `*_proofs.tla` hold the theorems.

## Runs

| Run | Bounds | Shows |
|---|---|---|
| `ue_nas` (MCUeContext.cfg) | 2 ngKSI values and "no key", 2 RANDs, SQN 0..1, channel of 1, 2 goroutines | under every message at every moment: TypeOK, ContextFromLatestChallenge, SqnNeverDecreases, TriggerFinishes |
| `registration` (MCRegistration.cfg) | any overtaking, failing challenges, rejections; 1 retransmission, 1 re-authentication, 1 restored backup, SQN up to 3, 1 goroutine, channel of 2 | NetTypeOK, DiesOnlyOfRejection; until the first disturbance Agreement, AlwaysAnswered, StaysRegistered, Completes, Implements (refinement of KeyAgreement) |
| `pdu_sessions` (MCPduSessions.cfg) | 2 identities, 2 sessions, 2 callers, channel of 1 | TypeOK, ListenerNotStale, NoLeak, CallsReturn, ReleaseUnlinks |
| `du_handover` (MCDuHandover.cfg) | 2 F1AP messages in flight, reports of up to 2 neighbours, 2 setup requests, channel of 1, the PLMN of config.yml | TypeOK, OneTrigger, CommandKept, CommandExecutes, SetupAnswered, ImplementsProtocol (refinement of HandoverProtocol) |
| `handover` (MCHandover.cfg) | 2 F1AP messages in flight, both channels of 1, -80 and -75 dBm as in the code | HoTypeOK, ReportTriggers, CommandTaken, ImplementsDuHandover |
| `du_lifecycle` (MCDuLifecycle.cfg) | 3 messages, of which 1 may be of another protocol, besides the notifications of a loss, 3 goroutines, 1 caller of Start and Stop, 2 associations, either of which may be lost, messages copied in one step | TypeOK, AsReceived, OneInitialUl, LockReleased, SetupLeadsToUe |
| `smc_ngksi` | as `ue_nas`, 1 goroutine | **violated**: SmcMatchesContext |
| `pdu_release_pti` | 1 session, 2 PTIs | **violated**: ReleaseCompletePti |
| `pdu_release_race` | 1 session, 1 caller | **violated**: ReleasesOnlyActive |
| `handover_role` | 1 message in flight, 1 neighbour | **violated**: TargetPathInTargetRole |
| `plmn_told` | 208-950, as in test/message_test.go | **violated**: PlmnAsTested |
| `f1_torn` | 1 association, 4 messages, copied in two steps | **violated**: HandlesWhatCame |

Why the bounds are enough. Two ngKSI values and two RANDs make a current and a
failed challenge; SQN 0..1 makes older, equal and newer; the channel of one place
is full after every send, so every blocking send occurs. In `registration` the
subscriber may start one above the UE, so that a restore before the one
re-authentication makes a challenge too old and the UE resynchronises. Two
sessions over two identities already include an identity that is used again while
a caller still points to the first session. A handover involves one confirm and one setup, so two handlers show
every pair of them; in `handover` the second is one that takes the place in the
channel, and channels of one place make every sender wait for every other. A
bring-up takes two messages from the CU-CP and one more races with it; two
associations give an old `ReadLoop` beside a new one. Every safety
invariant of the passing runs is also proved for every size.

`CHECK_DEADLOCK FALSE` is set where the system stops: a UE whose first message is
not an RRCSetup or whose process has died, a network that has used up its
retransmissions and re-authentications or has rejected the UE, a table whose supply of sessions is used
up, a DU whose process has exited or whose associations are used up. `du_handover`
and `handover` check deadlock.

Fairness. The DU's loop, the UE's listener, `ReadLoop` and the AMF keep receiving
(weak fairness). A goroutine blocked on a Go channel waits in a FIFO queue and is
served even if others send too, and `sync.Mutex` hands over to whoever has waited
longest; hence strong fairness for the steps of goroutines that send or lock
(`TriggerStep`, `CallerStep`, `ListenerStep`, `HandlerStep`, `Answer`, `TaskStep`;
`UeListens`, whose step includes the answer's send). Of the network it is assumed
that the CU-CP answers on an association that stays up (`CuAnswers`), and that the AMF does what it
receives. Messages beyond that, timers, re-authentications, rejections, restarts,
losses and calls of Start and Stop need not happen, nor need an encoding fail.

## What the violations say

* `handle_n1mm.go:173` compares a Security Mode Command with the ngKSI of the last
  challenge, failed or not, instead of the context's ("check for existing NgKsi",
  line 172). A context can be activated under another's identifier.
* `trigger_pdu_session.go:92` sends PTI 1 although its comment says "Must be same
  as received command message".
* `trigger_pdu_session.go:64` tests the session's state and line 70 changes it, in
  two critical sections: a session that the listener makes inactive in between
  is "released".
* `ue_context_setup.go:25` means to recognise the target DU and tests the state
  only: a source DU in PREPARATION takes that path.
* `f1ap_client.go:241` names the cell by 98 F9 E1 under the comment `99970`, which
  `test/message_test.go:78` encodes as 99 F9 07; and `convertMccMncToPlmn` orders the
  digits of an MNC of three otherwise than `test/message_test.go:84` and
  `ue_context_setup.go:147` do. The CU-CP is told several identities for one cell.
* `f1ap_client.go:159` hands `ReadLoop`'s one buffer to a goroutine and reads the
  next message into it: the goroutine may decode the wrong message, or a mixture.

## Proofs

All theorems hold for all constants that satisfy the modules' named assumptions:
the zero ngKSI is a real identifier and 7 is not, capacities are positive,
identities are a finite set of numbers, PTI 1 exists, `None` is no context, the
PLMN identities are well-formed, the pretended signal strengths can be reported,
nobody is `Free`, and callers are no message goroutines.

**UeContext_proofs**, with no assumption about the network: `TypeCorrect`,
`ContextCorrect` (ContextFromLatestChallenge), `SqnCorrect` (SqnNeverDecreases). Every
step is `Sourced`: it leaves K_AMF and SQN alone and at most keys or drops the
context, or it accepts a challenge that is not older and installs a context with
it. TypeOK is needed only so that numbers compare and contexts are records.

**Registration_proofs**, for any number of retransmissions, re-authentications,
restored backups, failing challenges and rejections, and any overtaking, with no
assumption about which of them happen. `NetTypeCorrect` (NetTypeOK) and `Survival`
(DiesOnlyOfRejection) come from `LifeInv`: everything under way is what the network
may send, and until a rejection is handled whoever relies on a security context (a
command under way, a response in the channel, a goroutine that has tested it, the
AMF past the challenge) implies that there is one. Up to the first disturbance:
`KeysAgree` (Agreement), `RegistrationLasts` (StaysRegistered), `Answered`
(AlwaysAnswered) and `Refinement` (the initial states and the steps of KeyAgreement).
As `faults` only grows, every step up to that point starts in an undisturbed state,
and the invariants are inductive as `Undisturbed => ...`. Agreement is far from inductive:
whether the UE ends up on the AMF's key depends on what is still under way.
`OrderInv` therefore has a part per step of the AMF. While it waits for a response,
the downlink holds commands of the last procedure, then challenges too old to be
accepted, then the current one (`DownlinkOfAuth`); a response is to the current
challenge and everything older is gone (`ResponsesOfAuth`); a challenge is found too
old once, as the next is above the UE's own number (`FailuresOfAuth`). While it
waits for the Security Mode Complete, repetitions of the challenge, each of which
throws the keys away, all precede the commands (`Keying`). Afterwards neither
direction holds anything of a challenge (`Agreed`). The only facts about the
channels are that a taken message is the first (`IsTail`) and a sent one the last
(`Grows`). `ContextFromLatestChallenge` gives the refinement its sequence numbers.
`Answered` is the safety half of Completes: while
the AMF waits, its message is under way or the answer is. It is inductive on top
of the invariant above, which says why the UE cannot swallow the message the AMF
waits on: at the AMF's step the message is handled and not rejected, nothing older
is left in front of it that would change the context first, and its answer is
not overtaken.

**PduSessions_proofs**: `TypeCorrect`, `ListenerCorrect` (ListenerNotStale) and
`TableCorrect` (SlotsMatch and NoLeak). NoLeak alone is not inductive: a caller that
marks a session might mark one that does not exist, and a new session might be
one the listener already holds. `IInv` adds that callers and listener hold sessions
that were created and that each slot holds a session of its own identity.

**Codec_proofs**: the two PLMN encoders agree exactly on two-digit MNCs and on three
equal digits (`EncodersAgree`); the DU decodes what the UE measured
(`RsrpRoundTrip`), so A3 is the same at both ends (`A3Agrees`); the constant in the F1
setup is the encoding of no PLMN at all (`SetupPlmnDiffers`).

**DuHandover_proofs**: `TypeCorrect`, `TriggeredOnce` (OneTrigger), `CommandFirst`
(CommandBeforeExecution), `PlmnsTold` (PlmnAgree: where both encoders work),
`Forwards` (NeverBackwards), `CommandSafe` (CommandKept) and `Protocol`
(ImplementsProtocol). A handler tests the context and acts on the test later,
so `IInv` ties every goroutine's next step to a context it may still find: the two
roles have disjoint states (`Sides`), the CU-CP's counts bound who can be where
(`Counts`), each handler's step fits role and state, and no two handlers are about
to make the same move (`HandlerInv`), the loop is between IDLE and PREPARATION only
while nobody else can be (`LoopInv`), and the identities told are those of the
encoders (`Told`). `Protocol` maps every step of a goroutine or the loop to one step of
HandoverProtocol or to none; it needs the invariant because most guards of the
protocol are tests that the code made some steps earlier. It is the full
refinement, as HandoverProtocol states no fairness, and it implies
CommandBeforeExecution and NeverBackwards, which no run repeats. CommandKept is not
inductive: a goroutine without a UE channel drops its message. `Kept` adds that
only a target DU can be without one, and a target gets no command.

**Handover_proofs**: `Implements` (ImplementsDuHandover) shows step by step that UE and
loop do nothing DuHandover forbids; through it DuHandover's invariant holds
here, too. `HoTypeCorrect` and `ReportsTrigger` (ReportTriggers) follow; the last needs
that every report in the channel meets A3 as the DU decodes it, which is
`A3Agrees`. `DuProtocol` and `DuCommandSafe` carry the DU's theorems over.

**DuLifecycle_proofs**: `TypeCorrect`, `Exclusion` (who works under `du.mu` works
alone) and `Announced` (OneInitialUl, both halves). `MutexInv` says who holds the mutex from each
goroutine's step; `InitialInv` that `du.ue`, the loop's flag and the count of Initial
ULs move together; `ClientInv` that goroutines point to readers and messages that
exist. The second half, that nothing of the UE arrives unannounced although the
flag is cleared when a send fails, is `AnnouncedInv`: until the Initial UL there is
at most one message of the UE, with its flag set, and neither the CU-CP nor any
channel has anything that only an announced UE can cause. If that one message is
lost, nothing follows it.

**DuReceived_proofs**: `DecodesAsReceived` (AsReceived), for any number of messages
and of chunks a message is copied in, where the run copies in one step. Nothing in
the client keeps the reader off a buffer in use; what protects it from the CU-CP's
own messages is that the CU-CP waits, and nothing protects it from what is skipped:
the theorem says that this alone makes bytes that do not decode, and that no
message is taken for another. `OneByOne` says so: the message under way is the last one sent, and it is in
one place (`InboxWay`, `CopyWay`, `DecodeWay`); whatever shows that a message had its
effect, from the goroutine's step through the UE's channels to what the CU-CP
received, implies that it was decoded (`SeenInv`); and the CU-CP sends only after
such a sign (`DidInv`). It holds up to the first restart or message ahead of its time;
neither is ever undone (`WaitsLater`), so the condition can be put in front of
the invariant.

Only model-checked: all liveness properties (TriggerFinishes, Completes,
CallsReturn, ReleaseUnlinks, CommandExecutes, SetupAnswered, CommandTaken,
LockReleased, SetupLeadsToUe) and the fair part of the refinement of KeyAgreement:
liveness under fairness is beyond the prover.

## Limits and what is not modelled

* After a message has overtaken another, Agreement, StaysRegistered and the
  refinement may not hold: a retransmitted challenge that arrives after the Security
  Mode Command is accepted again (equal SQN) and leaves a context without keys; one
  that is delayed past a restore brings an older key back. No document of the
  program promises order, so this is recorded here and not as a finding. The same
  goes for the panics that a rejection leads to: a goroutine that has tested the
  context dereferences it after the purge, and if messages overtake, so does the
  handler of a Security Mode Command.
* After a restart the old `ReadLoop` looks `c.conn` up again and may read from the new
  association, so that two loops copy messages at once; a late message of a CU-CP
  that does not wait for answers can overwrite one not yet decoded. AsReceived is
  stated without restarts and for a CU-CP that waits; `f1_torn` shows the rest. Even
  then a notification may overwrite a message before it is decoded, and the process
  exits: AsReceived states that as the one cause.
* LockReleased has one exception, which the model needs: if the association is lost, or
  a foreign message overwrites the answer, while the UE waits for its first message, `OnF1SetupResponse` keeps `du.mu` for
  ever and Start and Stop hang. `README.md:179` speaks of a graceful shutdown;
  the program's is `os.Exit`.
* A lost association changes nothing but the reader (`DU_LOST` is declared and never
  assigned): the DU stays ACTIVE and Start refuses. A setup response that is
  handled after Stop makes the DU ACTIVE again. Both are modelled; no document says
  what should happen.
* No reconfiguration is completed. `handle_rrc.go:121-122` says so itself ("TODO: Send
  RRCReconfigurationComplete response") and the README lists it as work to come, so
  it is no finding; Handover models it as it is. `handleRrcFromDU` (`ue.go:100`), which
  would carry a handover through with random access and a completion
  (`ue_rrc_handler.go`, `ue_handover.go:198-255`), is started by nothing and is not
  modelled.
* Not called by the program, and left out: `HandleUeContextModificationRequest`,
  `HandleUeContextReleaseCommand` (although `doc/changelogs.md:39` says that they are
  dispatched), `SimulateRachReception` (although `du_rach.go:54` says who calls it),
  `SendRRCSetup`, `ResetHandoverContext`, the
  exported `HandleRrcReconfiguration`, `GetNextPTI`. `TriggerMeasurement` is not called
  either, but it is exported and safe to call at any time, so it is modelled.
* `test/handover_test.go:260` expects a target DU to be in PREPARATION after
  `StartRachMonitoring`; the code sets EXECUTION (`du_rach.go:45`), as DuHandover has
  it. No property rests on either reading.
* `createTargetHandoverUeContext` sets `du.ue` without `du.mu`. The race with an F1
  setup needs a CU-CP that hands a UE to a DU it has not set up, and is left out.
* NAS protection itself (counts, integrity) belongs to a library: a message that
  fails its check is one the listener never handles. MILENAGE and the key
  derivations are symbolic: that they are computed correctly is for test vectors.
* A handler's state changes become visible together with its send; in the program
  they are visible while the send is blocked.
* The 5GMM and 5GSM parts are separate modules: a 5GSM message is `Other` to
  UeContext, and PduSessions does not look at the security context.
* Configuration, logging and the command have no state worth checking;
  `Logger.Fatal`'s exit is modelled where it is called.

## Plan

1. Compose UeContext and PduSessions: sessions over a context that is replaced.
2. The undispatched F1AP handlers, once the program calls them.
3. Proofs: the safety half of SetupLeadsToUe (while a UE waits for its first
   message, that message or what causes it is under way).

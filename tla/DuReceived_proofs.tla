-------------------------- MODULE DuReceived_proofs --------------------------
(***************************************************************************)
(* Proof that no goroutine takes one message for another, and that only    *)
(* what is no F1AP message makes one fail (AsReceived), although           *)
(* ReadLoop's buffer is shared: as long as there is one association and    *)
(* the CU-CP waits for the answer to each message before the next, one     *)
(* message is under way at a time.                                         *)
(***************************************************************************)
EXTENDS DuLifecycle_proofs

Decoding(g) == task[g].step = "decode"
Copying(r) == reader[r].step = "copy"

\* Nothing is to be read but what is no message.
Drained(a) == \A i \in 1 .. Len(assoc[a].inbox) : assoc[a].inbox[i] = Foreign

\* No message is between the CU-CP and its goroutine's decoder.
Quiet ==
    /\ \A a \in 1 .. Len(assoc) : Drained(a)
    /\ \A r \in 1 .. Len(reader) : ~Copying(r)
    /\ \A g \in Task : ~Decoding(g)

\* What shows that the setup response was decoded, at the DU or on its way
\* from there to the CU-CP; and the RRCSetup.
SetupSeen ==
    \/ \E a \in 1 .. Len(assoc) : "RRCSetupRequest" \in cu.got[a]
    \/ \E i \in 1 .. Len(ue.from) : ue.from[i] = "RRCSetupRequest"
    \/ \E g \in Task : task[g].step \in {"setup", "init"}

RrcSetupSeen ==
    \/ \E a \in 1 .. Len(assoc) : "RRCSetupComplete" \in cu.got[a]
    \/ \E i \in 1 .. Len(ue.from) : ue.from[i] = "RRCSetupComplete"
    \/ \E i \in 1 .. Len(ue.to) : ue.to[i] = "RRCSetup"
    \/ \E g \in Task : task[g].step = "forward" /\ cu.sent[task[g].got] = "RRCSetup"

\* The CU-CP has sent n messages, and the n-th has been decoded.
Decoded(n) == Len(cu.sent) >= n /\ (Len(cu.sent) = n => Quiet)

SeenInv == (SetupSeen => Decoded(1)) /\ (RrcSetupSeen => Decoded(2))

\* The order in which the CU-CP sends.
DidInv ==
    /\ Len(assoc) = 0 => Len(cu.sent) = 0
    /\ Len(cu.sent) >= 1 => cu.sent[1] = "F1SetupResponse"
    /\ \A a \in 1 .. Len(assoc) :
          /\ Len(cu.sent) = 0 => cu.did[a] = {}
          /\ Len(cu.sent) >= 1 => "F1SetupResponse" \in cu.did[a]
          /\ Len(cu.sent) >= 2 => cu.did[a] \cap {"RRCSetup", "RRCReject"} # {}
          /\ Len(cu.sent) >= 3 => "DLRRCMessageTransfer" \in cu.did[a]

\* The message under way is the last one sent, and it is in one place: to be
\* read, being copied, or in the buffer of the one goroutine to decode it.
InboxWay ==
    \A a \in 1 .. Len(assoc) : \A i \in 1 .. Len(assoc[a].inbox) :
        assoc[a].inbox[i] # Foreign =>
            /\ assoc[a].inbox[i] = Len(cu.sent)
            /\ \A j \in 1 .. Len(assoc[a].inbox) : assoc[a].inbox[j] # Foreign => j = i
            /\ \A r \in 1 .. Len(reader) : ~Copying(r)
            /\ \A g \in Task : ~Decoding(g)

CopyWay ==
    \A r \in 1 .. Len(reader) : Copying(r) =>
        /\ reader[r].msg = Len(cu.sent)
        /\ \A k \in 1 .. reader[r].copied : reader[r].buf[k] = Len(cu.sent)
        /\ \A g \in Task : ~Decoding(g)

DecodeWay ==
    \A g \in Task : Decoding(g) =>
        /\ task[g].msg = Len(cu.sent)
        /\ \A k \in 1 .. Chunks : reader[task[g].reader].buf[k] \in {Len(cu.sent), Foreign}
        /\ \A h \in Task : Decoding(h) => h = g

GotInv == \A g \in Task : task[g].got # 0 => task[g].got = task[g].msg

OneByOne == SeenInv /\ DidInv /\ InboxWay /\ CopyWay /\ DecodeWay /\ GotInv

\* The simulator exits on a message that something else has overwritten.
ExitInv == exited => \E g \in Task : Decoding(g) /\ Foreign \in Bytes(g)

Waits == Len(assoc) <= 1 /\ ~cu.ahead
WaitsInv == Waits => OneByOne /\ ExitInv

------------------------------------------------------------------------------
(* Steps that move no message                                               *)

LEMMA InitWaits == Init => WaitsInv
<1>. SUFFICES ASSUME Init PROVE OneByOne
  BY DEF WaitsInv, ExitInv, Init
<1>1. /\ Len(assoc) = 0 /\ Len(reader) = 0 /\ Len(cu.sent) = 0
      /\ Len(ue.from) = 0 /\ Len(ue.to) = 0
      /\ \A g \in Task : task[g] = IdleTask /\ task[g].step = "idle" /\ task[g].got = 0
  BY DEF Init, ClientInit, IdleTask
<1>2. ~SetupSeen /\ ~RrcSetupSeen
  BY <1>1 DEF SetupSeen, RrcSetupSeen
<1>3. DidInv
  BY <1>1 DEF DidInv
<1>4. InboxWay /\ CopyWay /\ DecodeWay /\ GotInv
  BY <1>1 DEF InboxWay, CopyWay, DecodeWay, GotInv, Decoding
<1>. QED  BY <1>2, <1>3, <1>4 DEF OneByOne, SeenInv

\* Nothing comes in that is a message.
NoneIn(a) ==
    \A i \in 1 .. Len(assoc'[a].inbox) :
        \/ assoc'[a].inbox[i] = Foreign
        \/ i \in 1 .. Len(assoc[a].inbox) /\ assoc'[a].inbox[i] = assoc[a].inbox[i]

\* Buffers and the goroutines still to decode stay as they are.
LEMMA WayKept ==
    ASSUME OneByOne, UNCHANGED reader, Len(assoc') = Len(assoc),
           \A a \in 1 .. Len(assoc) : NoneIn(a),
           cu'.sent = cu.sent, cu'.did = cu.did,
           \A g \in Task : task'[g].step = "decode" => task'[g] = task[g],
           \A g \in Task : task'[g].got # 0 => task'[g].got = task'[g].msg,
           SetupSeen' => SetupSeen, RrcSetupSeen' => RrcSetupSeen
    PROVE  OneByOne'
<1>1. Quiet => Quiet'
  BY DEF Quiet, Copying, Decoding, Drained, NoneIn
<1>2. SeenInv'
  BY <1>1 DEF OneByOne, SeenInv, Decoded
<1>3. DidInv'
  BY DEF OneByOne, DidInv
<1>4. InboxWay'
  <2>1. ASSUME NEW a \in 1 .. Len(assoc), NEW i \in 1 .. Len(assoc'[a].inbox),
               assoc'[a].inbox[i] # Foreign
        PROVE  /\ assoc'[a].inbox[i] = Len(cu.sent)
               /\ \A j \in 1 .. Len(assoc'[a].inbox) : assoc'[a].inbox[j] # Foreign => j = i
               /\ \A r \in 1 .. Len(reader) : ~Copying(r)
               /\ \A g \in Task : ~Decoding(g)
    BY <2>1 DEF OneByOne, InboxWay, NoneIn
  <2>. QED  BY <2>1 DEF InboxWay, Copying, Decoding
<1>5. CopyWay' /\ DecodeWay'
  BY DEF OneByOne, CopyWay, DecodeWay, Copying, Decoding
<1>6. GotInv'
  BY DEF GotInv
<1>. QED  BY <1>2, <1>3, <1>4, <1>5, <1>6 DEF OneByOne

\* A step that also leaves the goroutines, the UE and the CU-CP alone.
LEMMA OnlyLinks ==
    ASSUME OneByOne, UNCHANGED <<reader, task, ue>>, Len(assoc') = Len(assoc),
           cu'.sent = cu.sent, cu'.did = cu.did, cu'.got = cu.got,
           \A a \in 1 .. Len(assoc) : NoneIn(a)
    PROVE  OneByOne'
<1>1. SetupSeen' => SetupSeen
  BY DEF SetupSeen
<1>2. RrcSetupSeen' => RrcSetupSeen
  BY DEF RrcSetupSeen
<1>3. \A g \in Task : task'[g].got # 0 => task'[g].got = task'[g].msg
  BY DEF OneByOne, GotInv
<1>. QED  BY <1>1, <1>2, <1>3, WayKept

LEMMA AllKept ==
    ASSUME UNCHANGED assoc
    PROVE  \A a \in 1 .. Len(assoc) : NoneIn(a)
BY DEF NoneIn

LEMMA LinkWaits ==
    ASSUME IInv, OneByOne, NEW a \in 1 .. Len(assoc), NEW x \in Assoc,
           \A i \in 1 .. Len(x.inbox) :
              x.inbox[i] = Foreign \/ (i \in 1 .. Len(assoc[a].inbox) /\ x.inbox[i] = assoc[a].inbox[i]),
           assoc' = [assoc EXCEPT ![a] = x], UNCHANGED <<reader, task, ue>>,
           cu'.sent = cu.sent, cu'.did = cu.did, cu'.got = cu.got
    PROVE  OneByOne'
<1>1. assoc \in Seq(Assoc)
  BY DEF IInv, ClientInv, ClientType
<1>2. /\ Len(assoc') = Len(assoc) /\ assoc'[a] = x
      /\ \A b \in 1 .. Len(assoc) : b # a => assoc'[b] = assoc[b]
  BY <1>1, SeqUpdate
<1>3. \A b \in 1 .. Len(assoc) : NoneIn(b)
  BY <1>2 DEF NoneIn
<1>. QED  BY <1>2, <1>3, OnlyLinks

\* Something that is no message comes in.
LEMMA ForeignWaits ==
    ASSUME IInv, OneByOne, NEW a \in 1 .. Len(assoc), NEW link \in Links,
           assoc' = [assoc EXCEPT ![a] = With(assoc[a], link, Foreign)],
           UNCHANGED <<reader, task, ue>>,
           cu'.sent = cu.sent, cu'.did = cu.did, cu'.got = cu.got
    PROVE  OneByOne'
<1>. DEFINE x == With(assoc[a], link, Foreign)
<1>1. assoc[a] \in Assoc /\ Foreign \in Message \cup {Foreign}
  BY DEF IInv, ClientInv, ClientType
<1>2. /\ x \in Assoc
      /\ \A i \in 1 .. Len(x.inbox) :
            \/ i \in 1 .. Len(assoc[a].inbox) /\ x.inbox[i] = assoc[a].inbox[i]
            \/ x.inbox[i] = Foreign
  BY <1>1, InboxAppend
<1>3. assoc' = [assoc EXCEPT ![a] = x]
  OBVIOUS
<1>. HIDE DEF x
<1>. QED  BY <1>2, <1>3, LinkWaits

\* The CU-CP hears a message: at most what the loop HandleRrcFromUE took.
LEMMA HeardGot ==
    ASSUME CuType, ClientType, conn # 0, NEW kind \in Received, NEW got,
           got = [cu.got EXCEPT ![conn] = @ \cup {kind}]
    PROVE  \A a \in 1 .. Len(assoc) : got[a] \subseteq cu.got[a] \cup {kind}
<1>1. conn \in 1 .. Len(cu.got) /\ cu.got \in Seq(SUBSET Received) /\ Len(cu.got) = Len(assoc)
  BY DEF CuType, ClientType, Cu
<1>2. cu.got[conn] \cup {kind} \in SUBSET Received
  BY <1>1
<1>3. /\ got[conn] = cu.got[conn] \cup {kind}
      /\ \A a \in 1 .. Len(cu.got) : a # conn => got[a] = cu.got[a]
  BY <1>1, <1>2, SeqUpdate
<1>. QED  BY <1>1, <1>3

\* Before the first association nothing was sent.
LEMMA ConnectWaits ==
    ASSUME IInv, OneByOne, Connect, Len(assoc') <= 1, UNCHANGED ue,
           cu' = [cu EXCEPT !.did = Append(@, {}), !.got = Append(@, {})]
    PROVE  OneByOne'
<1>1. /\ assoc \in Seq(Assoc) /\ reader \in Seq(Reader) /\ Len(reader) = Len(assoc)
      /\ cu \in Cu /\ Len(cu.did) = Len(assoc) /\ Len(cu.got) = Len(assoc)
      /\ InboxInv /\ ReaderInv /\ TaskInv
  BY DEF IInv, ClientInv, ClientType, CuType
<1>2. /\ assoc' = Append(assoc, [link |-> "up", inbox |-> <<>>])
      /\ reader' = Append(reader, NewReader) /\ UNCHANGED task
  BY DEF Connect
<1>3. Len(assoc) = 0 /\ Len(assoc') = 1 /\ Len(reader') = 1
  BY <1>1, <1>2
<1>4. Len(assoc'[1].inbox) = 0 /\ reader'[1] = NewReader /\ reader'[1].step = "top"
  BY <1>1, <1>2, <1>3 DEF NewReader
<1>5. \A g \in Task : task[g].step = "idle"
  BY <1>1, <1>3 DEF TaskInv
<1>6. /\ cu'.sent = cu.sent /\ Len(cu.sent) = 0
      /\ cu'.did = Append(cu.did, {}) /\ cu'.got = Append(cu.got, {})
  BY <1>1, <1>3 DEF Cu, OneByOne, DidInv
<1>7. cu'.did[1] = {} /\ cu'.got[1] = {}
  <2>1. cu.did \in Seq(SUBSET CuKinds) /\ cu.got \in Seq(SUBSET Received)
    BY <1>1 DEF Cu
  <2>. QED  BY <1>1, <1>3, <1>6, <2>1
<1>8. ~SetupSeen /\ ~RrcSetupSeen
  BY <1>6 DEF OneByOne, SeenInv, Decoded
<1>9. ~SetupSeen' /\ ~RrcSetupSeen'
  BY <1>2, <1>3, <1>5, <1>7, <1>8 DEF SetupSeen, RrcSetupSeen
<1>10. DidInv'
  BY <1>3, <1>6, <1>7 DEF DidInv
<1>11. InboxWay' /\ CopyWay' /\ DecodeWay'
  BY <1>2, <1>3, <1>4, <1>5 DEF InboxWay, CopyWay, DecodeWay, Copying, Decoding
<1>12. GotInv'
  BY <1>2 DEF OneByOne, GotInv
<1>. QED  BY <1>9, <1>10, <1>11, <1>12 DEF OneByOne, SeenInv

LEMMA CallerWaits ==
    ASSUME IInv, OneByOne, NEW c \in Caller, Call(c) \/ CallerStep(c), Len(assoc') <= 1
    PROVE  OneByOne'
<1>1. CASE Call(c) \/ StartLock(c)
  BY <1>1, OnlyLinks, AllKept DEF Call, StartLock, clientVars
<1>2. CASE StartConnect(c)
  <2>1. CASE UNCHANGED <<clientVars, cu>>
    BY <1>2, <2>1, OnlyLinks, AllKept DEF StartConnect, clientVars
  <2>2. CASE ~UNCHANGED <<clientVars, cu>>
    BY <1>2, <2>2, ConnectWaits DEF StartConnect
  <2>. QED  BY <2>1, <2>2
<1>3. CASE StartSend(c)
  <2>1. UNCHANGED <<assoc, reader, task, ue>>
    BY <1>3 DEF StartSend, clientVars
  <2>2. CASE ~CanSend
    BY <1>3, <2>1, <2>2, OnlyLinks, AllKept DEF StartSend
  <2>3. CASE CanSend
    <3>. DEFINE got == [cu.got EXCEPT ![conn] = @ \cup {"F1SetupRequest"}]
    <3>1. cu' = [cu EXCEPT !.got = got] /\ conn # 0
      BY <1>3, <2>3 DEF StartSend, CanSend
    <3>2. \A a \in 1 .. Len(assoc) : got[a] \subseteq cu.got[a] \cup {"F1SetupRequest"}
      BY <3>1, HeardGot DEF IInv, ClientInv, Received
    <3>. HIDE DEF got
    <3>3. cu'.sent = cu.sent /\ cu'.did = cu.did /\ cu'.got = got
      BY <3>1 DEF IInv, CuType, Cu
    <3>4. SetupSeen' => SetupSeen
      BY <2>1, <3>2, <3>3 DEF SetupSeen
    <3>5. RrcSetupSeen' => RrcSetupSeen
      BY <2>1, <3>2, <3>3 DEF RrcSetupSeen
    <3>6. \A g \in Task : task'[g].got # 0 => task'[g].got = task'[g].msg
      BY <2>1 DEF OneByOne, GotInv
    <3>. QED  BY <2>1, <3>3, <3>4, <3>5, <3>6, WayKept, AllKept
  <2>. QED  BY <2>2, <2>3
<1>4. CASE Stop(c)
  <2>1. Close /\ UNCHANGED <<ue, cu>>
    BY <1>4 DEF Stop
  <2>2. CASE conn = 0
    BY <2>1, <2>2, OnlyLinks, AllKept DEF Close
  <2>3. CASE conn # 0
    <3>. DEFINE x == [link |-> "closed", inbox |-> <<>>]
    <3>1. conn \in 1 .. Len(assoc) /\ x \in Assoc /\ Len(x.inbox) = 0
      BY <2>3 DEF IInv, ClientInv, ClientType, Assoc, Links
    <3>2. assoc' = [assoc EXCEPT ![conn] = x] /\ UNCHANGED <<reader, task, ue, cu>>
      BY <2>1, <2>3 DEF Close
    <3>. HIDE DEF x
    <3>3. \A i \in 1 .. Len(x.inbox) :
             x.inbox[i] = Foreign \/ (i \in 1 .. Len(assoc[conn].inbox) /\ x.inbox[i] = assoc[conn].inbox[i])
      BY <3>1
    <3>4. cu'.sent = cu.sent /\ cu'.did = cu.did /\ cu'.got = cu.got
      BY <3>2
    <3>. QED  BY <3>1, <3>2, <3>3, <3>4, LinkWaits
  <2>. QED  BY <2>2, <2>3
<1>. QED  BY <1>1, <1>2, <1>3, <1>4 DEF CallerStep

\* The loop HandleRrcFromUE takes a message, the CU-CP hears it or not.
LEMMA UeWaits ==
    ASSUME IInv, OneByOne, Uplink \/ Listen
    PROVE  OneByOne'
<1>1. ue \in Ue
  BY DEF IInv, DuType
<1>2. \A g \in Task : task[g].got # 0 => task[g].got = task[g].msg
  BY DEF OneByOne, GotInv
<1>3. CASE Uplink
  <2>1. UNCHANGED <<assoc, reader, task>> /\ ue.from # <<>>
    BY <1>3 DEF Uplink, clientVars
  <2>. DEFINE kind == Head(ue.from)
  <2>2. /\ kind \in Received /\ kind = ue.from[1] /\ 1 \in 1 .. Len(ue.from)
        /\ \A i \in 1 .. Len(Tail(ue.from)) :
              i + 1 \in 1 .. Len(ue.from) /\ Tail(ue.from)[i] = ue.from[i + 1]
    BY <1>1, <2>1 DEF Ue
  <2>3. ue'.from = Tail(ue.from) /\ ue'.to = ue.to
    BY <1>1, <1>3 DEF Uplink, Ue
  <2>4. /\ cu'.sent = cu.sent /\ cu'.did = cu.did
        /\ \A a \in 1 .. Len(assoc) : cu'.got[a] \subseteq cu.got[a] \cup {kind}
    <3>1. CASE ~CanSend
      BY <1>3, <3>1 DEF Uplink
    <3>2. CASE CanSend
      <4>. DEFINE got == [cu.got EXCEPT ![conn] = @ \cup {kind}]
                  n == IF ue.initial THEN cu.initials + 1 ELSE cu.initials
      <4>1. cu' = [cu EXCEPT !.got = got, !.initials = n] /\ conn # 0
        BY <1>3, <3>2 DEF Uplink, CanSend
      <4>2. \A a \in 1 .. Len(assoc) : got[a] \subseteq cu.got[a] \cup {kind}
        BY <2>2, <4>1, HeardGot DEF IInv, ClientInv
      <4>. HIDE DEF got, n
      <4>3. cu'.sent = cu.sent /\ cu'.did = cu.did /\ cu'.got = got
        BY <4>1 DEF IInv, CuType, Cu
      <4>. QED  BY <4>2, <4>3
    <3>. QED  BY <3>1, <3>2
  <2>. HIDE DEF kind
  <2>5. SetupSeen' => SetupSeen
    BY <2>1, <2>2, <2>3, <2>4 DEF SetupSeen
  <2>6. RrcSetupSeen' => RrcSetupSeen
    BY <2>1, <2>2, <2>3, <2>4 DEF RrcSetupSeen
  <2>. QED  BY <1>2, <2>1, <2>4, <2>5, <2>6, WayKept, AllKept
<1>4. CASE Listen
  <2>1. UNCHANGED <<assoc, reader, task, cu>> /\ ue.to # <<>>
    BY <1>4 DEF Listen, clientVars
  <2>2. /\ ue'.from = ue.from /\ ue'.to = Tail(ue.to)
        /\ \A i \in 1 .. Len(Tail(ue.to)) :
              i + 1 \in 1 .. Len(ue.to) /\ Tail(ue.to)[i] = ue.to[i + 1]
    BY <1>1, <1>4, <2>1 DEF Listen, Ue
  <2>3. SetupSeen' => SetupSeen
    BY <2>1, <2>2 DEF SetupSeen
  <2>4. RrcSetupSeen' => RrcSetupSeen
    BY <2>1, <2>2 DEF RrcSetupSeen
  <2>. QED  BY <1>2, <2>1, <2>3, <2>4, WayKept, AllKept
<1>. QED  BY <1>3, <1>4
------------------------------------------------------------------------------
(* A goroutine's steps                                                      *)

\* What StepFacts says of the task, with the message kept.
LEMMA TaskAfter ==
    ASSUME IInv, OneByOne, NEW g \in Task, UNCHANGED reader,
           \/ \E st \in TaskSteps \ {"idle", "decode"} :
                 Step(g, st) /\ task[g].step \notin {"idle", "decode"}
           \/ Finish(g)
    PROVE  /\ \A h \in Task \ {g} : task'[h] = task[h]
           /\ Finish(g) => task'[g].step = "idle"
           /\ \A st : Step(g, st) => task'[g].step = st
           /\ \A h \in Task : task'[h].step = "decode" => task'[h] = task[h]
           /\ \A h \in Task : task'[h].got # 0 => task'[h].got = task'[h].msg
<1>1. task \in [Task -> Goroutine] /\ task[g] \in Goroutine
  BY DEF IInv, ClientInv, ClientType
<1>2. CASE Finish(g)
  <2>1. task'[g] = IdleTask /\ \A h \in Task \ {g} : task'[h] = task[h]
    BY <1>1, <1>2 DEF Finish
  <2>2. IdleTask.step = "idle" /\ IdleTask.got = 0
    BY DEF IdleTask
  <2>3. ASSUME NEW st, Step(g, st) PROVE task'[g].step = st
    BY <1>1, <2>3 DEF Step, Goroutine
  <2>. QED  BY <2>1, <2>2, <2>3 DEF OneByOne, GotInv
<1>3. ASSUME NEW st \in TaskSteps \ {"idle", "decode"}, Step(g, st)
      PROVE  /\ task'[g].step = st /\ task'[g].got = task[g].got /\ task'[g].msg = task[g].msg
             /\ \A h \in Task \ {g} : task'[h] = task[h]
  BY <1>1, <1>3 DEF Step, Goroutine
<1>4. ASSUME NEW st, Step(g, st) PROVE task'[g].step = st
  BY <1>1, <1>4 DEF Step, Goroutine
<1>5. ASSUME NEW st \in TaskSteps \ {"idle", "decode"}, Step(g, st)
      PROVE  /\ \A h \in Task : task'[h].step = "decode" => task'[h] = task[h]
             /\ \A h \in Task : task'[h].got # 0 => task'[h].got = task'[h].msg
             /\ ~Finish(g)
  <2>1. /\ task'[g].step = st /\ task'[g].got = task[g].got /\ task'[g].msg = task[g].msg
        /\ \A h \in Task \ {g} : task'[h] = task[h]
    BY <1>3, <1>5
  <2>2. Finish(g) => task'[g].step = "idle"
    BY <1>1 DEF Finish, IdleTask
  <2>. QED  BY <2>1, <2>2 DEF OneByOne, GotInv
<1>. QED  BY <1>2, <1>3, <1>4, <1>5

\* The one goroutine to decode finds the last message, or something that has
\* overwritten it; and then no message is under way.
LEMMA DecodeFinds ==
    ASSUME IInv, OneByOne, NEW g \in Task, Decode(g)
    PROVE  /\ task[g].msg = Len(cu.sent) /\ Len(cu.sent) \in Nat \ {0}
           /\ Bytes(g) \subseteq {Len(cu.sent), Foreign}
           /\ ~Intact(g) => Foreign \in Bytes(g)
<1>. DEFINE n == Len(cu.sent)
<1>1. Decoding(g) /\ Chunks \in Nat \ {0} /\ n \in Nat
  BY F1ClientAssumption
     DEF F1ClientAssumption, IInv, CuType, Cu, Decode, Decoding
<1>2. task[g].msg = n /\ \A k \in 1 .. Chunks : reader[task[g].reader].buf[k] \in {n, Foreign}
  BY <1>1 DEF OneByOne, DecodeWay
<1>3. task[g].msg \in 1 .. n
  BY <1>1 DEF IInv, ClientInv, TaskInv, Sent, Decoding
<1>4. 1 \in 1 .. Chunks
  BY <1>1
<1>5. n \in Nat \ {0}
  <2>. HIDE DEF n
  <2>. QED  BY <1>1, <1>3
<1>. HIDE DEF n
<1>6. Bytes(g) \subseteq {n, Foreign} /\ Bytes(g) # {}
  BY <1>2, <1>4 DEF Bytes
<1>7. Foreign \notin Bytes(g) => Bytes(g) = {n}
  BY <1>6
<1>. QED  BY <1>2, <1>5, <1>6, <1>7 DEF Intact, n

LEMMA DecodesLast ==
    ASSUME IInv, OneByOne, NEW g \in Task, Decoding(g), UNCHANGED <<assoc, reader, ue, cu>>,
           Len(assoc) <= 1, Bytes(g) \subseteq {Len(cu.sent), Foreign},
           task[g].msg = Len(cu.sent), Len(cu.sent) >= 1,
           NEW m \in Bytes(g) \ {Foreign},
           task' = [task EXCEPT ![g].step = FirstStep(cu.sent[m]), ![g].got = m]
    PROVE  OneByOne'
<1>. DEFINE n == Len(cu.sent)
            st == FirstStep(cu.sent[n])
            x == [task[g] EXCEPT !.step = st, !.got = n]
<1>1. /\ task \in [Task -> Goroutine] /\ task[g] \in Goroutine
      /\ UNCHANGED <<assoc, reader, ue, cu>> /\ n \in Nat
  BY DEF IInv, ClientInv, ClientType, CuType, Cu
<1>2. task[g].msg = n /\ n >= 1 /\ m = n
  OBVIOUS
<1>3. task' = [task EXCEPT ![g] = x]
  BY <1>2
<1>. HIDE DEF n
<1>4. /\ st \in {"setup", "forward"}
      /\ st = "forward" => cu.sent[n] # "F1SetupResponse"
  BY DEF FirstStep
<1>. HIDE DEF st
<1>5. x.step = st /\ x.got = n /\ x.msg = n
  BY <1>1, <1>2 DEF Goroutine
<1>. HIDE DEF x
<1>6. task'[g] = x /\ \A h \in Task \ {g} : task'[h] = task[h]
  BY <1>1, <1>3
<1>7. \A h \in Task : task'[h].step # "decode"
  BY <1>1, <1>4, <1>5, <1>6 DEF OneByOne, DecodeWay, Decoding
<1>8. Quiet'
  BY <1>1, <1>7 DEF Quiet, OneByOne, InboxWay, CopyWay, Copying, Decoding, Drained
<1>9. RrcSetupSeen' => n >= 2
  <2>1. CASE RrcSetupSeen
    BY <2>1 DEF OneByOne, SeenInv, Decoded, n
  <2>2. CASE ~RrcSetupSeen
    <3>1. ASSUME RrcSetupSeen'
          PROVE  st = "forward" /\ cu.sent[n] = "RRCSetup"
      BY <1>1, <1>4, <1>5, <1>6, <2>2, <3>1 DEF RrcSetupSeen
    <3>2. n = 1 => cu.sent[n] = "F1SetupResponse"
      BY DEF OneByOne, DidInv, n
    <3>. QED  BY <1>1, <1>2, <3>1, <3>2
  <2>. QED  BY <2>1, <2>2
<1>10. SeenInv'
  <2>1. Len(cu'.sent) = n
    BY <1>1 DEF n
  <2>. QED  BY <1>2, <1>8, <1>9, <2>1 DEF SeenInv, Decoded
<1>11. DidInv'
  BY <1>1 DEF OneByOne, DidInv
<1>12. InboxWay' /\ CopyWay' /\ DecodeWay'
  <2>1. InboxWay'
    BY <1>8 DEF Quiet, InboxWay, Drained
  <2>2. CopyWay'
    BY <1>8 DEF Quiet, CopyWay
  <2>3. DecodeWay'
    BY <1>7 DEF DecodeWay, Decoding
  <2>. QED  BY <2>1, <2>2, <2>3
<1>13. GotInv'
  BY <1>5, <1>6 DEF OneByOne, GotInv
<1>. QED  BY <1>10, <1>11, <1>12, <1>13 DEF OneByOne

LEMMA DecodeWaits ==
    ASSUME IInv, OneByOne, NEW g \in Task, Decode(g), Len(assoc) <= 1
    PROVE  /\ exited' => exited \/ (\E h \in Task : Decoding(h) /\ Foreign \in Bytes(h))'
           /\ OneByOne'
<1>. DEFINE n == Len(cu.sent)
<1>1. /\ task \in [Task -> Goroutine] /\ task[g] \in Goroutine
      /\ task[g].step = "decode" /\ Decoding(g)
      /\ UNCHANGED <<assoc, reader, ue, cu>>
      /\ n \in Nat
  BY DEF IInv, ClientInv, ClientType, CuType, Cu, Decode, Decoding
<1>2. /\ task[g].msg = n /\ n >= 1 /\ Bytes(g) \subseteq {n, Foreign}
      /\ ~Intact(g) => Foreign \in Bytes(g)
  <2>1. n \in Nat \ {0}
    BY DecodeFinds
  <2>. QED  BY <2>1, DecodeFinds
<1>3. CASE UNCHANGED task /\ ~Intact(g)
  <2>1. (\E h \in Task : Decoding(h) /\ Foreign \in Bytes(h))'
    BY <1>1, <1>2, <1>3 DEF Decoding, Bytes
  <2>. QED  BY <1>1, <1>3, <2>1, OnlyLinks, AllKept
<1>4. CASE Finish(g) /\ exited' = exited
  <2>1. /\ \A h \in Task \ {g} : task'[h] = task[h]
        /\ task'[g].step = "idle"
        /\ \A h \in Task : task'[h].step = "decode" => task'[h] = task[h]
        /\ \A h \in Task : task'[h].got # 0 => task'[h].got = task'[h].msg
    BY <1>1, <1>4, TaskAfter
  <2>2. SetupSeen' => SetupSeen
    BY <1>1, <2>1 DEF SetupSeen
  <2>3. RrcSetupSeen' => RrcSetupSeen
    BY <1>1, <2>1 DEF RrcSetupSeen
  <2>. QED  BY <1>1, <1>4, <2>1, <2>2, <2>3, WayKept, AllKept
<1>5. CASE \E m \in Bytes(g) \ {Foreign} :
              /\ task' = [task EXCEPT ![g].step = FirstStep(cu.sent[m]), ![g].got = m]
              /\ exited' = exited
  <2>1. PICK m \in Bytes(g) \ {Foreign} :
           /\ task' = [task EXCEPT ![g].step = FirstStep(cu.sent[m]), ![g].got = m]
           /\ exited' = exited
    BY <1>5
  <2>2. /\ Bytes(g) \subseteq {Len(cu.sent), Foreign}
        /\ task[g].msg = Len(cu.sent) /\ Len(cu.sent) >= 1
    BY <1>2
  <2>3. OneByOne'
    BY <1>1, <2>1, <2>2, DecodesLast
  <2>. QED  BY <2>1, <2>3
<1>. QED  BY <1>3, <1>4, <1>5 DEF Decode

LEMMA TaskWaits ==
    ASSUME IInv, OneByOne, NEW g \in Task, TaskStep(g), Len(assoc) <= 1
    PROVE  OneByOne'
<1>1. ue \in Ue
  BY DEF IInv, DuType
<1>2. CASE Decode(g)
  BY <1>2, DecodeWaits
<1>3. CASE OnF1SetupResponse(g)
  <2>1. /\ task[g].step = "setup" /\ UNCHANGED <<assoc, reader, cu>>
        /\ Step(g, "init") \/ Finish(g)
    BY <1>3 DEF OnF1SetupResponse
  <2>2. ue'.from = ue.from /\ ue'.to = ue.to
    BY <1>1, <1>3 DEF OnF1SetupResponse, Ue
  <2>3. /\ \A h \in Task \ {g} : task'[h] = task[h]
        /\ task'[g].step \in {"init", "idle"}
        /\ \A h \in Task : task'[h].step = "decode" => task'[h] = task[h]
        /\ \A h \in Task : task'[h].got # 0 => task'[h].got = task'[h].msg
    BY <2>1, TaskAfter DEF TaskSteps
  <2>4. SetupSeen
    BY <2>1 DEF SetupSeen
  <2>5. RrcSetupSeen' => RrcSetupSeen
    BY <2>1, <2>2, <2>3 DEF RrcSetupSeen
  <2>. QED  BY <2>1, <2>3, <2>4, <2>5, WayKept, AllKept
<1>4. CASE InitRRCConn(g)
  <2>1. /\ task[g].step = "init" /\ UNCHANGED <<assoc, reader, cu>>
        /\ Step(g, "await")
    BY <1>4 DEF InitRRCConn
  <2>2. ue'.from = Append(ue.from, "RRCSetupRequest") /\ ue'.to = ue.to
    BY <1>1, <1>4 DEF InitRRCConn, Ue
  <2>3. /\ \A h \in Task \ {g} : task'[h] = task[h]
        /\ task'[g].step = "await"
        /\ \A h \in Task : task'[h].step = "decode" => task'[h] = task[h]
        /\ \A h \in Task : task'[h].got # 0 => task'[h].got = task'[h].msg
    BY <2>1, TaskAfter DEF TaskSteps
  <2>4. SetupSeen
    BY <2>1 DEF SetupSeen
  <2>5. \A i \in 1 .. Len(ue'.from) :
            ue'.from[i] = "RRCSetupComplete" =>
                i \in 1 .. Len(ue.from) /\ ue.from[i] = "RRCSetupComplete"
    BY <1>1, <2>2 DEF Ue
  <2>6. RrcSetupSeen' => RrcSetupSeen
    BY <2>1, <2>2, <2>3, <2>5 DEF RrcSetupSeen
  <2>. QED  BY <2>1, <2>3, <2>4, <2>6, WayKept, AllKept
<1>5. CASE HandleRRCSetup(g)
  <2>1. /\ task[g].step = "await" /\ UNCHANGED <<assoc, reader, cu>>
        /\ Finish(g) /\ ue.to # <<>>
    BY <1>5 DEF HandleRRCSetup
  <2>2. /\ ue'.to = Tail(ue.to)
        /\ \/ ue'.from = Append(ue.from, "RRCSetupComplete") /\ Head(ue.to) = "RRCSetup"
           \/ ue'.from = ue.from
    BY <1>1, <1>5 DEF HandleRRCSetup, Ue
  <2>3. /\ \A h \in Task \ {g} : task'[h] = task[h]
        /\ task'[g].step = "idle"
        /\ \A h \in Task : task'[h].step = "decode" => task'[h] = task[h]
        /\ \A h \in Task : task'[h].got # 0 => task'[h].got = task'[h].msg
    BY <2>1, TaskAfter
  <2>4. /\ 1 \in 1 .. Len(ue.to) /\ Head(ue.to) = ue.to[1]
        /\ \A i \in 1 .. Len(ue'.to) : i + 1 \in 1 .. Len(ue.to) /\ ue'.to[i] = ue.to[i + 1]
    BY <1>1, <2>1, <2>2 DEF Ue
  <2>5. \A i \in 1 .. Len(ue'.from) :
            \/ i \in 1 .. Len(ue.from) /\ ue'.from[i] = ue.from[i]
            \/ ue'.from[i] = "RRCSetupComplete" /\ Head(ue.to) = "RRCSetup"
    <3>1. ASSUME NEW i \in 1 .. Len(Append(ue.from, "RRCSetupComplete"))
          PROVE  \/ /\ i \in 1 .. Len(ue.from)
                    /\ Append(ue.from, "RRCSetupComplete")[i] = ue.from[i]
                 \/ Append(ue.from, "RRCSetupComplete")[i] = "RRCSetupComplete"
      BY <1>1 DEF Ue
    <3>. QED  BY <2>2, <3>1
  <2>6. SetupSeen' => SetupSeen
    BY <2>1, <2>3, <2>5 DEF SetupSeen
  <2>7. RrcSetupSeen' => RrcSetupSeen
    <3>1. CASE \E a \in 1 .. Len(assoc') : "RRCSetupComplete" \in cu'.got[a]
      BY <2>1, <3>1 DEF RrcSetupSeen
    <3>2. CASE \E i \in 1 .. Len(ue'.from) : ue'.from[i] = "RRCSetupComplete"
      <4>1. \/ \E i \in 1 .. Len(ue.from) : ue.from[i] = "RRCSetupComplete"
            \/ \E i \in 1 .. Len(ue.to) : ue.to[i] = "RRCSetup"
        BY <2>4, <2>5, <3>2
      <4>. QED  BY <4>1 DEF RrcSetupSeen
    <3>3. CASE \E i \in 1 .. Len(ue'.to) : ue'.to[i] = "RRCSetup"
      <4>1. \E i \in 1 .. Len(ue.to) : ue.to[i] = "RRCSetup"
        BY <2>4, <3>3
      <4>. QED  BY <4>1 DEF RrcSetupSeen
    <3>4. CASE \E h \in Task : task'[h].step = "forward" /\ cu'.sent[task'[h].got] = "RRCSetup"
      <4>1. \E h \in Task : task[h].step = "forward" /\ cu.sent[task[h].got] = "RRCSetup"
        BY <2>1, <2>3, <3>4
      <4>. QED  BY <4>1 DEF RrcSetupSeen
    <3>. QED  BY <3>1, <3>2, <3>3, <3>4 DEF RrcSetupSeen
  <2>. QED  BY <2>1, <2>3, <2>6, <2>7, WayKept, AllKept
<1>6. CASE Forward(g)
  <2>1. /\ task[g].step = "forward" /\ UNCHANGED <<assoc, reader, cu>>
        /\ Finish(g)
    BY <1>6 DEF Forward
  <2>2. ue'.from = ue.from /\ (ue'.to = ue.to \/ ue'.to = Append(ue.to, Kind(g)))
    BY <1>1, <1>6 DEF Forward, Ue
  <2>3. /\ \A h \in Task \ {g} : task'[h] = task[h]
        /\ task'[g].step = "idle"
        /\ \A h \in Task : task'[h].step = "decode" => task'[h] = task[h]
        /\ \A h \in Task : task'[h].got # 0 => task'[h].got = task'[h].msg
    BY <2>1, TaskAfter
  <2>4. \A i \in 1 .. Len(ue'.to) :
            (i \in 1 .. Len(ue.to) /\ ue'.to[i] = ue.to[i]) \/ ue'.to[i] = Kind(g)
    BY <1>1, <2>2 DEF Ue
  <2>5. SetupSeen' => SetupSeen
    BY <2>1, <2>2, <2>3 DEF SetupSeen
  <2>6. RrcSetupSeen' => RrcSetupSeen
    BY <2>1, <2>2, <2>3, <2>4 DEF RrcSetupSeen, Kind
  <2>. QED  BY <2>1, <2>3, <2>5, <2>6, WayKept, AllKept
<1>. QED  BY <1>2, <1>3, <1>4, <1>5, <1>6 DEF TaskStep
------------------------------------------------------------------------------
(* A message moves on                                                       *)

\* The last message gets into the buffer, chunk by chunk.
LEMMA FillWaits ==
    ASSUME IInv, IInv', OneByOne, UNCHANGED <<ue, cu>>, Len(assoc') = Len(assoc),
           Len(assoc) <= 1, NEW r \in 1 .. Len(reader), NEW k \in 1 .. Chunks,
           \A j \in 1 .. k - 1 : reader[r].buf[j] = Len(cu.sent),
           \A g \in Task : ~Decoding(g),
           ~Quiet,
           \A a \in 1 .. Len(assoc) : Drained(a)',
           Fill(r, Len(cu.sent), k)
    PROVE  OneByOne'
<1>. DEFINE n == Len(cu.sent)
            buf == [reader[r].buf EXCEPT ![k] = n]
<1>1. /\ reader \in Seq(Reader) /\ reader[r] \in Reader /\ task \in [Task -> Goroutine]
      /\ Len(reader) = Len(assoc) /\ Chunks \in Nat \ {0}
      /\ r = 1 /\ Len(reader) = 1 /\ n \in 0 .. MaxMsgs /\ MaxMsgs \in Nat
      /\ Len(reader') = 1
  BY F1ClientAssumption
     DEF F1ClientAssumption, IInv, ClientInv, ClientType, CuType, Cu
<1>2. reader[r].buf \in [1 .. Chunks -> 0 .. MaxMsgs]
  BY <1>1 DEF Reader
<1>3. /\ buf \in [1 .. Chunks -> 0 .. MaxMsgs]
      /\ \A j \in 1 .. k : buf[j] = n
  <2>1. /\ buf \in [1 .. Chunks -> 0 .. MaxMsgs] /\ buf[k] = n
        /\ \A j \in 1 .. Chunks : j # k => buf[j] = reader[r].buf[j]
    BY <1>1, <1>2
  <2>. HIDE DEF buf, n
  <2>2. \A j \in 1 .. k : j \in 1 .. Chunks /\ (j = k \/ j \in 1 .. k - 1)
    BY <1>1
  <2>. QED  BY <2>1, <2>2 DEF n
<1>4. Fill(r, n, k)
  OBVIOUS
<1>5. Len(cu'.sent) = n
  OBVIOUS
<1>. HIDE DEF buf, n
<1>6. /\ CopyWay' /\ DecodeWay' /\ GotInv'
      /\ \A g \in Task : task'[g] = task[g] \/ task'[g].step = "decode"
  <2>1. CASE k < Chunks
    <3>. DEFINE x == [reader[r] EXCEPT !.step = "copy", !.msg = n, !.copied = k, !.buf = buf]
    <3>1. k \in 0 .. Chunks - 1
      BY <1>1, <2>1
    <3>2. x \in Reader /\ x.step = "copy" /\ x.msg = n /\ x.copied = k /\ x.buf = buf
      BY <1>1, <1>3, <3>1 DEF Reader, ReaderSteps
    <3>3. reader' = [reader EXCEPT ![r] = x] /\ task' = task
      BY <1>4, <2>1 DEF Fill, buf
    <3>. HIDE DEF x
    <3>4. reader'[1] = x
      BY <1>1, <3>2, <3>3, SeqUpdate
    <3>5. CopyWay'
      BY <1>1, <1>3, <1>5, <3>2, <3>3, <3>4 DEF CopyWay, Copying, Decoding
    <3>6. DecodeWay' /\ GotInv'
      BY <3>3 DEF DecodeWay, Decoding, OneByOne, GotInv
    <3>. QED  BY <3>3, <3>5, <3>6
  <2>2. CASE ~(k < Chunks)
    <3>. DEFINE x == [NewReader EXCEPT !.buf = buf]
                t == [step |-> "decode", reader |-> r, msg |-> n, got |-> 0]
    <3>1. k = Chunks
      BY <1>1, <2>2
    <3>2. x \in Reader /\ x.buf = buf /\ x.step = "top"
      BY <1>3, IdleType DEF NewReader, Reader
    <3>3. PICK g \in Task : task' = [task EXCEPT ![g] = t] /\ reader' = [reader EXCEPT ![r] = x]
      BY <1>4, <2>2 DEF Fill, buf
    <3>4. t.step = "decode" /\ t.reader = 1 /\ t.msg = n /\ t.got = 0
      BY <1>1
    <3>. HIDE DEF x, t
    <3>5. reader'[1] = x
      BY <1>1, <3>2, <3>3, SeqUpdate
    <3>6. task'[g] = t /\ \A h \in Task \ {g} : task'[h] = task[h]
      BY <1>1, <3>3
    <3>7. CopyWay'
      BY <1>1, <3>2, <3>5 DEF CopyWay, Copying
    <3>8. DecodeWay'
      BY <1>3, <1>5, <3>1, <3>2, <3>4, <3>5, <3>6 DEF DecodeWay, Decoding
    <3>9. GotInv'
      BY <3>4, <3>6 DEF OneByOne, GotInv
    <3>. QED  BY <3>4, <3>6, <3>7, <3>8, <3>9
  <2>. QED  BY <2>1, <2>2
<1>7. InboxWay'
  BY DEF InboxWay, Drained
<1>8. DidInv'
  BY DEF OneByOne, DidInv
<1>9. SetupSeen' => SetupSeen
  BY <1>6 DEF SetupSeen
<1>10. RrcSetupSeen' => RrcSetupSeen
  BY <1>6 DEF RrcSetupSeen
<1>11. SeenInv'
  BY <1>5, <1>9, <1>10 DEF OneByOne, SeenInv, Decoded, n
<1>. QED  BY <1>6, <1>7, <1>8, <1>11 DEF OneByOne

LEMMA ReaderWaits ==
    ASSUME IInv, IInv', OneByOne, NEW r \in DOMAIN reader, ReaderStep(r),
           UNCHANGED <<ue, cu>>, Len(assoc) <= 1, Len(assoc') = Len(assoc)
    PROVE  OneByOne'
<1>1. /\ reader \in Seq(Reader) /\ r \in 1 .. Len(reader) /\ reader[r] \in Reader
      /\ assoc \in Seq(Assoc) /\ Len(reader) = Len(assoc) /\ conn = Len(assoc)
      /\ r = 1 /\ Len(assoc) = 1 /\ Chunks \in Nat \ {0}
      /\ MaxConns \in Nat /\ conn \in 0 .. MaxConns
  BY F1ClientAssumption
     DEF F1ClientAssumption, IInv, ClientInv, ClientType
<1>2. ASSUME NEW x \in Reader, reader' = [reader EXCEPT ![r] = x],
             \A k \in 1 .. Chunks : x.buf[k] \in {reader[r].buf[k], Foreign},
             x.step # "copy", reader[r].step # "copy", UNCHANGED task,
             NEW d \in Nat,
             \A i \in 1 .. Len(assoc'[1].inbox) :
                i + d \in 1 .. Len(assoc[1].inbox) /\ assoc'[1].inbox[i] = assoc[1].inbox[i + d]
      PROVE  OneByOne'
  <2>1. /\ Len(reader) = 1 /\ Len(reader') = 1
        /\ reader[1].step # "copy" /\ reader'[1].step # "copy"
        /\ \A k \in 1 .. Chunks : reader'[1].buf[k] \in {reader[1].buf[k], Foreign}
        /\ Len(assoc') = 1 /\ task' = task
    BY <1>1, <1>2, SeqUpdate
  <2>2. /\ \A q \in 1 .. Len(reader) : ~Copying(q)
        /\ \A q \in 1 .. Len(reader') : ~(Copying(q)')
    BY <2>1 DEF Copying
  <2>a. Quiet => Quiet'
    <3>1. Drained(1) => Drained(1)'
      BY <1>2 DEF Drained
    <3>2. (\A g \in Task : ~Decoding(g)) => (\A g \in Task : ~Decoding(g))'
      BY <2>1 DEF Decoding
    <3>. QED  BY <1>1, <2>1, <2>2, <3>1, <3>2 DEF Quiet
  <2>3. SetupSeen' => SetupSeen
    BY <1>2, <2>1 DEF SetupSeen
  <2>4. RrcSetupSeen' => RrcSetupSeen
    BY <1>2, <2>1 DEF RrcSetupSeen
  <2>5. SeenInv'
    BY <1>2, <2>a, <2>3, <2>4 DEF OneByOne, SeenInv, Decoded
  <2>6. DidInv' /\ GotInv'
    BY <1>2 DEF OneByOne, DidInv, GotInv
  <2>7. InboxWay' /\ CopyWay'
    <3>1. \A i \in 1 .. Len(assoc[1].inbox) :
             assoc[1].inbox[i] # Foreign =>
                /\ assoc[1].inbox[i] = Len(cu.sent)
                /\ \A j \in 1 .. Len(assoc[1].inbox) : assoc[1].inbox[j] # Foreign => j = i
                /\ \A g \in Task : ~Decoding(g)
      BY <1>1 DEF OneByOne, InboxWay
    <3>2. ASSUME NEW i \in 1 .. Len(assoc'[1].inbox), assoc'[1].inbox[i] # Foreign
          PROVE  /\ assoc'[1].inbox[i] = Len(cu.sent)
                 /\ \A g \in Task : ~Decoding(g)
                 /\ \A j \in 1 .. Len(assoc'[1].inbox) : assoc'[1].inbox[j] # Foreign => j = i
      <4>1. i + d \in 1 .. Len(assoc[1].inbox) /\ assoc[1].inbox[i + d] # Foreign
        BY <1>2, <3>2
      <4>2. ASSUME NEW j \in 1 .. Len(assoc'[1].inbox), assoc'[1].inbox[j] # Foreign PROVE j = i
        <5>1. j + d \in 1 .. Len(assoc[1].inbox) /\ assoc[1].inbox[j + d] # Foreign
          BY <1>2, <4>2
        <5>2. j + d = i + d
          BY <3>1, <4>1, <5>1
        <5>. QED  BY <5>2
      <4>. QED  BY <1>2, <3>1, <4>1, <4>2
    <3>. QED  BY <2>1, <2>2, <3>2 DEF InboxWay, CopyWay, Decoding
  <2>8. DecodeWay'
    <3>1. \A g \in Task : Decoding(g) => task[g].reader = 1
      BY <1>1 DEF IInv, ClientInv, TaskInv, Decoding
    <3>2. ASSUME NEW g \in Task, Decoding(g)
          PROVE  \A k \in 1 .. Chunks : reader'[1].buf[k] \in {Len(cu.sent), Foreign}
      BY <2>1, <3>1, <3>2 DEF OneByOne, DecodeWay
    <3>. QED  BY <2>1, <3>1, <3>2 DEF OneByOne, DecodeWay, Decoding
  <2>. QED  BY <2>5, <2>6, <2>7, <2>8 DEF OneByOne
<1>a. ASSUME NEW x \in Reader, reader' = [reader EXCEPT ![r] = x], x.buf = reader[r].buf,
             x.step # "copy", reader[r].step # "copy", UNCHANGED <<assoc, task>>
      PROVE  OneByOne'
  <2>1. 0 \in Nat /\ \A k \in 1 .. Chunks : x.buf[k] \in {reader[r].buf[k], Foreign}
    BY <1>a
  <2>2. \A i \in 1 .. Len(assoc'[1].inbox) :
           i + 0 \in 1 .. Len(assoc[1].inbox) /\ assoc'[1].inbox[i] = assoc[1].inbox[i + 0]
    BY <1>a
  <2>. QED  BY <1>2, <1>a, <2>1, <2>2
<1>3. CASE CallRead(r)
  <2>. DEFINE x == [reader[r] EXCEPT !.step = "read", !.on = conn]
  <2>1. x \in Reader /\ x.buf = reader[r].buf /\ x.step = "read"
    BY <1>1 DEF Reader, ReaderSteps
  <2>2. /\ reader' = [reader EXCEPT ![r] = x] /\ UNCHANGED <<assoc, task>>
        /\ reader[r].step # "copy"
    BY <1>3 DEF CallRead
  <2>. HIDE DEF x
  <2>. QED  BY <1>a, <2>1, <2>2
<1>4. CASE ReadFails(r)
  <2>. DEFINE x == [reader[r] EXCEPT !.step = "returned"]
  <2>1. x \in Reader /\ x.buf = reader[r].buf /\ x.step = "returned"
    BY <1>1 DEF Reader, ReaderSteps
  <2>2. /\ reader' = [reader EXCEPT ![r] = x] /\ UNCHANGED <<assoc, task>>
        /\ reader[r].step # "copy"
    BY <1>4 DEF ReadFails
  <2>. HIDE DEF x
  <2>. QED  BY <1>a, <2>1, <2>2
<1>5. CASE Receive(r)
  <2>. DEFINE box == assoc[1].inbox
  <2>1. /\ reader[r].on = 1 /\ reader[r].step = "read" /\ box # <<>>
        /\ IF Head(box) = Foreign THEN \E k \in 1 .. Chunks : Overwrite(r, k) ELSE Fill(r, Head(box), 1)
        /\ assoc' = [assoc EXCEPT ![1].inbox = Tail(@)]
    <3>1. reader[r].on = 1
      BY <1>1, <1>5 DEF Receive, IInv, ClientInv, ReaderInv
    <3>. QED  BY <1>5, <3>1 DEF Receive
  <2>2. box \in Seq(Message \cup {Foreign}) /\ assoc[1] \in Assoc
    <3>1. 1 \in 1 .. Len(assoc)
      BY <1>1
    <3>2. assoc[1] \in Assoc
      BY <1>1, <3>1
    <3>. QED  BY <3>2 DEF Assoc
  <2>. HIDE DEF box
  <2>3. /\ Head(box) = box[1] /\ 1 \in 1 .. Len(box) /\ Tail(box) \in Seq(Message \cup {Foreign})
        /\ \A i \in 1 .. Len(Tail(box)) :
              i + 1 \in 1 .. Len(box) /\ Tail(box)[i] = box[i + 1] /\ i + 1 # 1
    BY <2>1, <2>2
  <2>4. assoc'[1].inbox = Tail(box)
    <3>. DEFINE x == [assoc[1] EXCEPT !.inbox = Tail(box)]
    <3>1. assoc' = [assoc EXCEPT ![1] = x]
      BY <2>1 DEF box
    <3>2. x \in Assoc /\ x.inbox = Tail(box)
      BY <2>2, <2>3 DEF Assoc
    <3>. HIDE DEF x
    <3>. QED  BY <1>1, <3>1, <3>2, SeqUpdate
  <2>5. CASE Head(box) = Foreign
    <3>1. PICK k \in 1 .. Chunks : Overwrite(r, k)
      BY <2>1, <2>5
    <3>. DEFINE buf == [i \in 1 .. Chunks |-> IF i <= k THEN Foreign ELSE reader[r].buf[i]]
                x == [reader[r] EXCEPT !.on = conn, !.buf = buf]
    <3>2. reader' = [reader EXCEPT ![r] = x] /\ task' = task
      BY <3>1 DEF Overwrite
    <3>3. reader[r].buf \in [1 .. Chunks -> 0 .. MaxMsgs] /\ MaxMsgs \in Nat
      BY <1>1, F1ClientAssumption DEF Reader, F1ClientAssumption
    <3>4. /\ buf \in [1 .. Chunks -> 0 .. MaxMsgs]
          /\ \A i \in 1 .. Chunks : buf[i] \in {reader[r].buf[i], Foreign}
      <4>1. Foreign \in 0 .. MaxMsgs
        BY <3>3 DEF Foreign
      <4>. QED  BY <3>3, <4>1
    <3>. HIDE DEF buf
    <3>5. x \in Reader /\ x.buf = buf /\ x.step = "read"
      BY <1>1, <2>1, <3>4 DEF Reader
    <3>. HIDE DEF x
    <3>6. /\ 1 \in Nat
          /\ \A i \in 1 .. Len(assoc'[1].inbox) :
                i + 1 \in 1 .. Len(assoc[1].inbox) /\ assoc'[1].inbox[i] = assoc[1].inbox[i + 1]
      BY <2>3, <2>4 DEF box
    <3>. QED  BY <1>2, <2>1, <3>2, <3>4, <3>5, <3>6
  <2>6. CASE Head(box) # Foreign
    <3>1. /\ box[1] = Len(cu.sent) /\ \A g \in Task : ~Decoding(g)
          /\ \A j \in 1 .. Len(box) : box[j] # Foreign => j = 1
      BY <1>1, <2>3, <2>6 DEF OneByOne, InboxWay, box
    <3>2. \A a \in 1 .. Len(assoc) : Drained(a)'
      <4>1. \A i \in 1 .. Len(Tail(box)) : Tail(box)[i] = Foreign
        BY <2>3, <3>1
      <4>2. Drained(1)'
        BY <2>4, <4>1 DEF Drained
      <4>. QED  BY <1>1, <4>2
    <3>3. ~Quiet
      BY <1>1, <2>3, <2>6 DEF Quiet, Drained, box
    <3>4. 1 \in 1 .. Chunks /\ Fill(r, Len(cu.sent), 1)
      BY <1>1, <2>1, <2>3, <2>6, <3>1
    <3>5. \A j \in 1 .. 1 - 1 : reader[r].buf[j] = Len(cu.sent)
      OBVIOUS
    <3>. QED  BY <1>1, <3>1, <3>2, <3>3, <3>4, <3>5, FillWaits
  <2>. QED  BY <2>5, <2>6
<1>6. CASE Copy(r)
  <2>1. Copying(r) /\ Fill(r, reader[r].msg, reader[r].copied + 1) /\ UNCHANGED assoc
    BY <1>6 DEF Copy, Copying
  <2>a. reader[r].copied \in 1 .. Chunks - 1
    BY <1>1, <2>1 DEF Copying, IInv, ClientInv, ReaderInv
  <2>b. reader[r].copied + 1 \in 1 .. Chunks /\ (reader[r].copied + 1) - 1 = reader[r].copied
    BY <1>1, <2>a
  <2>c. /\ reader[r].msg = Len(cu.sent)
        /\ \A j \in 1 .. reader[r].copied : reader[r].buf[j] = Len(cu.sent)
        /\ \A g \in Task : ~Decoding(g)
    BY <1>1, <2>1 DEF OneByOne, CopyWay
  <2>2. \A j \in 1 .. (reader[r].copied + 1) - 1 : reader[r].buf[j] = Len(cu.sent)
    BY <2>b, <2>c
  <2>3. \A a \in 1 .. Len(assoc) : Drained(a)'
    BY <1>1, <2>1 DEF OneByOne, InboxWay, Drained
  <2>4. ~Quiet
    BY <1>1, <2>1 DEF Quiet
  <2>. QED  BY <1>1, <2>1, <2>b, <2>c, <2>2, <2>3, <2>4, FillWaits
<1>. QED  BY <1>3, <1>4, <1>5, <1>6 DEF ReaderStep

\* The CU-CP sends when no message is under way: it knows from the answers
\* it has that the last one was decoded.
LEMMA CuWaits ==
    ASSUME IInv, OneByOne, NEW a \in DOMAIN assoc, NEW kind \in CuKinds, CuSend(a, kind),
           Len(assoc) <= 1, ~cu'.ahead
    PROVE  OneByOne'
<1>. DEFINE n == Len(cu.sent)
            sent == Append(cu.sent, kind)
            did == [cu.did EXCEPT ![a] = @ \cup {kind}]
            ahead == cu.ahead \/ Ahead(a, kind)
<1>1. /\ assoc \in Seq(Assoc) /\ a = 1 /\ Len(assoc) = 1 /\ assoc[1] \in Assoc
      /\ cu \in Cu /\ cu.sent \in Seq(CuKinds) /\ n \in Nat /\ Len(reader) = 1
      /\ cu.did \in Seq(SUBSET CuKinds) /\ Len(cu.did) = 1
  BY DEF IInv, ClientInv, ClientType, CuType, Cu
<1>2. /\ UNCHANGED <<reader, task, ue>> /\ Due(a, kind)
      /\ assoc' = [assoc EXCEPT ![a].inbox = Append(@, n + 1)]
      /\ cu' = [cu EXCEPT !.sent = sent, !.did = did, !.ahead = ahead]
  BY DEF CuSend
<1>3. sent \in Seq(CuKinds) /\ Len(sent) = n + 1 /\ \A i \in 1 .. n : sent[i] = cu.sent[i]
  BY <1>1
<1>4. sent[n + 1] = kind
  BY <1>1
<1>5. did[1] = cu.did[1] \cup {kind}
  <2>1. cu.did[1] \cup {kind} \in SUBSET CuKinds
    BY <1>1
  <2>. QED  BY <1>1, <2>1, SeqUpdate
<1>6. cu'.sent = sent /\ cu'.did = did /\ cu'.got = cu.got /\ ~Ahead(1, kind)
  <2>. HIDE DEF sent, did, ahead
  <2>1. cu'.sent = sent /\ cu'.did = did /\ cu'.got = cu.got /\ cu'.ahead = ahead
    BY <1>1, <1>2 DEF Cu
  <2>. QED  BY <1>1, <2>1 DEF ahead
<1>. HIDE DEF sent, did, ahead
<1>7. /\ kind \notin cu.did[1]
      /\ n = 0 => cu.did[1] = {}
      /\ n >= 1 => "F1SetupResponse" \in cu.did[1] /\ cu.sent[1] = "F1SetupResponse"
      /\ n >= 2 => cu.did[1] \cap {"RRCSetup", "RRCReject"} # {}
      /\ n >= 3 => "DLRRCMessageTransfer" \in cu.did[1]
  BY <1>1, <1>6 DEF Ahead, OneByOne, DidInv
<1>8. \/ kind = "F1SetupResponse" /\ n = 0
      \/ kind \in {"RRCSetup", "RRCReject"} /\ n = 1 /\ SetupSeen
      \/ kind = "DLRRCMessageTransfer" /\ n = 2 /\ RrcSetupSeen
  <2>1. CASE kind = "F1SetupResponse"
    BY <1>1, <1>7, <2>1
  <2>2. CASE kind \in {"RRCSetup", "RRCReject"}
    <3>1. /\ "RRCSetupRequest" \in cu.got[1] /\ "F1SetupResponse" \in cu.did[1]
          /\ cu.did[1] \cap {"RRCSetup", "RRCReject"} = {}
      BY <1>1, <1>2, <2>2 DEF Due
    <3>2. SetupSeen
      BY <1>1, <3>1 DEF SetupSeen
    <3>. QED  BY <1>1, <1>7, <2>2, <3>1, <3>2
  <2>3. CASE kind = "DLRRCMessageTransfer"
    <3>1. "RRCSetupComplete" \in cu.got[1]
      BY <1>1, <1>2, <2>3 DEF Due
    <3>2. RrcSetupSeen
      BY <1>1, <3>1 DEF RrcSetupSeen
    <3>3. n >= 2
      BY <3>2 DEF OneByOne, SeenInv, Decoded
    <3>4. ~(n >= 3)
      BY <1>7, <2>3
    <3>5. n = 2
      <4>. HIDE DEF n
      <4>. QED  BY <1>1, <3>3, <3>4
    <3>. QED  BY <2>3, <3>2, <3>5
  <2>. QED  BY <2>1, <2>2, <2>3 DEF CuKinds
<1>9. Quiet
  <2>1. CASE n = 0
    <3>1. Sent = {}
      BY <2>1 DEF Sent
    <3>2. \A b \in 1 .. Len(assoc) : Drained(b)
      BY <3>1 DEF IInv, ClientInv, InboxInv, Found, Drained
    <3>. QED  BY <3>1, <3>2 DEF Quiet, Copying, Decoding, IInv, ClientInv, ReaderInv, TaskInv
  <2>2. CASE n # 0
    BY <1>8, <2>2 DEF OneByOne, SeenInv, Decoded
  <2>. QED  BY <2>1, <2>2
<1>10. /\ Len(assoc') = 1
       /\ \A i \in 1 .. Len(assoc'[1].inbox) :
             \/ assoc'[1].inbox[i] = Foreign
             \/ assoc'[1].inbox[i] = n + 1 /\ i = Len(assoc[1].inbox) + 1
  <2>. DEFINE box == assoc[1].inbox
              x == [assoc[1] EXCEPT !.inbox = Append(box, n + 1)]
  <2>1. box \in Seq(Message \cup {Foreign}) /\ \A i \in 1 .. Len(box) : box[i] = Foreign
    BY <1>1, <1>9 DEF Quiet, Drained, Assoc
  <2>2. assoc' = [assoc EXCEPT ![1] = x]
    BY <1>1, <1>2
  <2>3. x.inbox = Append(box, n + 1)
    BY <1>1 DEF Assoc
  <2>4. assoc'[1] = x /\ Len(assoc') = 1
    BY <1>1, <2>2
  <2>. HIDE DEF box, x, n
  <2>5. \A i \in 1 .. Len(Append(box, n + 1)) :
           \/ Append(box, n + 1)[i] = Foreign
           \/ Append(box, n + 1)[i] = n + 1 /\ i = Len(box) + 1
    BY <2>1
  <2>. QED  BY <2>3, <2>4, <2>5 DEF box
<1>11. SetupSeen' => SetupSeen
  BY <1>1, <1>2, <1>6, <1>10 DEF SetupSeen
<1>12. RrcSetupSeen' => RrcSetupSeen
  <2>1. \A g \in Task : task[g].step = "forward" => sent[task[g].got] = cu.sent[task[g].got]
    BY <1>3 DEF IInv, ClientInv, TaskInv, Sent
  <2>. QED  BY <1>1, <1>2, <1>6, <1>10, <2>1 DEF RrcSetupSeen
<1>13. SeenInv'
  BY <1>1, <1>3, <1>6, <1>8, <1>11, <1>12 DEF OneByOne, SeenInv, Decoded
<1>14. DidInv'
  <2>1. sent[1] = "F1SetupResponse"
    BY <1>1, <1>3, <1>4, <1>7, <1>8
  <2>2. Len(cu'.sent) = n + 1 /\ cu'.did[1] = cu.did[1] \cup {kind}
    BY <1>3, <1>5, <1>6
  <2>3. /\ "F1SetupResponse" \in cu'.did[1]
        /\ n + 1 >= 2 => cu'.did[1] \cap {"RRCSetup", "RRCReject"} # {}
        /\ n + 1 >= 3 => "DLRRCMessageTransfer" \in cu'.did[1]
    <3>1. n \in Nat /\ (n = 0 \/ n = 1 \/ n = 2)
      BY <1>1, <1>8
    <3>2. n # 0 => "F1SetupResponse" \in cu.did[1]
      BY <1>7, <3>1
    <3>3. n = 2 => cu.did[1] \cap {"RRCSetup", "RRCReject"} # {}
      BY <1>7
    <3>. HIDE DEF n
    <3>. QED  BY <1>8, <2>2, <3>1, <3>2, <3>3
  <2>. HIDE DEF n
  <2>4. Len(assoc') = 1 /\ n \in Nat
    BY <1>1, <1>10
  <2>5. cu'.sent[1] = "F1SetupResponse"
    BY <1>6, <2>1
  <2>. QED  BY <2>2, <2>3, <2>4, <2>5 DEF DidInv
<1>15. InboxWay' /\ CopyWay' /\ DecodeWay'
  <2>1. /\ reader' = reader /\ task' = task /\ Len(cu'.sent) = n + 1
        /\ \A r \in 1 .. Len(reader) : ~Copying(r)
        /\ \A g \in Task : ~Decoding(g)
    BY <1>2, <1>3, <1>6, <1>9 DEF Quiet
  <2>. HIDE DEF n
  <2>2. InboxWay'
    <3>1. \A i \in 1 .. Len(assoc'[1].inbox) :
             assoc'[1].inbox[i] # Foreign =>
                /\ assoc'[1].inbox[i] = n + 1
                /\ \A j \in 1 .. Len(assoc'[1].inbox) : assoc'[1].inbox[j] # Foreign => j = i
      BY <1>10
    <3>. QED  BY <1>10, <2>1, <3>1 DEF InboxWay, Copying, Decoding
  <2>3. CopyWay' /\ DecodeWay'
    BY <2>1 DEF CopyWay, DecodeWay, Copying, Decoding
  <2>. QED  BY <2>2, <2>3
<1>16. GotInv'
  BY <1>2 DEF OneByOne, GotInv
<1>. QED  BY <1>13, <1>14, <1>15, <1>16 DEF OneByOne
------------------------------------------------------------------------------
(* The theorem                                                              *)

LEMMA LenUpdate ==
    ASSUME NEW S, NEW s \in Seq(S), NEW i \in 1 .. Len(s), NEW x
    PROVE  Len([s EXCEPT ![i] = x]) = Len(s)
<1>. DOMAIN [s EXCEPT ![i] = x] = 1 .. Len(s)
  OBVIOUS
<1>. QED  OBVIOUS

\* Associations are never forgotten, nor that the CU-CP ran ahead once.
Later == Len(assoc) <= Len(assoc') /\ (cu.ahead => cu'.ahead)

LEMMA WaitsLater == IInv /\ [Next]_vars => Later
<1>. SUFFICES ASSUME IInv, [Next]_vars PROVE Later
  OBVIOUS
<1>1. /\ assoc \in Seq(Assoc) /\ cu \in Cu /\ conn = Len(assoc)
      /\ Len(assoc) \in Nat
  BY DEF IInv, ClientInv, ClientType, CuType
<1>2. ASSUME UNCHANGED <<assoc, cu>> PROVE Later
  BY <1>1, <1>2 DEF Later
<1>3. ASSUME NEW a \in 1 .. Len(assoc), NEW x, assoc' = [assoc EXCEPT ![a] = x] PROVE Len(assoc') = Len(assoc)
  BY <1>1, <1>3, LenUpdate
<1>4. ASSUME NEW c \in Caller, Call(c) \/ CallerStep(c) PROVE Later
  <2>1. CASE Call(c) \/ StartLock(c)
    BY <1>2, <2>1 DEF Call, StartLock, clientVars
  <2>2. CASE StartConnect(c)
    <3>1. CASE UNCHANGED <<clientVars, cu>>
      BY <1>2, <3>1 DEF clientVars
    <3>2. CASE /\ Connect
               /\ cu' = [cu EXCEPT !.did = Append(@, {}), !.got = Append(@, {})]
      <4>1. assoc' = Append(assoc, [link |-> "up", inbox |-> <<>>])
        BY <3>2 DEF Connect
      <4>2. Len(assoc') = Len(assoc) + 1
        BY <1>1, <4>1
      <4>3. cu'.ahead = cu.ahead
        BY <1>1, <3>2 DEF Cu
      <4>. QED  BY <1>1, <4>2, <4>3 DEF Later
    <3>. QED  BY <2>2, <3>1, <3>2 DEF StartConnect
  <2>3. CASE StartSend(c)
    <3>1. assoc' = assoc /\ cu'.ahead = cu.ahead
      BY <1>1, <2>3 DEF StartSend, clientVars, Cu
    <3>. QED  BY <1>1, <3>1 DEF Later
  <2>4. CASE Stop(c)
    <3>1. CASE conn = 0
      BY <1>2, <2>4, <3>1 DEF Stop, Close
    <3>2. CASE conn # 0
      <4>1. cu' = cu /\ assoc' = [assoc EXCEPT ![conn] = [link |-> "closed", inbox |-> <<>>]] /\ conn \in 1 .. Len(assoc)
        BY <1>1, <2>4, <3>2 DEF Stop, Close
      <4>2. Len(assoc') = Len(assoc)
        BY <1>3, <4>1
      <4>. QED  BY <1>1, <4>1, <4>2 DEF Later
    <3>. QED  BY <3>1, <3>2
  <2>. QED  BY <1>4, <2>1, <2>2, <2>3, <2>4 DEF CallerStep
<1>5. ASSUME NEW g \in Task, TaskStep(g) PROVE Later
  BY <1>2, <1>5
     DEF TaskStep, Decode, OnF1SetupResponse, InitRRCConn, HandleRRCSetup, Forward
<1>6. ASSUME Uplink \/ Listen PROVE Later
  <2>1. assoc' = assoc /\ cu'.ahead = cu.ahead
    BY <1>1, <1>6 DEF Uplink, Listen, clientVars, Cu
  <2>. QED  BY <1>1, <2>1 DEF Later
<1>7. ASSUME NEW a \in DOMAIN assoc, NEW kind \in CuKinds, CuSend(a, kind) PROVE Later
  <2>. DEFINE sent == Append(cu.sent, kind)
              did == [cu.did EXCEPT ![a] = @ \cup {kind}]
              ahead == cu.ahead \/ Ahead(a, kind)
  <2>1. /\ assoc' = [assoc EXCEPT ![a].inbox = Append(@, Len(cu.sent) + 1)]
        /\ cu' = [cu EXCEPT !.sent = sent, !.did = did, !.ahead = ahead]
    BY <1>7 DEF CuSend
  <2>2. Len(assoc') = Len(assoc)
    BY <1>1, <1>3, <2>1
  <2>3. cu.ahead => cu'.ahead
    <3>. HIDE DEF sent, did, ahead
    <3>1. cu'.ahead = ahead
      BY <1>1, <2>1 DEF Cu
    <3>. QED  BY <3>1 DEF ahead
  <2>. QED  BY <1>1, <2>2, <2>3 DEF Later
<1>8. ASSUME NEW a \in DOMAIN assoc, Lose(a), UNCHANGED duVars PROVE Later
  <2>1. cu' = cu
    BY <1>8 DEF duVars
  <2>2. Len(assoc') = Len(assoc)
    BY <1>8, <2>1, LoseInv DEF IInv
  <2>. QED  BY <1>1, <2>1, <2>2 DEF Later
<1>9. ASSUME NEW r \in DOMAIN reader, ReaderStep(r), UNCHANGED duVars PROVE Later
  <2>1. cu' = cu
    BY <1>9 DEF duVars
  <2>2. Len(assoc') = Len(assoc)
    BY <1>9, <2>1, ReaderStepInv DEF IInv
  <2>. QED  BY <1>1, <2>1, <2>2 DEF Later
<1>10. ASSUME NEW a \in DOMAIN assoc, CuSendsForeign(a) PROVE Later
  BY <1>1, <1>10, ForeignInv DEF Later
<1>11. CASE UNCHANGED vars
  BY <1>2, <1>11 DEF vars
<1>. QED  BY <1>4, <1>5, <1>6, <1>7, <1>8, <1>9, <1>10, <1>11 DEF Next

LEMMA WaitsStep == IInv /\ WaitsInv /\ [Next]_vars => WaitsInv'
<1>. SUFFICES ASSUME IInv, WaitsInv, [Next]_vars, Waits' PROVE OneByOne' /\ ExitInv'
  BY DEF WaitsInv
<1>1. IInv' /\ Len(assoc) \in Nat /\ Len(assoc') \in Nat
  BY InvStep DEF IInv, ClientInv, ClientType
<1>2. Len(assoc) <= 1 /\ Len(assoc') <= 1 /\ ~cu'.ahead /\ OneByOne /\ ExitInv
  BY <1>1, WaitsLater DEF Later, Waits, WaitsInv
<1>3. ASSUME NEW a \in DOMAIN assoc, Lose(a), UNCHANGED duVars PROVE OneByOne'
  <2>1. a \in 1 .. Len(assoc) /\ "lost" \in Links
    BY DEF IInv, ClientInv, ClientType, Links
  <2>2. /\ assoc' = [assoc EXCEPT ![a] = With(assoc[a], "lost", Foreign)]
        /\ UNCHANGED <<reader, task, ue, cu>>
    BY <1>3 DEF Lose, duVars, With
  <2>. QED  BY <1>2, <2>1, <2>2, ForeignWaits
<1>4. ASSUME NEW a \in DOMAIN assoc, CuSendsForeign(a) PROVE OneByOne'
  <2>1. a \in 1 .. Len(assoc) /\ assoc[a] \in Assoc /\ assoc[a].link \in Links
    <3>1. a \in 1 .. Len(assoc) /\ assoc[a] \in Assoc
      BY DEF IInv, ClientInv, ClientType
    <3>. QED  BY <3>1 DEF Assoc
  <2>2. assoc' = [assoc EXCEPT ![a] = With(assoc[a], assoc[a].link, Foreign)]
    <3>1. assoc' = [assoc EXCEPT ![a] = [assoc[a] EXCEPT !.inbox = Append(assoc[a].inbox, Foreign)]]
      BY <1>4 DEF CuSendsForeign
    <3>2. \A y \in Assoc : \A v : [y EXCEPT !.inbox = v] = [link |-> y.link, inbox |-> v]
      BY DEF Assoc
    <3>. QED  BY <2>1, <3>1, <3>2 DEF With
  <2>3. UNCHANGED <<reader, task, ue>>
    BY <1>4 DEF CuSendsForeign
  <2>. QED  BY <1>2, <1>4, <2>1, <2>2, <2>3, ForeignInv, ForeignWaits
<1>5. ASSUME NEW r \in DOMAIN reader, ReaderStep(r), UNCHANGED duVars PROVE OneByOne'
  <2>1. UNCHANGED <<ue, cu>>
    BY <1>5 DEF duVars
  <2>2. Len(assoc') = Len(assoc)
    BY <1>5, <2>1, ReaderStepInv DEF IInv
  <2>. QED  BY <1>1, <1>2, <1>5, <2>1, <2>2, ReaderWaits
<1>6. CASE UNCHANGED vars
  <2>1. OneByOne'
    BY <1>2, <1>6, OnlyLinks, AllKept DEF vars
  <2>. QED  BY <1>2, <1>6, <2>1 DEF vars, ExitInv, Decoding, Bytes
<1>7. CASE Next
  <2>1. OneByOne'
    BY <1>2, <1>3, <1>4, <1>5, <1>7, CallerWaits, TaskWaits, UeWaits, CuWaits DEF Next
  <2>2. ~exited
    BY <1>7 DEF Next
  <2>3. ASSUME NEW g \in Task, TaskStep(g) PROVE ExitInv'
    <3>1. CASE Decode(g)
      BY <1>2, <2>2, <3>1, DecodeWaits DEF ExitInv
    <3>2. CASE ~Decode(g)
      <4>1. exited' = exited
        BY <2>3, <3>2 DEF TaskStep, OnF1SetupResponse, InitRRCConn, HandleRRCSetup, Forward
      <4>. QED  BY <2>2, <4>1 DEF ExitInv
    <3>. QED  BY <3>1, <3>2
  <2>4. (\A g \in Task : ~TaskStep(g)) => exited' = exited
    BY <1>7 DEF Next, Call, CallerStep, StartLock, StartConnect, StartSend, Stop, Uplink, Listen,
                CuSend, CuSendsForeign, duVars
  <2>. QED  BY <2>1, <2>2, <2>3, <2>4 DEF ExitInv
<1>. QED  BY <1>6, <1>7

\* No goroutine takes one message for another, and only what is no F1AP
\* message makes the simulator exit, for any number of messages and of steps
\* in which one is copied into the shared buffer, as long as there is one
\* association and the CU-CP waits for the answers.
THEOREM DecodesAsReceived == Spec => []AsReceived
<1>1. WaitsInv => AsReceived
  BY DEF WaitsInv, Waits, OneByOne, GotInv, ExitInv, Decoding, AsReceived
<1>2. Spec => [](IInv /\ WaitsInv)
  BY InitInv, InitWaits, InvStep, WaitsStep, PTL DEF Spec
<1>. QED  BY <1>1, <1>2, PTL
==============================================================================

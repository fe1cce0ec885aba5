------------------------- MODULE DuLifecycle_proofs -------------------------
(***************************************************************************)
(* Proofs about DuLifecycle: who holds du.mu, what a goroutine may find in *)
(* the buffer it was given, and the one Initial UL, for any number of      *)
(* goroutines, associations and messages.                                  *)
(***************************************************************************)
EXTENDS DuLifecycle, TLAPS

Sent == 1 .. Len(cu.sent)

\* What may be in an inbox, and in a buffer that has been full.
Found == Sent \cup {Foreign}

\* A mutex is held by the goroutine in its critical section.
MutexInv ==
    /\ \A c \in Caller : mu = c <=> caller[c] \in {"connect", "send"}
    /\ \A g \in Task : mu = g <=> task[g].step \in {"init", "await"}

InboxInv ==
    \A a \in 1 .. Len(assoc) : \A i \in 1 .. Len(assoc[a].inbox) :
        assoc[a].inbox[i] \in Found

\* What a ReadLoop has copied so far are chunks of messages.
ReaderInv ==
    \A r \in 1 .. Len(reader) :
        /\ reader[r].step = "read" => reader[r].on \in 1 .. Len(assoc)
        /\ reader[r].step = "copy" =>
              /\ reader[r].msg \in Sent /\ reader[r].copied \in 1 .. Chunks - 1
              /\ \A k \in 1 .. reader[r].copied : reader[r].buf[k] \in Sent

\* A goroutine's buffer has been full once; messages overwrite it, and what
\* is none.
TaskInv ==
    \A g \in Task :
        /\ task[g].step # "idle" =>
              /\ task[g].reader \in 1 .. Len(reader)
              /\ task[g].msg \in Sent
              /\ \A k \in 1 .. Chunks : reader[task[g].reader].buf[k] \in Found
        /\ task[g].step \notin {"idle", "decode"} => task[g].got \in Sent

InitialInv == cu.initials <= 1 /\ (ue.initial => cu.initials = 0)

------------------------------------------------------------------------------
(* Types, part by part                                                      *)

Assoc == [link : Links, inbox : Seq(Message \cup {Foreign})]
Reader == [step : ReaderSteps, on : 0 .. MaxConns, msg : 0 .. MaxMsgs,
           copied : 0 .. Chunks - 1, buf : [1 .. Chunks -> 0 .. MaxMsgs]]
Goroutine == [step : TaskSteps, reader : 0 .. MaxConns, msg : 0 .. MaxMsgs, got : 0 .. MaxMsgs]
Ue == [progress : {"nil", "starting", "up", "failed"}, initial : BOOLEAN,
       to : Seq(CuKinds), from : Seq(Received)]
Cu == [sent : Seq(CuKinds), did : Seq(SUBSET CuKinds), got : Seq(SUBSET Received),
       initials : Nat, ahead : BOOLEAN, foreign : BOOLEAN]

ClientType ==
    /\ assoc \in Seq(Assoc) /\ Len(assoc) <= MaxConns /\ conn = Len(assoc)
    /\ reader \in Seq(Reader) /\ Len(reader) = Len(assoc)
    /\ task \in [Task -> Goroutine]

CuType ==
    /\ cu \in Cu /\ Len(cu.sent) <= MaxMsgs
    /\ Len(cu.did) = Len(assoc) /\ Len(cu.got) = Len(assoc)

DuType ==
    /\ state \in {"INACTIVE", "ACTIVE"} /\ mu \in Caller \cup Task \cup {Free}
    /\ ue \in Ue /\ caller \in [Caller -> CallerSteps] /\ exited \in BOOLEAN

ClientInv == ClientType /\ InboxInv /\ ReaderInv /\ TaskInv
IInv == ClientInv /\ CuType /\ DuType /\ MutexInv /\ InitialInv

\* The parts make up the type invariant.
LEMMA TypeParts == IInv => TypeOK
<1>. SUFFICES ASSUME IInv PROVE TypeOK
  OBVIOUS
<1>1. ClientTypeOK
  BY DEF IInv, ClientInv, ClientType, ClientTypeOK, Assoc, Reader, Goroutine
<1>2. /\ cu.sent \in Seq(CuKinds) /\ Len(cu.sent) <= MaxMsgs
      /\ cu.initials \in Nat /\ {cu.ahead, cu.foreign} \subseteq BOOLEAN
  BY DEF IInv, CuType, Cu
<1>3. cu.did \in [1 .. Len(assoc) -> SUBSET CuKinds]
  BY DEF IInv, CuType, Cu
<1>4. cu.got \in [1 .. Len(assoc) -> SUBSET Received]
  BY DEF IInv, CuType, Cu
<1>. QED  BY <1>1, <1>2, <1>3, <1>4 DEF IInv, DuType, Ue, TypeOK

\* Replacing an element of a sequence.
LEMMA SeqUpdate ==
    ASSUME NEW S, NEW s \in Seq(S), NEW i \in 1 .. Len(s), NEW x \in S
    PROVE  /\ [s EXCEPT ![i] = x] \in Seq(S)
           /\ Len([s EXCEPT ![i] = x]) = Len(s)
           /\ [s EXCEPT ![i] = x][i] = x
           /\ \A j \in 1 .. Len(s) : j # i => [s EXCEPT ![i] = x][j] = s[j]
OBVIOUS

LEMMA IdleType ==
    /\ IdleTask \in Goroutine
    /\ NewReader \in Reader
BY F1ClientAssumption
   DEF F1ClientAssumption, IdleTask, NewReader, Goroutine, Reader, TaskSteps, ReaderSteps

LEMMA InitInv == Init => IInv
<1>. SUFFICES ASSUME Init PROVE IInv
  OBVIOUS
<1>1. /\ conn = 0 /\ assoc = <<>> /\ reader = <<>> /\ task = [g \in Task |-> IdleTask]
  BY DEF Init, ClientInit
<1>2. Len(assoc) = 0 /\ Len(reader) = 0 /\ assoc \in Seq(Assoc) /\ reader \in Seq(Reader)
  BY <1>1
<1>3. ClientInv
  <2>1. ClientType
    BY <1>1, <1>2, IdleType, F1ClientAssumption DEF ClientType, F1ClientAssumption
  <2>2. \A g \in Task : task[g].step = "idle"
    BY <1>1 DEF IdleTask
  <2>. QED  BY <1>2, <2>1, <2>2 DEF ClientInv, InboxInv, ReaderInv, TaskInv
<1>4. CuType
  <2>1. <<>> \in Seq(CuKinds) /\ <<>> \in Seq(SUBSET CuKinds) /\ <<>> \in Seq(SUBSET Received)
        /\ Len(<<>>) = 0
    OBVIOUS
  <2>. QED  BY <1>1, <2>1, F1ClientAssumption DEF Init, CuType, Cu, F1ClientAssumption
<1>5. DuType
  <2>1. <<>> \in Seq(CuKinds) /\ <<>> \in Seq(Received)
    OBVIOUS
  <2>. QED  BY <2>1 DEF Init, DuType, Ue, CallerSteps
<1>6. MutexInv
  BY <1>1, LifecycleAssumption DEF Init, MutexInv, LifecycleAssumption, IdleTask
<1>7. InitialInv
  BY DEF Init, InitialInv
<1>. QED  BY <1>3, <1>4, <1>5, <1>6, <1>7 DEF IInv

------------------------------------------------------------------------------
(* The client's steps                                                       *)

\* Goroutines go on, or start.
Others ==
    \A g \in Task : \/ task'[g] = task[g]
                    \/ task[g].step = "idle" /\ task'[g].step = "decode"

\* A chunk of a message lands in a buffer.
LEMMA FillInv ==
    ASSUME ClientInv, CuType, UNCHANGED cu, Len(assoc') = Len(assoc),
           NEW r \in 1 .. Len(reader), NEW m \in Sent, NEW k \in 1 .. Chunks,
           \A j \in 1 .. k - 1 : reader[r].buf[j] \in Sent,
           Fill(r, m, k)
    PROVE  /\ reader' \in Seq(Reader) /\ Len(reader') = Len(reader)
           /\ task' \in [Task -> Goroutine]
           /\ ReaderInv' /\ TaskInv' /\ Others
<1>. DEFINE buf == [reader[r].buf EXCEPT ![k] = m]
<1>1. /\ Chunks \in Nat \ {0} /\ MaxConns \in Nat /\ MaxMsgs \in Nat
      /\ Len(reader) <= MaxConns /\ m \in 0 .. MaxMsgs
      /\ Sent' = Sent /\ Found' = Found /\ Sent \subseteq Found
  BY F1ClientAssumption DEF F1ClientAssumption, ClientInv, ClientType, CuType, Cu, Sent, Found
<1>2. /\ reader[r] \in Reader /\ reader \in Seq(Reader) /\ task \in [Task -> Goroutine]
      /\ reader[r].buf \in [1 .. Chunks -> 0 .. MaxMsgs]
  <2>1. reader[r] \in Reader /\ reader \in Seq(Reader) /\ task \in [Task -> Goroutine]
    BY DEF ClientInv, ClientType
  <2>. QED  BY <2>1 DEF Reader
<1>3. /\ buf \in [1 .. Chunks -> 0 .. MaxMsgs]
      /\ \A j \in 1 .. k : buf[j] \in Sent
      /\ \A j \in 1 .. Chunks : reader[r].buf[j] \in Found => buf[j] \in Found
  <2>1. /\ buf \in [1 .. Chunks -> 0 .. MaxMsgs] /\ buf[k] = m
        /\ \A j \in 1 .. Chunks : j # k => buf[j] = reader[r].buf[j]
    BY <1>1, <1>2
  <2>. HIDE DEF buf
  <2>2. \A j \in 1 .. k : j \in 1 .. Chunks /\ (j = k \/ j \in 1 .. k - 1)
    BY <1>1
  <2>3. \A j \in 1 .. k : buf[j] \in Sent
    BY <2>1, <2>2
  <2>4. \A j \in 1 .. Chunks : reader[r].buf[j] \in Found => buf[j] \in Found
    BY <1>1, <2>1
  <2>. QED  BY <2>1, <2>3, <2>4
<1>. HIDE DEF buf
<1>4. ASSUME NEW x \in Reader, reader' = [reader EXCEPT ![r] = x], x.buf = buf,
             x.step = "copy" => x.msg = m /\ x.copied = k /\ k < Chunks,
             x.step \in {"copy", "top"}
      PROVE  /\ reader' \in Seq(Reader) /\ Len(reader') = Len(reader) /\ ReaderInv'
             /\ reader'[r].buf = buf
             /\ \A q \in 1 .. Len(reader), j \in 1 .. Chunks :
                   reader[q].buf[j] \in Found => reader'[q].buf[j] \in Found
  <2>1. /\ reader' \in Seq(Reader) /\ Len(reader') = Len(reader) /\ reader'[r] = x
        /\ \A q \in 1 .. Len(reader) : q # r => reader'[q] = reader[q]
    BY <1>2, <1>4, SeqUpdate
  <2>2. ReaderInv'
    <3>1. ASSUME NEW q \in 1 .. Len(reader)
          PROVE  /\ reader'[q].step = "read" => reader'[q].on \in 1 .. Len(assoc')
                 /\ reader'[q].step = "copy" =>
                       /\ reader'[q].msg \in Sent /\ reader'[q].copied \in 1 .. Chunks - 1
                       /\ \A j \in 1 .. reader'[q].copied : reader'[q].buf[j] \in Sent
      <4>1. CASE q = r
        <5>1. reader'[q] = x
          BY <2>1, <4>1
        <5>2. ASSUME x.step = "copy"
              PROVE  /\ x.msg \in Sent /\ x.copied \in 1 .. Chunks - 1
                     /\ \A j \in 1 .. x.copied : x.buf[j] \in Sent
          <6>1. x.msg = m /\ x.copied = k /\ k < Chunks /\ x.buf = buf
            BY <1>4, <5>2
          <6>2. k \in 1 .. Chunks - 1
            BY <1>1, <6>1
          <6>. QED  BY <1>3, <6>1, <6>2
        <5>. QED  BY <1>4, <5>1, <5>2
      <4>2. CASE q # r
        BY <2>1, <4>2 DEF ClientInv, ReaderInv
      <4>. QED  BY <4>1, <4>2
    <3>. QED  BY <1>1, <2>1, <3>1 DEF ReaderInv
  <2>3. ASSUME NEW q \in 1 .. Len(reader), NEW j \in 1 .. Chunks, reader[q].buf[j] \in Found
        PROVE  reader'[q].buf[j] \in Found
    BY <1>3, <1>4, <2>1, <2>3
  <2>. QED  BY <1>4, <2>1, <2>2, <2>3
<1>5. CASE k < Chunks
  <2>. DEFINE x == [reader[r] EXCEPT !.step = "copy", !.msg = m, !.copied = k, !.buf = buf]
  <2>1. k \in 0 .. Chunks - 1
    BY <1>1, <1>5
  <2>2. /\ x \in Reader /\ x.buf = buf /\ x.step = "copy" /\ x.msg = m /\ x.copied = k
    BY <1>1, <1>2, <1>3, <2>1 DEF Reader, ReaderSteps
  <2>3. reader' = [reader EXCEPT ![r] = x] /\ task' = task
    BY <1>5 DEF Fill, buf
  <2>. HIDE DEF x
  <2>4. /\ reader' \in Seq(Reader) /\ Len(reader') = Len(reader) /\ ReaderInv'
        /\ reader'[r].buf = buf
        /\ \A q \in 1 .. Len(reader), j \in 1 .. Chunks :
              reader[q].buf[j] \in Found => reader'[q].buf[j] \in Found
    BY <1>4, <1>5, <2>2, <2>3
  <2>5. TaskInv'
    <3>1. TaskInv /\ task' = task /\ Sent' = Sent /\ Found' = Found
      BY <1>1, <2>3 DEF ClientInv
    <3>. QED  BY <2>4, <3>1 DEF TaskInv
  <2>. QED  BY <1>2, <2>3, <2>4, <2>5 DEF Others
<1>6. CASE ~(k < Chunks)
  <2>. DEFINE x == [NewReader EXCEPT !.buf = buf]
  <2>1. k = Chunks
    BY <1>1, <1>6
  <2>2. x \in Reader /\ x.buf = buf /\ x.step = "top"
    BY <1>3, IdleType DEF NewReader, Reader
  <2>3. PICK g \in Task :
           /\ task[g] = IdleTask
           /\ task' = [task EXCEPT ![g] =
                         [step |-> "decode", reader |-> r, msg |-> m, got |-> 0]]
           /\ reader' = [reader EXCEPT ![r] = x]
    BY <1>6 DEF Fill, buf
  <2>. HIDE DEF x
  <2>4. /\ reader' \in Seq(Reader) /\ Len(reader') = Len(reader) /\ ReaderInv'
        /\ reader'[r].buf = buf
        /\ \A q \in 1 .. Len(reader), j \in 1 .. Chunks :
              reader[q].buf[j] \in Found => reader'[q].buf[j] \in Found
    BY <1>4, <2>2, <2>3
  <2>5. [step |-> "decode", reader |-> r, msg |-> m, got |-> 0] \in Goroutine
    BY <1>1 DEF Goroutine, TaskSteps
  <2>6. /\ task' \in [Task -> Goroutine]
        /\ task'[g] = [step |-> "decode", reader |-> r, msg |-> m, got |-> 0]
        /\ \A h \in Task \ {g} : task'[h] = task[h]
    BY <1>2, <2>3, <2>5
  <2>7. TaskInv'
    <3>1. ASSUME NEW h \in Task
          PROVE  /\ task'[h].step # "idle" =>
                       /\ task'[h].reader \in 1 .. Len(reader')
                       /\ task'[h].msg \in Sent
                       /\ \A j \in 1 .. Chunks : reader'[task'[h].reader].buf[j] \in Found
                 /\ task'[h].step \notin {"idle", "decode"} => task'[h].got \in Sent
      <4>1. CASE h = g
        <5>1. \A j \in 1 .. Chunks : reader'[r].buf[j] \in Found
          BY <1>1, <1>3, <2>1, <2>4
        <5>. QED  BY <2>4, <2>6, <4>1, <5>1
      <4>2. CASE h # g
        <5>1. task'[h] = task[h] /\ TaskInv
          BY <2>6, <4>2 DEF ClientInv
        <5>. QED  BY <2>4, <5>1 DEF TaskInv
      <4>. QED  BY <4>1, <4>2
    <3>. QED  BY <1>1, <3>1 DEF TaskInv
  <2>8. Others
    <3>1. task[g].step = "idle" /\ task'[g].step = "decode"
      BY <2>3, <2>6 DEF IdleTask
    <3>. QED  BY <2>6, <3>1 DEF Others
  <2>. QED  BY <2>4, <2>6, <2>7, <2>8
<1>. QED  BY <1>5, <1>6

\* What is no message lands in a buffer.
LEMMA OverwriteInv ==
    ASSUME ClientInv, CuType, UNCHANGED cu, Len(assoc') = Len(assoc),
           NEW r \in 1 .. Len(reader), reader[r].step = "read",
           NEW k \in 1 .. Chunks, Overwrite(r, k)
    PROVE  /\ reader' \in Seq(Reader) /\ Len(reader') = Len(reader)
           /\ task' \in [Task -> Goroutine]
           /\ ReaderInv' /\ TaskInv' /\ Others
<1>. DEFINE buf == [i \in 1 .. Chunks |-> IF i <= k THEN Foreign ELSE reader[r].buf[i]]
            x == [reader[r] EXCEPT !.on = conn, !.buf = buf]
<1>1. /\ Chunks \in Nat \ {0} /\ MaxConns \in Nat /\ MaxMsgs \in Nat
      /\ Sent' = Sent /\ Found' = Found /\ Foreign \in Found /\ Foreign = 0
  BY F1ClientAssumption DEF F1ClientAssumption, Sent, Found, Foreign
<1>2. /\ reader[r] \in Reader /\ reader \in Seq(Reader) /\ task \in [Task -> Goroutine]
      /\ conn = Len(assoc) /\ Len(assoc) <= MaxConns /\ Len(reader) = Len(assoc)
  BY DEF ClientInv, ClientType
<1>3. reader[r].buf \in [1 .. Chunks -> 0 .. MaxMsgs]
  BY <1>2 DEF Reader
<1>4. reader' = [reader EXCEPT ![r] = x] /\ task' = task
  BY DEF Overwrite
<1>5. /\ buf \in [1 .. Chunks -> 0 .. MaxMsgs]
      /\ \A i \in 1 .. Chunks : reader[r].buf[i] \in Found => buf[i] \in Found
  BY <1>1, <1>3
<1>. HIDE DEF buf
<1>6. /\ x \in Reader /\ x.buf = buf /\ x.step = "read" /\ x.on \in 1 .. Len(assoc)
  <2>1. conn \in 0 .. MaxConns /\ conn \in 1 .. Len(assoc)
    BY <1>1, <1>2
  <2>. QED  BY <1>2, <1>5, <2>1 DEF Reader
<1>. HIDE DEF x
<1>7. /\ reader' \in Seq(Reader) /\ Len(reader') = Len(reader) /\ reader'[r] = x
      /\ \A q \in 1 .. Len(reader) : q # r => reader'[q] = reader[q]
  BY <1>2, <1>4, <1>6, SeqUpdate
<1>8. \A q \in 1 .. Len(reader), i \in 1 .. Chunks :
          reader[q].buf[i] \in Found => reader'[q].buf[i] \in Found
  BY <1>5, <1>6, <1>7
<1>9. ReaderInv'
  <2>1. ASSUME NEW q \in 1 .. Len(reader)
        PROVE  /\ reader'[q].step = "read" => reader'[q].on \in 1 .. Len(assoc')
               /\ reader'[q].step = "copy" =>
                     /\ reader'[q].msg \in Sent /\ reader'[q].copied \in 1 .. Chunks - 1
                     /\ \A j \in 1 .. reader'[q].copied : reader'[q].buf[j] \in Sent
    <3>1. CASE q = r
      BY <1>6, <1>7, <3>1
    <3>2. CASE q # r
      BY <1>7, <3>2 DEF ClientInv, ReaderInv
    <3>. QED  BY <3>1, <3>2
  <2>. QED  BY <1>1, <1>7, <2>1 DEF ReaderInv
<1>10. TaskInv'
  <2>1. TaskInv /\ task' = task
    BY <1>4 DEF ClientInv
  <2>. QED  BY <1>1, <1>7, <1>8, <2>1 DEF TaskInv
<1>. QED  BY <1>2, <1>4, <1>7, <1>9, <1>10 DEF Others

\* ReadLoop: a read starts, gets a message, copies it, or fails.
LEMMA ReaderStepInv ==
    ASSUME ClientInv, CuType, UNCHANGED cu, NEW r \in DOMAIN reader, ReaderStep(r)
    PROVE  ClientInv' /\ Others /\ Len(assoc') = Len(assoc)
<1>1. /\ reader \in Seq(Reader) /\ assoc \in Seq(Assoc) /\ Len(reader) = Len(assoc)
      /\ r \in 1 .. Len(reader) /\ task \in [Task -> Goroutine] /\ conn = Len(assoc)
      /\ reader[r] \in Reader /\ Sent' = Sent /\ Found' = Found /\ Len(assoc) <= MaxConns
      /\ MaxConns \in Nat /\ Chunks \in Nat \ {0}
  BY F1ClientAssumption DEF F1ClientAssumption, ClientInv, ClientType, Sent, Found
<1>2. ASSUME NEW x \in Reader, reader' = [reader EXCEPT ![r] = x], x.buf = reader[r].buf,
             x.step = "read" => x.on \in 1 .. Len(assoc), x.step # "copy",
             UNCHANGED <<conn, assoc, task>>
      PROVE  ClientInv' /\ Others
  <2>1. /\ reader' \in Seq(Reader) /\ Len(reader') = Len(reader) /\ reader'[r] = x
        /\ \A q \in 1 .. Len(reader) : q # r => reader'[q] = reader[q]
    BY <1>1, <1>2, SeqUpdate
  <2>2. ClientType' /\ InboxInv' /\ Others
    <3>1. assoc' = assoc /\ conn' = conn /\ task' = task
      BY <1>2
    <3>2. ClientType'
      BY <1>1, <2>1, <3>1 DEF ClientType
    <3>3. InboxInv'
      BY <1>1, <3>1 DEF ClientInv, InboxInv
    <3>. QED  BY <3>1, <3>2, <3>3 DEF Others
  <2>3. ReaderInv'
    <3>1. ASSUME NEW q \in 1 .. Len(reader)
          PROVE  /\ reader'[q].step = "read" => reader'[q].on \in 1 .. Len(assoc)
                 /\ reader'[q].step = "copy" =>
                       /\ reader'[q].msg \in Sent /\ reader'[q].copied \in 1 .. Chunks - 1
                       /\ \A j \in 1 .. reader'[q].copied : reader'[q].buf[j] \in Sent
      BY <1>2, <2>1 DEF ClientInv, ReaderInv
    <3>. QED  BY <1>1, <1>2, <2>1, <3>1 DEF ReaderInv
  <2>4. TaskInv'
    <3>1. \A q \in 1 .. Len(reader) : reader'[q].buf = reader[q].buf
      BY <1>2, <2>1
    <3>. QED  BY <1>1, <1>2, <2>1, <3>1 DEF ClientInv, TaskInv
  <2>. QED  BY <2>2, <2>3, <2>4 DEF ClientInv
<1>3. CASE CallRead(r)
  <2>. DEFINE x == [reader[r] EXCEPT !.step = "read", !.on = conn]
  <2>1. /\ x \in Reader /\ x.buf = reader[r].buf /\ x.step = "read"
        /\ x.on \in 1 .. Len(assoc)
    <3>1. conn \in 0 .. MaxConns /\ conn \in 1 .. Len(assoc)
      BY <1>1
    <3>. QED  BY <1>1, <3>1 DEF Reader, ReaderSteps
  <2>2. reader' = [reader EXCEPT ![r] = x] /\ UNCHANGED <<conn, assoc, task>>
    BY <1>1, <1>3 DEF CallRead
  <2>. HIDE DEF x
  <2>. QED  BY <1>1, <1>2, <2>1, <2>2
<1>4. CASE ReadFails(r)
  <2>. DEFINE x == [reader[r] EXCEPT !.step = "returned"]
  <2>1. x \in Reader /\ x.buf = reader[r].buf /\ x.step = "returned"
    BY <1>1 DEF Reader, ReaderSteps
  <2>2. reader' = [reader EXCEPT ![r] = x] /\ UNCHANGED <<conn, assoc, task>>
    BY <1>1, <1>4 DEF ReadFails
  <2>. HIDE DEF x
  <2>. QED  BY <1>1, <1>2, <2>1, <2>2
<1>5. CASE Copy(r)
  <2>1. /\ reader[r].msg \in Sent /\ reader[r].copied + 1 \in 1 .. Chunks
        /\ \A j \in 1 .. (reader[r].copied + 1) - 1 : reader[r].buf[j] \in Sent
        /\ Fill(r, reader[r].msg, reader[r].copied + 1) /\ UNCHANGED <<conn, assoc>>
    BY <1>1, <1>5 DEF Copy, ClientInv, ReaderInv
  <2>2. /\ reader' \in Seq(Reader) /\ Len(reader') = Len(reader)
        /\ task' \in [Task -> Goroutine]
        /\ ReaderInv' /\ TaskInv' /\ Others
    BY <1>1, <2>1, FillInv
  <2>3. ClientType' /\ InboxInv'
    BY <1>1, <2>1, <2>2 DEF ClientInv, ClientType, InboxInv
  <2>. QED  BY <2>1, <2>2, <2>3 DEF ClientInv
<1>6. CASE Receive(r)
  <2>. DEFINE a == reader[r].on
              rest == [link |-> assoc[a].link, inbox |-> Tail(assoc[a].inbox)]
  <2>1. a \in 1 .. Len(assoc) /\ assoc[a] \in Assoc /\ assoc[a].inbox # <<>>
    BY <1>1, <1>6 DEF Receive, ClientInv, ReaderInv
  <2>2. /\ assoc[a].inbox \in Seq(Message \cup {Foreign}) /\ Head(assoc[a].inbox) = assoc[a].inbox[1]
        /\ 1 \in 1 .. Len(assoc[a].inbox)
        /\ Tail(assoc[a].inbox) \in Seq(Message \cup {Foreign})
        /\ \A i \in 1 .. Len(Tail(assoc[a].inbox)) :
              /\ i + 1 \in 1 .. Len(assoc[a].inbox)
              /\ Tail(assoc[a].inbox)[i] = assoc[a].inbox[i + 1]
    <3>. DEFINE box == assoc[a].inbox
    <3>1. box \in Seq(Message \cup {Foreign}) /\ box # <<>>
      BY <2>1 DEF Assoc
    <3>. HIDE DEF box
    <3>2. /\ Head(box) = box[1] /\ 1 \in 1 .. Len(box) /\ Tail(box) \in Seq(Message \cup {Foreign})
          /\ \A i \in 1 .. Len(Tail(box)) : i + 1 \in 1 .. Len(box) /\ Tail(box)[i] = box[i + 1]
      BY <3>1
    <3>. QED  BY <3>1, <3>2 DEF box
  <2>3. Head(assoc[a].inbox) \in Found
    BY <2>1, <2>2 DEF ClientInv, InboxInv
  <2>4. rest \in Assoc /\ assoc' = [assoc EXCEPT ![a] = rest]
    <3>1. assoc' = [assoc EXCEPT ![a] = [assoc[a] EXCEPT !.inbox = Tail(assoc[a].inbox)]]
      BY <1>6 DEF Receive
    <3>2. [assoc[a] EXCEPT !.inbox = Tail(assoc[a].inbox)] = rest
      <4>1. \A y \in Assoc : \A v : [y EXCEPT !.inbox = v] = [link |-> y.link, inbox |-> v]
        BY DEF Assoc
      <4>. HIDE DEF a
      <4>. QED  BY <2>1, <4>1
    <3>3. rest \in Assoc
      BY <2>1, <2>2 DEF Assoc
    <3>. QED  BY <3>1, <3>2, <3>3
  <2>5. conn' = conn
    BY <1>6 DEF Receive
  <2>. HIDE DEF a
  <2>6. rest.inbox = Tail(assoc[a].inbox)
    OBVIOUS
  <2>. HIDE DEF rest
  <2>7. /\ assoc' \in Seq(Assoc) /\ Len(assoc') = Len(assoc) /\ assoc'[a] = rest
        /\ \A b \in 1 .. Len(assoc) : b # a => assoc'[b] = assoc[b]
    BY <1>1, <2>1, <2>4, SeqUpdate
  <2>8. /\ reader' \in Seq(Reader) /\ Len(reader') = Len(reader)
        /\ task' \in [Task -> Goroutine]
        /\ ReaderInv' /\ TaskInv' /\ Others
    <3>1. CASE Head(assoc[a].inbox) = Foreign
      <4>1. PICK k \in 1 .. Chunks : Overwrite(r, k)
        BY <1>6, <3>1 DEF Receive, a
      <4>. QED  BY <1>1, <1>6, <2>7, <4>1, OverwriteInv DEF Receive
    <3>2. CASE Head(assoc[a].inbox) # Foreign
      <4>1. Head(assoc[a].inbox) \in Sent /\ Fill(r, Head(assoc[a].inbox), 1)
        BY <1>6, <2>3, <3>2 DEF Receive, Found, a
      <4>2. 1 \in 1 .. Chunks /\ \A j \in 1 .. 1 - 1 : reader[r].buf[j] \in Sent
        BY <1>1
      <4>. QED  BY <1>1, <2>7, <4>1, <4>2, FillInv
    <3>. QED  BY <3>1, <3>2
  <2>9. InboxInv'
    <3>1. ASSUME NEW b \in 1 .. Len(assoc), NEW i \in 1 .. Len(assoc'[b].inbox)
          PROVE  assoc'[b].inbox[i] \in Found
      <4>1. CASE b = a
        BY <2>1, <2>2, <2>6, <2>7, <4>1 DEF ClientInv, InboxInv
      <4>2. CASE b # a
        BY <2>7, <4>2 DEF ClientInv, InboxInv
      <4>. QED  BY <4>1, <4>2
    <3>. QED  BY <1>1, <2>7, <3>1 DEF InboxInv
  <2>10. ClientType'
    BY <1>1, <2>5, <2>7, <2>8 DEF ClientInv, ClientType
  <2>. QED  BY <2>7, <2>8, <2>9, <2>10 DEF ClientInv
<1>. QED  BY <1>3, <1>4, <1>5, <1>6 DEF ReaderStep

\* An association is set up, with its ReadLoop.
LEMMA ConnectInv ==
    ASSUME ClientInv, CuType, Connect, cu'.sent = cu.sent
    PROVE  ClientInv' /\ Len(assoc') = Len(assoc) + 1 /\ UNCHANGED task
<1>. DEFINE new == [link |-> "up", inbox |-> <<>>]
<1>1. /\ new \in Assoc /\ new.inbox = <<>>
      /\ NewReader \in Reader /\ NewReader.step = "top"
  BY IdleType DEF Assoc, Links, NewReader
<1>2. /\ assoc' = Append(assoc, new) /\ reader' = Append(reader, NewReader)
      /\ conn' = Len(assoc) + 1 /\ task' = task /\ Len(assoc) < MaxConns
  BY DEF Connect
<1>. HIDE DEF new
<1>3. /\ assoc \in Seq(Assoc) /\ reader \in Seq(Reader) /\ Len(reader) = Len(assoc)
      /\ MaxConns \in Nat
  BY F1ClientAssumption DEF F1ClientAssumption, ClientInv, ClientType
<1>4. /\ assoc' \in Seq(Assoc) /\ Len(assoc') = Len(assoc) + 1
      /\ \A a \in 1 .. Len(assoc) : assoc'[a] = assoc[a]
      /\ assoc'[Len(assoc) + 1] = new
      /\ reader' \in Seq(Reader) /\ Len(reader') = Len(reader) + 1
      /\ \A r \in 1 .. Len(reader) : reader'[r] = reader[r]
      /\ reader'[Len(reader) + 1] = NewReader
  BY <1>1, <1>2, <1>3
<1>5. /\ \A a \in 1 .. Len(assoc') : a \in 1 .. Len(assoc) \/ a = Len(assoc) + 1
      /\ \A r \in 1 .. Len(reader') : r \in 1 .. Len(reader) \/ r = Len(reader) + 1
      /\ 1 .. Len(assoc) \subseteq 1 .. Len(assoc') /\ 1 .. Len(reader) \subseteq 1 .. Len(reader')
      /\ Sent' = Sent /\ Found' = Found
  BY <1>3, <1>4 DEF Sent, Found
<1>6. ClientType'
  BY <1>2, <1>3, <1>4 DEF ClientInv, ClientType
<1>7. InboxInv'
  <2>1. ASSUME NEW a \in 1 .. Len(assoc'), NEW i \in 1 .. Len(assoc'[a].inbox)
        PROVE  assoc'[a].inbox[i] \in Found
    <3>1. CASE a \in 1 .. Len(assoc)
      BY <1>4, <3>1 DEF ClientInv, InboxInv
    <3>2. CASE a = Len(assoc) + 1
      <4>1. Len(assoc'[a].inbox) = 0
        BY <1>1, <1>4, <3>2
      <4>. QED  BY <4>1
    <3>. QED  BY <1>5, <3>1, <3>2
  <2>. QED  BY <1>5, <2>1 DEF InboxInv
<1>8. ReaderInv'
  <2>1. ASSUME NEW r \in 1 .. Len(reader')
        PROVE  /\ reader'[r].step = "read" => reader'[r].on \in 1 .. Len(assoc')
               /\ reader'[r].step = "copy" =>
                     /\ reader'[r].msg \in Sent /\ reader'[r].copied \in 1 .. Chunks - 1
                     /\ \A j \in 1 .. reader'[r].copied : reader'[r].buf[j] \in Sent
    <3>1. CASE r \in 1 .. Len(reader)
      BY <1>4, <1>5, <3>1 DEF ClientInv, ReaderInv
    <3>2. CASE r = Len(reader) + 1
      BY <1>1, <1>4, <3>2
    <3>. QED  BY <1>5, <3>1, <3>2
  <2>. QED  BY <1>5, <2>1 DEF ReaderInv
<1>9. TaskInv'
  BY <1>2, <1>4, <1>5 DEF ClientInv, TaskInv
<1>. QED  BY <1>2, <1>4, <1>6, <1>7, <1>8, <1>9 DEF ClientInv

\* An association goes down, or something comes in on it.
LEMMA LinkInv ==
    ASSUME ClientInv, NEW a \in 1 .. Len(assoc), NEW x \in Assoc,
           \A i \in 1 .. Len(x.inbox) : x.inbox[i] \in Found,
           assoc' = [assoc EXCEPT ![a] = x],
           UNCHANGED <<conn, reader, task>>, cu'.sent = cu.sent
    PROVE  ClientInv' /\ Len(assoc') = Len(assoc)
<1>1. assoc \in Seq(Assoc)
  BY DEF ClientInv, ClientType
<1>2. /\ assoc' \in Seq(Assoc) /\ Len(assoc') = Len(assoc) /\ assoc'[a] = x
      /\ \A b \in 1 .. Len(assoc) : b # a => assoc'[b] = assoc[b]
  BY <1>1, SeqUpdate
<1>3. Sent' = Sent /\ Found' = Found
  BY DEF Sent, Found
<1>4. InboxInv'
  BY <1>2, <1>3 DEF ClientInv, InboxInv
<1>. QED  BY <1>2, <1>3, <1>4 DEF ClientInv, ClientType, ReaderInv, TaskInv

\* A goroutine that handles a message goes on, or ends.
LEMMA GoroutineInv ==
    ASSUME ClientInv, UNCHANGED <<conn, assoc, reader, cu>>,
           NEW g \in Task, NEW x \in Goroutine, task' = [task EXCEPT ![g] = x],
           x.step # "idle" => /\ task[g].step # "idle"
                              /\ x.reader = task[g].reader /\ x.msg = task[g].msg,
           x.step \notin {"idle", "decode"} => x.got \in Sent
    PROVE  ClientInv' /\ task'[g] = x /\ \A h \in Task \ {g} : task'[h] = task[h]
<1>1. /\ task' \in [Task -> Goroutine] /\ task'[g] = x
      /\ \A h \in Task \ {g} : task'[h] = task[h]
      /\ Sent' = Sent /\ Found' = Found
  BY DEF ClientInv, ClientType, Sent, Found
<1>2. ClientType' /\ InboxInv' /\ ReaderInv'
  BY <1>1 DEF ClientInv, ClientType, InboxInv, ReaderInv
<1>3. TaskInv'
  <2>1. ASSUME NEW h \in Task
        PROVE  /\ task'[h].step # "idle" =>
                     /\ task'[h].reader \in 1 .. Len(reader)
                     /\ task'[h].msg \in Sent
                     /\ \A k \in 1 .. Chunks : reader[task'[h].reader].buf[k] \in Found
               /\ task'[h].step \notin {"idle", "decode"} => task'[h].got \in Sent
    <3>1. CASE h = g
      BY <1>1, <3>1 DEF ClientInv, TaskInv
    <3>2. CASE h # g
      BY <1>1, <3>2 DEF ClientInv, TaskInv
    <3>. QED  BY <3>1, <3>2
  <2>. QED  BY <1>1, <2>1 DEF TaskInv
<1>. QED  BY <1>1, <1>2, <1>3 DEF ClientInv

------------------------------------------------------------------------------
(* The DU's steps                                                           *)

\* A step of a caller, as far as the mutex sees it.
LEMMA CallerMutex ==
    ASSUME IInv, NEW c \in Caller, NEW step \in CallerSteps, Go(c, step), UNCHANGED task,
           \/ step \in {"connect", "send"} /\ mu' = c /\ mu \in {Free, c}
           \/ step \notin {"connect", "send"} /\ mu' = Free /\ mu \in {Free, c}
           \/ /\ step \notin {"connect", "send"} /\ mu' = mu
              /\ caller[c] \notin {"connect", "send"}
    PROVE  MutexInv' /\ caller' \in [Caller -> CallerSteps]
<1>1. /\ caller' \in [Caller -> CallerSteps] /\ caller'[c] = step
      /\ \A d \in Caller \ {c} : caller'[d] = caller[d]
  BY DEF Go, IInv, DuType
<1>2. Free \notin Caller \cup Task /\ Caller \cap Task = {} /\ task' = task
  BY LifecycleAssumption DEF LifecycleAssumption
<1>3. ASSUME NEW d \in Caller PROVE (mu' = d <=> caller'[d] \in {"connect", "send"})
  <2>1. CASE d = c
    BY <1>1, <1>2, <2>1 DEF IInv, MutexInv
  <2>2. CASE d # c
    BY <1>1, <1>2, <2>2 DEF IInv, MutexInv
  <2>. QED  BY <2>1, <2>2
<1>4. ASSUME NEW g \in Task PROVE (mu' = g <=> task'[g].step \in {"init", "await"})
  BY <1>2 DEF IInv, MutexInv
<1>. QED  BY <1>1, <1>3, <1>4 DEF MutexInv

LEMMA ClientKept ==
    ASSUME ClientInv, UNCHANGED clientVars, cu'.sent = cu.sent
    PROVE  ClientInv'
BY DEF clientVars, ClientInv, ClientType, InboxInv, ReaderInv, TaskInv, Sent, Found

\* The CU-CP hears a message.
LEMMA HeardType ==
    ASSUME CuType, ClientType, conn # 0, NEW kind \in Received, NEW n \in Nat, NEW got,
           got = [cu.got EXCEPT ![conn] = @ \cup {kind}],
           UNCHANGED assoc,
           \/ cu' = [cu EXCEPT !.got = got]
           \/ cu' = [cu EXCEPT !.got = got, !.initials = n]
    PROVE  CuType' /\ cu'.sent = cu.sent
<1>1. conn \in 1 .. Len(cu.got) /\ cu.got \in Seq(SUBSET Received)
  BY DEF CuType, ClientType, Cu
<1>2. cu.got[conn] \cup {kind} \in SUBSET Received
  BY <1>1
<1>3. got \in Seq(SUBSET Received) /\ Len(got) = Len(cu.got)
  BY <1>1, <1>2, SeqUpdate
<1>4. cu' \in Cu /\ cu'.got = got /\ cu'.sent = cu.sent /\ cu'.did = cu.did
  BY <1>3 DEF CuType, Cu
<1>. QED  BY <1>3, <1>4 DEF CuType

LEMMA CallerInv ==
    ASSUME IInv, NEW c \in Caller, Call(c) \/ CallerStep(c)
    PROVE  IInv'
<1>. USE DEF IInv
<1>1. /\ "idle" \in CallerSteps /\ "start" \in CallerSteps /\ "stop" \in CallerSteps
      /\ "connect" \in CallerSteps /\ "send" \in CallerSteps
  BY DEF CallerSteps
<1>2. CASE Call(c)
  <2>1. /\ UNCHANGED <<clientVars, state, mu, ue, cu, exited>> /\ caller[c] = "idle"
        /\ Go(c, "start") \/ Go(c, "stop")
    BY <1>2 DEF Call
  <2>2. MutexInv' /\ caller' \in [Caller -> CallerSteps]
    BY <1>1, <2>1, CallerMutex DEF clientVars
  <2>. QED  BY <2>1, <2>2, ClientKept DEF CuType, DuType, InitialInv, clientVars
<1>3. CASE StartLock(c)
  <2>1. /\ UNCHANGED <<clientVars, state, ue, cu, exited>> /\ caller[c] = "start" /\ mu = Free
        /\ \/ mu' = c /\ Go(c, "connect")
           \/ mu' = mu /\ Go(c, "idle")
    BY <1>3 DEF StartLock
  <2>2. MutexInv' /\ caller' \in [Caller -> CallerSteps] /\ mu' \in Caller \cup {Free}
    BY <1>1, <2>1, CallerMutex DEF clientVars
  <2>. QED  BY <2>1, <2>2, ClientKept DEF CuType, DuType, InitialInv, clientVars
<1>4. CASE StartConnect(c)
  <2>1. mu = c /\ UNCHANGED <<state, ue, exited>> /\ ue' = ue
    BY <1>4 DEF StartConnect, MutexInv
  <2>2. CASE Go(c, "idle") /\ mu' = Free /\ UNCHANGED <<clientVars, cu>>
    <3>1. MutexInv' /\ caller' \in [Caller -> CallerSteps]
      BY <1>1, <2>1, <2>2, CallerMutex DEF clientVars
    <3>. QED  BY <2>1, <2>2, <3>1, ClientKept DEF CuType, DuType, InitialInv, clientVars
  <2>3. CASE /\ Connect
             /\ cu' = [cu EXCEPT !.did = Append(@, {}), !.got = Append(@, {})]
             /\ Go(c, "send")
             /\ UNCHANGED mu
    <3>1. /\ Append(cu.did, {}) \in Seq(SUBSET CuKinds)
          /\ Len(Append(cu.did, {})) = Len(cu.did) + 1
          /\ Append(cu.got, {}) \in Seq(SUBSET Received)
          /\ Len(Append(cu.got, {})) = Len(cu.got) + 1
      BY DEF CuType, Cu
    <3>2. /\ cu' \in Cu /\ cu'.sent = cu.sent /\ cu'.initials = cu.initials
          /\ cu'.did = Append(cu.did, {}) /\ cu'.got = Append(cu.got, {})
      BY <2>3, <3>1 DEF CuType, Cu
    <3>3. ClientInv' /\ Len(assoc') = Len(assoc) + 1 /\ UNCHANGED task
      BY <2>3, <3>2, ConnectInv
    <3>4. MutexInv' /\ caller' \in [Caller -> CallerSteps]
      BY <1>1, <2>1, <2>3, <3>3, CallerMutex
    <3>5. CuType'
      BY <3>1, <3>2, <3>3 DEF CuType
    <3>. QED  BY <2>1, <2>3, <3>2, <3>3, <3>4, <3>5 DEF DuType, InitialInv
  <2>. QED  BY <1>4, <2>2, <2>3 DEF StartConnect
<1>5. CASE StartSend(c)
  <2>1. /\ mu = c /\ UNCHANGED <<clientVars, ue, exited>> /\ Go(c, "idle") /\ mu' = Free
        /\ state' \in {"ACTIVE", state}
    BY <1>5 DEF StartSend, MutexInv
  <2>2. MutexInv' /\ caller' \in [Caller -> CallerSteps]
    BY <1>1, <2>1, CallerMutex DEF clientVars
  <2>3. CuType' /\ cu'.sent = cu.sent /\ cu'.initials = cu.initials
    <3>1. CASE ~CanSend
      BY <1>5, <2>1, <3>1 DEF StartSend, CuType, clientVars
    <3>2. CASE CanSend
      <4>1. conn # 0
        BY <3>2 DEF CanSend
      <4>2. cu' = [cu EXCEPT !.got = [cu.got EXCEPT ![conn] = @ \cup {"F1SetupRequest"}]]
        BY <1>5, <3>2 DEF StartSend
      <4>3. cu'.initials = cu.initials
        BY <4>2 DEF CuType, Cu
      <4>. QED
        BY <2>1, <4>1, <4>2, <4>3, HeardType DEF Received, clientVars, ClientInv
    <3>. QED  BY <3>1, <3>2
  <2>. QED  BY <2>1, <2>2, <2>3, ClientKept DEF DuType, InitialInv
<1>6. CASE Stop(c)
  <2>1. /\ UNCHANGED <<mu, ue, cu, exited>> /\ caller[c] = "stop" /\ Go(c, "idle")
        /\ Close /\ state' = "INACTIVE"
    BY <1>6 DEF Stop
  <2>2. ClientInv' /\ Len(assoc') = Len(assoc) /\ UNCHANGED task
    <3>1. CASE conn = 0
      BY <2>1, <3>1, ClientKept DEF Close, clientVars
    <3>2. CASE conn # 0
      <4>. DEFINE x == [link |-> "closed", inbox |-> <<>>]
      <4>1. conn \in 1 .. Len(assoc) /\ x \in Assoc /\ Len(x.inbox) = 0
        BY <3>2 DEF Assoc, Links, ClientInv, ClientType
      <4>2. /\ assoc' = [assoc EXCEPT ![conn] = x]
            /\ UNCHANGED <<conn, reader, task, cu>>
        BY <2>1, <3>2 DEF Close
      <4>. HIDE DEF x
      <4>3. \A i \in 1 .. Len(x.inbox) : x.inbox[i] \in Found
        BY <4>1
      <4>. QED  BY <4>1, <4>2, <4>3, LinkInv
    <3>. QED  BY <3>1, <3>2
  <2>3. MutexInv' /\ caller' \in [Caller -> CallerSteps]
    BY <1>1, <2>1, <2>2, CallerMutex
  <2>. QED  BY <2>1, <2>2, <2>3 DEF CuType, DuType, InitialInv
<1>. QED  BY <1>2, <1>3, <1>4, <1>5, <1>6 DEF CallerStep

\* A step of a goroutine, as far as the mutex sees it.
LEMMA TaskMutex ==
    ASSUME IInv, NEW g \in Task, UNCHANGED caller,
           \A h \in Task \ {g} : task'[h] = task[h],
           \/ task'[g].step \in {"init", "await"} /\ mu' = g /\ mu \in {Free, g}
           \/ task'[g].step \notin {"init", "await"} /\ mu' = Free /\ mu \in {Free, g}
           \/ /\ task'[g].step \notin {"init", "await"} /\ mu' = mu
              /\ task[g].step \notin {"init", "await"}
    PROVE  MutexInv'
<1>1. Free \notin Caller \cup Task /\ Caller \cap Task = {} /\ caller' = caller
  BY LifecycleAssumption DEF LifecycleAssumption
<1>2. ASSUME NEW c \in Caller PROVE (mu' = c <=> caller'[c] \in {"connect", "send"})
  BY <1>1 DEF IInv, MutexInv
<1>3. ASSUME NEW h \in Task PROVE (mu' = h <=> task'[h].step \in {"init", "await"})
  <2>1. CASE h = g
    BY <1>1, <2>1 DEF IInv, MutexInv
  <2>2. CASE h # g
    BY <1>1, <2>2 DEF IInv, MutexInv
  <2>. QED  BY <2>1, <2>2
<1>. QED  BY <1>2, <1>3 DEF MutexInv

\* A goroutine that goes on with its message, or is done with it.
LEMMA StepFacts ==
    ASSUME ClientInv, NEW g \in Task, UNCHANGED <<conn, assoc, reader, cu>>,
           \/ \E st \in TaskSteps \ {"idle"} :
                 /\ Step(g, st) /\ task[g].step \notin {"idle", "decode"}
           \/ Finish(g)
    PROVE  /\ ClientInv' /\ \A h \in Task \ {g} : task'[h] = task[h]
           /\ Finish(g) => task'[g].step = "idle"
           /\ \A st \in TaskSteps \ {"idle"} :
                 Step(g, st) /\ task[g].step \notin {"idle", "decode"} => task'[g].step = st
<1>0. task[g] \in Goroutine /\ task \in [Task -> Goroutine]
  BY DEF ClientInv, ClientType
<1>1. CASE Finish(g)
  <2>1. task' = [task EXCEPT ![g] = IdleTask] /\ IdleTask \in Goroutine /\ IdleTask.step = "idle"
    BY <1>1, IdleType DEF Finish, IdleTask
  <2>2. ClientInv' /\ task'[g] = IdleTask /\ \A h \in Task \ {g} : task'[h] = task[h]
    BY <2>1, GoroutineInv
  <2>3. ASSUME NEW st \in TaskSteps \ {"idle"}, Step(g, st) PROVE task'[g].step = st
    BY <1>0, <2>3 DEF Step, Goroutine
  <2>. QED  BY <2>1, <2>2, <2>3
<1>2. ASSUME NEW st \in TaskSteps \ {"idle"}, Step(g, st), task[g].step \notin {"idle", "decode"}
      PROVE  ClientInv' /\ task'[g].step = st /\ \A h \in Task \ {g} : task'[h] = task[h]
  <2>. DEFINE x == [task[g] EXCEPT !.step = st]
  <2>1. /\ x \in Goroutine /\ x.step = st /\ x.reader = task[g].reader
        /\ x.msg = task[g].msg /\ x.got = task[g].got
    BY <1>0 DEF Goroutine
  <2>2. task' = [task EXCEPT ![g] = x]
    BY <1>2 DEF Step
  <2>3. task[g].got \in Sent
    BY <1>2 DEF ClientInv, TaskInv
  <2>. HIDE DEF x
  <2>. QED  BY <1>2, <2>1, <2>2, <2>3, GoroutineInv
<1>3. ASSUME NEW st \in TaskSteps \ {"idle"}, Step(g, st) PROVE task'[g].step = st
  BY <1>0, <1>3 DEF Step, Goroutine
<1>. QED  BY <1>1, <1>2, <1>3

LEMMA TaskStepInv ==
    ASSUME IInv, NEW g \in Task, TaskStep(g)
    PROVE  IInv'
<1>. USE DEF IInv
<1>1. /\ task[g] \in Goroutine /\ ue \in Ue /\ mu \in Caller \cup Task \cup {Free}
      /\ task[g].step \in TaskSteps
  BY DEF ClientInv, ClientType, DuType, Goroutine
<1>2. CASE Decode(g)
  <2>1. /\ task[g].step = "decode" /\ UNCHANGED <<conn, assoc, reader, state, mu, ue, caller, cu>>
        /\ exited' \in BOOLEAN
        /\ \/ task' = task
           \/ Finish(g)
           \/ \E m \in Bytes(g) \ {Foreign} :
                 task' = [task EXCEPT ![g].step = FirstStep(cu.sent[m]), ![g].got = m]
    BY <1>2 DEF Decode, DuType
  <2>2. CASE task' = task
    BY <2>1, <2>2, ClientKept
       DEF clientVars, CuType, DuType, InitialInv, MutexInv
  <2>a. CASE Finish(g)
    <3>1. ClientInv' /\ task'[g] = IdleTask /\ \A h \in Task \ {g} : task'[h] = task[h]
      <4>1. IdleTask \in Goroutine /\ IdleTask.step = "idle"
        BY IdleType DEF IdleTask
      <4>. QED  BY <2>1, <2>a, <4>1, GoroutineInv DEF Finish
    <3>2. MutexInv'
      <4>1. task'[g].step = "idle"
        BY <3>1 DEF IdleTask
      <4>. QED  BY <2>1, <3>1, <4>1, TaskMutex
    <3>. QED  BY <2>1, <3>1, <3>2 DEF CuType, DuType, InitialInv
  <2>3. ASSUME NEW m \in Bytes(g) \ {Foreign},
               task' = [task EXCEPT ![g].step = FirstStep(cu.sent[m]), ![g].got = m]
        PROVE  IInv'
    <3>. DEFINE st == FirstStep(cu.sent[m])
                x == [task[g] EXCEPT !.step = st, !.got = m]
    <3>1. m \in Sent /\ m \in 0 .. MaxMsgs
      <4>1. m \in Sent
        BY <2>1 DEF Bytes, ClientInv, TaskInv, Found
      <4>. QED  BY <4>1, F1ClientAssumption DEF Sent, CuType, Cu, F1ClientAssumption
    <3>2. st \in {"setup", "forward"}
      BY DEF FirstStep
    <3>. HIDE DEF st
    <3>3. /\ x \in Goroutine /\ x.step = st /\ x.reader = task[g].reader
          /\ x.msg = task[g].msg /\ x.got = m
      BY <1>1, <3>1, <3>2 DEF Goroutine, TaskSteps
    <3>4. task' = [task EXCEPT ![g] = x]
      BY <2>3 DEF st
    <3>. HIDE DEF x
    <3>5. ClientInv' /\ task'[g] = x /\ \A h \in Task \ {g} : task'[h] = task[h]
      BY <2>1, <3>1, <3>3, <3>4, GoroutineInv
    <3>6. MutexInv'
      BY <2>1, <3>2, <3>3, <3>5, TaskMutex
    <3>. QED  BY <2>1, <3>5, <3>6 DEF CuType, DuType, InitialInv
  <2>. QED  BY <2>1, <2>2, <2>a, <2>3
<1>3. CASE OnF1SetupResponse(g)
  <2>1. /\ task[g].step = "setup" /\ mu = Free /\ UNCHANGED <<conn, assoc, reader, caller, cu, exited>>
        /\ state' = "ACTIVE"
        /\ \/ /\ mu' = g /\ Step(g, "init")
              /\ ue' = [ue EXCEPT !.progress = "starting"]
           \/ Finish(g) /\ mu' = mu /\ ue' = ue
    BY <1>3 DEF OnF1SetupResponse
  <2>2. ue' \in Ue /\ ue'.initial = ue.initial
    BY <1>1, <2>1 DEF Ue
  <2>3. /\ ClientInv' /\ \A h \in Task \ {g} : task'[h] = task[h]
        /\ Finish(g) => task'[g].step = "idle"
        /\ Step(g, "init") => task'[g].step = "init"
    BY <2>1, StepFacts DEF TaskSteps
  <2>4. MutexInv'
    BY <2>1, <2>3, TaskMutex
  <2>. QED  BY <1>1, <2>1, <2>2, <2>3, <2>4 DEF CuType, DuType, InitialInv
<1>4. CASE InitRRCConn(g)
  <2>1. /\ task[g].step = "init" /\ mu = g /\ Step(g, "await")
        /\ UNCHANGED <<conn, assoc, reader, state, mu, caller, cu, exited>>
        /\ ue' = [ue EXCEPT !.from = Append(@, "RRCSetupRequest")]
    BY <1>4 DEF InitRRCConn, MutexInv
  <2>2. ue' \in Ue /\ ue'.initial = ue.initial
    <3>1. Append(ue.from, "RRCSetupRequest") \in Seq(Received)
      BY <1>1 DEF Ue, Received
    <3>. QED  BY <1>1, <2>1, <3>1 DEF Ue
  <2>3. /\ ClientInv' /\ \A h \in Task \ {g} : task'[h] = task[h]
        /\ task'[g].step = "await"
    BY <2>1, StepFacts DEF TaskSteps
  <2>4. MutexInv'
    BY <2>1, <2>3, TaskMutex
  <2>. QED  BY <1>1, <2>1, <2>2, <2>3, <2>4 DEF CuType, DuType, InitialInv
<1>5. CASE HandleRRCSetup(g)
  <2>1. /\ task[g].step = "await" /\ mu = g /\ Finish(g) /\ mu' = Free
        /\ UNCHANGED <<conn, assoc, reader, state, caller, cu, exited>>
        /\ ue.to # <<>>
        /\ \/ ue' = [ue EXCEPT !.to = Tail(@), !.progress = "up",
                               !.from = Append(@, "RRCSetupComplete")]
           \/ ue' = [ue EXCEPT !.to = Tail(@), !.progress = "failed"]
    BY <1>5 DEF HandleRRCSetup, MutexInv
  <2>2. ue' \in Ue /\ ue'.initial = ue.initial
    <3>1. Append(ue.from, "RRCSetupComplete") \in Seq(Received) /\ Tail(ue.to) \in Seq(CuKinds)
      BY <1>1, <2>1 DEF Ue, Received
    <3>. QED  BY <1>1, <2>1, <3>1 DEF Ue
  <2>3. /\ ClientInv' /\ \A h \in Task \ {g} : task'[h] = task[h]
        /\ task'[g].step = "idle"
    BY <2>1, StepFacts
  <2>4. MutexInv'
    BY <2>1, <2>3, TaskMutex
  <2>. QED  BY <1>1, <2>1, <2>2, <2>3, <2>4 DEF CuType, DuType, InitialInv
<1>6. CASE Forward(g)
  <2>1. /\ task[g].step = "forward" /\ Finish(g)
        /\ UNCHANGED <<conn, assoc, reader, state, mu, caller, cu, exited>>
        /\ ue' = ue \/ ue' = [ue EXCEPT !.to = Append(@, Kind(g))]
    BY <1>6 DEF Forward
  <2>2. ue' \in Ue /\ ue'.initial = ue.initial
    <3>1. Kind(g) \in CuKinds
      BY <2>1 DEF Kind, ClientInv, TaskInv, Sent, CuType, Cu
    <3>2. Append(ue.to, Kind(g)) \in Seq(CuKinds)
      BY <1>1, <3>1 DEF Ue
    <3>. QED  BY <1>1, <2>1, <3>2 DEF Ue
  <2>3. /\ ClientInv' /\ \A h \in Task \ {g} : task'[h] = task[h]
        /\ task'[g].step = "idle"
    BY <2>1, StepFacts
  <2>4. MutexInv'
    BY <2>1, <2>3, TaskMutex
  <2>. QED  BY <1>1, <2>1, <2>2, <2>3, <2>4 DEF CuType, DuType, InitialInv
<1>. QED  BY <1>2, <1>3, <1>4, <1>5, <1>6 DEF TaskStep

\* The loop HandleRrcFromUE, and the UE's listener.
LEMMA UeInv ==
    ASSUME IInv, Uplink \/ Listen
    PROVE  IInv'
<1>. USE DEF IInv
<1>1. ue \in Ue /\ cu.initials \in Nat
  BY DEF DuType, CuType, Cu
<1>2. CASE Uplink
  <2>1. /\ UNCHANGED <<clientVars, state, mu, caller, exited>> /\ ue.from # <<>>
        /\ ue' = [ue EXCEPT !.from = Tail(@), !.initial = FALSE]
    BY <1>2 DEF Uplink
  <2>2. ue' \in Ue /\ ~ue'.initial
    <3>1. Tail(ue.from) \in Seq(Received)
      BY <1>1, <2>1 DEF Ue
    <3>. QED  BY <1>1, <2>1, <3>1 DEF Ue
  <2>3. CuType' /\ cu'.sent = cu.sent /\ cu'.initials <= 1
    <3>1. CASE ~CanSend
      BY <1>2, <2>1, <3>1 DEF Uplink, CuType, clientVars, InitialInv
    <3>2. CASE CanSend
      <4>. DEFINE got == [cu.got EXCEPT ![conn] = @ \cup {Head(ue.from)}]
                  n == IF ue.initial THEN cu.initials + 1 ELSE cu.initials
      <4>1. conn # 0 /\ Head(ue.from) \in Received /\ n \in Nat
        BY <1>1, <2>1, <3>2 DEF CanSend, Ue
      <4>2. cu' = [cu EXCEPT !.got = got, !.initials = n]
        BY <1>2, <3>2 DEF Uplink
      <4>3. n <= 1
        BY <1>1 DEF InitialInv
      <4>. HIDE DEF n
      <4>4. cu'.initials = n
        BY <4>2 DEF CuType, Cu
      <4>5. CuType' /\ cu'.sent = cu.sent
        BY <2>1, <4>1, <4>2, HeardType DEF clientVars, ClientInv
      <4>. QED  BY <4>3, <4>4, <4>5
    <3>. QED  BY <3>1, <3>2
  <2>. QED  BY <2>1, <2>2, <2>3, ClientKept DEF DuType, InitialInv, MutexInv, clientVars
<1>3. CASE Listen
  <2>1. /\ UNCHANGED <<clientVars, state, mu, caller, cu, exited>> /\ ue.to # <<>>
        /\ ue' = [ue EXCEPT !.to = Tail(@)]
    BY <1>3 DEF Listen
  <2>2. ue' \in Ue /\ ue'.initial = ue.initial
    <3>1. Tail(ue.to) \in Seq(CuKinds)
      BY <1>1, <2>1 DEF Ue
    <3>. QED  BY <1>1, <2>1, <3>1 DEF Ue
  <2>. QED  BY <2>1, <2>2, ClientKept DEF CuType, DuType, InitialInv, MutexInv, clientVars
<1>. QED  BY <1>2, <1>3

\* Something more is to be read.
With(y, link, v) == [link |-> link, inbox |-> Append(y.inbox, v)]

LEMMA InboxAppend ==
    ASSUME NEW y \in Assoc, NEW link \in Links, NEW v \in Message \cup {Foreign}
    PROVE  /\ With(y, link, v) \in Assoc /\ With(y, link, v).inbox = Append(y.inbox, v)
           /\ \A i \in 1 .. Len(With(y, link, v).inbox) :
                 \/ i \in 1 .. Len(y.inbox) /\ With(y, link, v).inbox[i] = y.inbox[i]
                 \/ With(y, link, v).inbox[i] = v
<1>. DEFINE box == y.inbox
            x == With(y, link, v)
<1>1. box \in Seq(Message \cup {Foreign})
  BY DEF Assoc
<1>. HIDE DEF box
<1>2. /\ Append(box, v) \in Seq(Message \cup {Foreign})
      /\ \A i \in 1 .. Len(Append(box, v)) :
            \/ i \in 1 .. Len(box) /\ Append(box, v)[i] = box[i]
            \/ Append(box, v)[i] = v
  BY <1>1
<1>3. x = [link |-> link, inbox |-> Append(box, v)]
  BY DEF box, With
<1>. HIDE DEF x
<1>4. x \in Assoc /\ x.inbox = Append(box, v)
  BY <1>2, <1>3 DEF Assoc
<1>. QED  BY <1>2, <1>4 DEF box, x

\* The CU-CP sends a message.
LEMMA CuSendInv ==
    ASSUME IInv, NEW a \in DOMAIN assoc, NEW kind \in CuKinds, CuSend(a, kind)
    PROVE  IInv'
<1>. USE DEF IInv
<1>. DEFINE n == Len(cu.sent) + 1
            x == With(assoc[a], assoc[a].link, n)
            sent == Append(cu.sent, kind)
            did == [cu.did EXCEPT ![a] = @ \cup {kind}]
            ahead == cu.ahead \/ Ahead(a, kind)
<1>1. /\ assoc \in Seq(Assoc) /\ a \in 1 .. Len(assoc) /\ assoc[a] \in Assoc
      /\ cu.sent \in Seq(CuKinds) /\ cu.did \in Seq(SUBSET CuKinds) /\ Len(cu.did) = Len(assoc)
      /\ Len(cu.sent) < MaxMsgs /\ MaxMsgs \in Nat
  BY F1ClientAssumption
     DEF F1ClientAssumption, ClientInv, ClientType, CuType, Cu, CuSend, MaySend
<1>2. /\ UNCHANGED <<conn, reader, task, state, mu, ue, caller, exited>>
      /\ assoc' = [assoc EXCEPT ![a].inbox = Append(@, n)]
      /\ cu' = [cu EXCEPT !.sent = sent, !.did = did, !.ahead = ahead]
  BY DEF CuSend
<1>3. /\ sent \in Seq(CuKinds) /\ Len(sent) = n /\ n <= MaxMsgs /\ n \in Message
  BY <1>1 DEF Message
<1>4. did \in Seq(SUBSET CuKinds) /\ Len(did) = Len(cu.did)
  <2>1. cu.did[a] \cup {kind} \in SUBSET CuKinds
    BY <1>1
  <2>. QED  BY <1>1, <2>1, SeqUpdate
<1>5. ahead \in BOOLEAN
  OBVIOUS
<1>6. x \in Assoc /\ assoc' = [assoc EXCEPT ![a] = x] /\ x.inbox = Append(assoc[a].inbox, n)
  <2>1. assoc' = [assoc EXCEPT ![a] = [assoc[a] EXCEPT !.inbox = Append(assoc[a].inbox, n)]]
    BY <1>2
  <2>2. \A y \in Assoc : \A v : [y EXCEPT !.inbox = v] = [link |-> y.link, inbox |-> v]
    BY DEF Assoc
  <2>3. x \in Assoc /\ x.inbox = Append(assoc[a].inbox, n)
    <3>1. assoc[a].link \in Links /\ n \in Message \cup {Foreign}
      BY <1>1, <1>3 DEF Assoc
    <3>. HIDE DEF n
    <3>. QED  BY <1>1, <3>1, InboxAppend
  <2>. QED  BY <1>1, <2>1, <2>2, <2>3 DEF With
<1>. HIDE DEF sent, did, ahead, x
<1>7. /\ cu' \in Cu /\ cu'.sent = sent /\ cu'.did = did /\ cu'.got = cu.got
      /\ cu'.initials = cu.initials
  BY <1>2, <1>3, <1>4, <1>5 DEF CuType, Cu
<1>8. /\ assoc' \in Seq(Assoc) /\ Len(assoc') = Len(assoc) /\ assoc'[a] = x
      /\ \A b \in 1 .. Len(assoc) : b # a => assoc'[b] = assoc[b]
  BY <1>1, <1>6, SeqUpdate
<1>9. /\ Sent' = 1 .. n /\ Sent \subseteq 1 .. n /\ n \in 1 .. n
      /\ Found \subseteq Found' /\ n \in Found'
  BY <1>1, <1>3, <1>7 DEF Sent, Found
<1>10. CuType'
  BY <1>3, <1>4, <1>7, <1>8 DEF CuType
<1>11. ClientType'
  BY <1>2, <1>8 DEF ClientInv, ClientType
<1>12. InboxInv'
  <2>1. ASSUME NEW b \in 1 .. Len(assoc), NEW i \in 1 .. Len(assoc'[b].inbox)
        PROVE  assoc'[b].inbox[i] \in Found'
    <3>1. CASE b # a
      BY <1>8, <1>9, <3>1 DEF ClientInv, InboxInv
    <3>2. CASE b = a
      <4>1. assoc[a].link \in Links /\ n \in Message \cup {Foreign}
        BY <1>1, <1>3 DEF Assoc
      <4>2. \/ i \in 1 .. Len(assoc[a].inbox) /\ assoc'[b].inbox[i] = assoc[a].inbox[i]
            \/ assoc'[b].inbox[i] = n
        <5>. HIDE DEF n
        <5>2. \A j \in 1 .. Len(x.inbox) :
                 (j \in 1 .. Len(assoc[a].inbox) /\ x.inbox[j] = assoc[a].inbox[j]) \/ x.inbox[j] = n
          BY <1>1, <4>1, InboxAppend DEF x
        <5>. QED  BY <1>8, <3>2, <5>2
      <4>. QED  BY <1>1, <1>9, <4>2 DEF ClientInv, InboxInv
    <3>. QED  BY <3>1, <3>2
  <2>. QED  BY <1>8, <2>1 DEF InboxInv
<1>13. ReaderInv' /\ TaskInv'
  <2>1. ReaderInv'
    BY <1>2, <1>8, <1>9 DEF ClientInv, ReaderInv
  <2>2. TaskInv'
    BY <1>2, <1>9 DEF ClientInv, TaskInv
  <2>. QED  BY <2>1, <2>2
<1>. QED
  BY <1>2, <1>7, <1>10, <1>11, <1>12, <1>13 DEF ClientInv, DuType, MutexInv, InitialInv

\* An association is lost, and notifies of it.
LEMMA LoseInv ==
    ASSUME ClientInv, NEW a \in DOMAIN assoc, Lose(a), UNCHANGED cu
    PROVE  ClientInv' /\ Len(assoc') = Len(assoc)
<1>. DEFINE x == With(assoc[a], "lost", Foreign)
<1>1. a \in 1 .. Len(assoc) /\ assoc[a] \in Assoc /\ "lost" \in Links
  BY DEF ClientInv, ClientType, Links
<1>2. assoc' = [assoc EXCEPT ![a] = x] /\ UNCHANGED <<conn, reader, task>>
  BY DEF Lose, With
<1>3. /\ x \in Assoc
      /\ \A i \in 1 .. Len(x.inbox) :
            (i \in 1 .. Len(assoc[a].inbox) /\ x.inbox[i] = assoc[a].inbox[i]) \/ x.inbox[i] = Foreign
  <2>2. Foreign \in Message \cup {Foreign}
    OBVIOUS
  <2>. QED  BY <1>1, <2>2, InboxAppend
<1>. HIDE DEF x
<1>4. \A i \in 1 .. Len(x.inbox) : x.inbox[i] \in Found
  BY <1>1, <1>3 DEF ClientInv, InboxInv, Found
<1>. QED  BY <1>1, <1>2, <1>3, <1>4, LinkInv

\* The CU-CP sends something that is no F1AP message.
LEMMA ForeignInv ==
    ASSUME IInv, NEW a \in DOMAIN assoc, CuSendsForeign(a)
    PROVE  /\ IInv' /\ Len(assoc') = Len(assoc)
           /\ cu'.sent = cu.sent /\ cu'.did = cu.did /\ cu'.got = cu.got
           /\ cu'.initials = cu.initials /\ cu'.ahead = cu.ahead
<1>. USE DEF IInv
<1>. DEFINE x == With(assoc[a], assoc[a].link, Foreign)
<1>1. a \in 1 .. Len(assoc) /\ assoc[a] \in Assoc /\ assoc[a].link \in Links /\ cu \in Cu
  <2>1. a \in 1 .. Len(assoc) /\ assoc[a] \in Assoc /\ cu \in Cu
    BY DEF ClientInv, ClientType, CuType
  <2>. QED  BY <2>1 DEF Assoc
<1>2. /\ UNCHANGED <<conn, reader, task, state, mu, ue, caller, exited>>
      /\ cu' = [cu EXCEPT !.foreign = TRUE]
  BY DEF CuSendsForeign
<1>3. assoc' = [assoc EXCEPT ![a] = x]
  <2>1. assoc' = [assoc EXCEPT ![a] = [assoc[a] EXCEPT !.inbox = Append(assoc[a].inbox, Foreign)]]
    BY DEF CuSendsForeign
  <2>2. \A y \in Assoc : \A v : [y EXCEPT !.inbox = v] = [link |-> y.link, inbox |-> v]
    BY DEF Assoc
  <2>. QED  BY <1>1, <2>1, <2>2 DEF With
<1>4. /\ x \in Assoc
      /\ \A i \in 1 .. Len(x.inbox) :
            (i \in 1 .. Len(assoc[a].inbox) /\ x.inbox[i] = assoc[a].inbox[i]) \/ x.inbox[i] = Foreign
  <2>2. Foreign \in Message \cup {Foreign}
    OBVIOUS
  <2>. QED  BY <1>1, <2>2, InboxAppend
<1>. HIDE DEF x
<1>5. \A i \in 1 .. Len(x.inbox) : x.inbox[i] \in Found
  BY <1>1, <1>4 DEF ClientInv, InboxInv, Found
<1>6. /\ cu' \in Cu /\ cu'.sent = cu.sent /\ cu'.did = cu.did /\ cu'.got = cu.got
      /\ cu'.initials = cu.initials /\ cu'.ahead = cu.ahead
  BY <1>1, <1>2 DEF Cu
<1>7. ClientInv' /\ Len(assoc') = Len(assoc)
  BY <1>1, <1>2, <1>3, <1>4, <1>5, <1>6, LinkInv
<1>. QED  BY <1>2, <1>6, <1>7 DEF CuType, DuType, MutexInv, InitialInv

LEMMA InvStep == IInv /\ [Next]_vars => IInv'
<1>. SUFFICES ASSUME IInv, [Next]_vars PROVE IInv'
  OBVIOUS
<1>. USE DEF IInv
<1>1. ASSUME NEW a \in DOMAIN assoc, Lose(a), UNCHANGED duVars PROVE IInv'
  <2>1. UNCHANGED <<conn, reader, task, state, mu, ue, caller, cu, exited>>
    BY <1>1 DEF Lose, duVars
  <2>2. ClientInv' /\ Len(assoc') = Len(assoc)
    BY <1>1, <2>1, LoseInv
  <2>. QED  BY <2>1, <2>2 DEF CuType, DuType, MutexInv, InitialInv
<1>2. ASSUME NEW r \in DOMAIN reader, ReaderStep(r), UNCHANGED duVars PROVE IInv'
  <2>1. UNCHANGED <<state, mu, ue, caller, cu, exited>>
    BY <1>2 DEF duVars
  <2>2. ClientInv' /\ Others /\ Len(assoc') = Len(assoc)
    BY <1>2, <2>1, ReaderStepInv
  <2>3. MutexInv'
    BY <2>1, <2>2 DEF MutexInv, Others
  <2>. QED  BY <2>1, <2>2, <2>3 DEF CuType, DuType, InitialInv
<1>3. CASE UNCHANGED vars
  BY <1>3 DEF vars, ClientInv, ClientType, InboxInv, ReaderInv, TaskInv, CuType, DuType,
              MutexInv, InitialInv, Sent, Found
<1>. QED
  BY <1>1, <1>2, <1>3, CallerInv, TaskStepInv, UeInv, CuSendInv, ForeignInv DEF Next

\* The inductive invariant holds: who is inside Start or InitUE holds du.mu,
\* and du.ue, the loop and the Initial UL agree on how far the UE is.
THEOREM Invariance == Spec => []IInv
BY InitInv, InvStep, PTL DEF Spec

\* Every variable keeps its type: in particular, a goroutine never decodes a
\* chunk that no message was ever copied to.
THEOREM TypeCorrect == Spec => []TypeOK
BY Invariance, TypeParts, PTL

\* du.mu excludes: of all goroutines that start, stop or set up the DU, one
\* at a time is between taking it and giving it back, although one of them
\* waits for a message there.
Exclusive ==
    /\ \A g, h \in Task :
          task[g].step \in {"init", "await"} /\ task[h].step \in {"init", "await"} => g = h
    /\ \A c \in Caller, g \in Task :
          ~(caller[c] \in {"connect", "send"} /\ task[g].step \in {"init", "await"})

THEOREM Exclusion == Spec => []Exclusive
<1>1. IInv => Exclusive
  BY LifecycleAssumption DEF LifecycleAssumption, IInv, MutexInv, Exclusive
<1>. QED  BY <1>1, Invariance, PTL

------------------------------------------------------------------------------
(* Nothing of the UE reaches the CU-CP unannounced                          *)

\* Before the Initial UL the CU-CP heard and sent the F1 setup only, and the
\* UE's one message, if it is on its way at all, has its flag.
Unannounced ==
    /\ \A a \in 1 .. Len(cu.got) : cu.got[a] \subseteq {"F1SetupRequest"}
    /\ \A i \in Sent : cu.sent[i] = "F1SetupResponse"
    /\ \A i \in 1 .. Len(ue.to) : ue.to[i] = "F1SetupResponse"
    /\ Len(ue.from) <= 1 /\ (Len(ue.from) = 1 => ue.initial)
    /\ ue.progress = "nil" => Len(ue.from) = 0 /\ ue.initial
    /\ \A g \in Task : task[g].step = "init" =>
          Len(ue.from) = 0 /\ ue.initial /\ ue.progress # "nil"

AnnouncedInv == cu.initials = 1 \/ Unannounced

LEMMA AnnouncedInit == Init => AnnouncedInv
<1>. SUFFICES ASSUME Init PROVE Unannounced
  BY DEF AnnouncedInv
<1>1. /\ Len(cu.got) = 0 /\ Len(cu.sent) = 0 /\ Len(ue.to) = 0 /\ Len(ue.from) = 0
      /\ ue.initial
  BY DEF Init
<1>2. \A g \in Task : task[g].step = "idle"
  BY DEF Init, ClientInit, IdleTask
<1>. QED  BY <1>1, <1>2 DEF Unannounced, Sent

\* A goroutine's step, from a state before the Initial UL.
LEMMA AnnouncedTask ==
    ASSUME IInv, IInv', Unannounced, NEW g \in Task, TaskStep(g)
    PROVE  Unannounced'
<1>1. /\ task \in [Task -> Goroutine] /\ task[g] \in Goroutine /\ ue \in Ue
      /\ ue.to \in Seq(CuKinds) /\ ue.from \in Seq(Received)
  BY DEF IInv, ClientInv, ClientType, DuType, Ue
<1>2. cu' = cu
  BY DEF TaskStep, Decode, OnF1SetupResponse, InitRRCConn, HandleRRCSetup, Forward
<1>3. /\ \A h \in Task \ {g} : task'[h] = task[h]
      /\ task'[g].step = "init" =>
            ue.progress = "nil" /\ ue' = [ue EXCEPT !.progress = "starting"]
    <2>1. CASE Decode(g)
      <3>1. ASSUME NEW m,
                   task' = [task EXCEPT ![g].step = FirstStep(cu.sent[m]), ![g].got = m]
            PROVE  task'[g].step # "init" /\ \A h \in Task \ {g} : task'[h] = task[h]
        <4>1. FirstStep(cu.sent[m]) # "init"
          BY DEF FirstStep
        <4>2. task'[g].step = FirstStep(cu.sent[m])
          BY <1>1, <3>1 DEF Goroutine
        <4>. QED  BY <1>1, <3>1, <4>1, <4>2
      <3>2. Finish(g) => task'[g].step # "init" /\ \A h \in Task \ {g} : task'[h] = task[h]
        BY <1>1 DEF Finish, IdleTask
      <3>. QED  BY <1>1, <2>1, <3>1, <3>2 DEF Decode
    <2>2. CASE OnF1SetupResponse(g)
      BY <1>1, <2>2 DEF OnF1SetupResponse, Step, Finish, IdleTask, Goroutine
    <2>3. CASE InitRRCConn(g)
      BY <1>1, <2>3 DEF InitRRCConn, Step, Goroutine
    <2>4. CASE HandleRRCSetup(g) \/ Forward(g)
      BY <1>1, <2>4 DEF HandleRRCSetup, Forward, Finish, IdleTask
    <2>. QED  BY <2>1, <2>2, <2>3, <2>4 DEF TaskStep
<1>4. /\ \A i \in 1 .. Len(ue'.to) : ue'.to[i] = "F1SetupResponse"
      /\ Len(ue'.from) <= 1 /\ (Len(ue'.from) = 1 => ue'.initial)
      /\ ue'.progress = "nil" => Len(ue'.from) = 0 /\ ue'.initial /\ ue.progress = "nil"
      /\ \/ ue'.from = ue.from /\ ue'.initial = ue.initial
         \/ \A h \in Task \ {g} : task[h].step # "init"
  <2>1. CASE Decode(g)
    BY <2>1 DEF Decode, Unannounced
  <2>2. CASE OnF1SetupResponse(g)
    <3>1. ue' = ue \/ ue' = [ue EXCEPT !.progress = "starting"]
      BY <2>2 DEF OnF1SetupResponse
    <3>. QED  BY <1>1, <3>1 DEF Unannounced, Ue
  <2>3. CASE InitRRCConn(g)
    <3>1. /\ task[g].step = "init" /\ Len(ue.from) = 0 /\ ue.initial
          /\ ue' = [ue EXCEPT !.from = Append(@, "RRCSetupRequest")]
      BY <2>3 DEF InitRRCConn, Unannounced
    <3>2. /\ ue'.from = Append(ue.from, "RRCSetupRequest") /\ ue'.initial
          /\ ue'.to = ue.to /\ ue'.progress = ue.progress
      BY <1>1, <3>1 DEF Ue
    <3>3. Len(ue'.from) = 1
      BY <1>1, <3>1, <3>2
    <3>4. mu = g /\ \A h \in Task \ {g} : task[h].step # "init"
      BY <3>1 DEF IInv, MutexInv
    <3>5. ue.progress # "nil"
      BY <3>1, <1>1 DEF Unannounced
    <3>6. Len(ue'.from) <= 1 /\ \A i \in 1 .. Len(ue'.to) : ue'.to[i] = "F1SetupResponse"
      BY <3>2, <3>3 DEF Unannounced
    <3>. QED  BY <3>2, <3>4, <3>5, <3>6
  <2>4. CASE HandleRRCSetup(g)
    <3>1. ue.to # <<>> /\ Head(ue.to) = "F1SetupResponse"
      BY <1>1, <2>4 DEF HandleRRCSetup, Unannounced
    <3>2. ue' = [ue EXCEPT !.to = Tail(@), !.progress = "failed"]
      BY <2>4, <3>1 DEF HandleRRCSetup
    <3>3. /\ ue'.to = Tail(ue.to) /\ ue'.from = ue.from /\ ue'.initial = ue.initial
          /\ ue'.progress = "failed"
      BY <1>1, <3>2 DEF Ue
    <3>4. \A i \in 1 .. Len(Tail(ue.to)) :
             i + 1 \in 1 .. Len(ue.to) /\ Tail(ue.to)[i] = ue.to[i + 1]
      BY <1>1, <3>1
    <3>. QED  BY <3>3, <3>4 DEF Unannounced
  <2>5. CASE Forward(g)
    <3>1. \/ ue' = ue
          \/ /\ ue' = [ue EXCEPT !.to = Append(@, Kind(g))]
             /\ task[g].got \in Sent
      BY <2>5 DEF Forward, IInv, ClientInv, TaskInv
    <3>2. ASSUME task[g].got \in Sent, ue' = [ue EXCEPT !.to = Append(@, Kind(g))]
          PROVE  /\ ue'.from = ue.from /\ ue'.initial = ue.initial
                 /\ ue'.progress = ue.progress
                 /\ \A i \in 1 .. Len(ue'.to) : ue'.to[i] = "F1SetupResponse"
      <4>1. Kind(g) = "F1SetupResponse"
        BY <3>2 DEF Kind, Unannounced
      <4>2. /\ ue'.to = Append(ue.to, Kind(g)) /\ ue'.from = ue.from
            /\ ue'.initial = ue.initial /\ ue'.progress = ue.progress
        BY <1>1, <3>2 DEF Ue
      <4>3. \A i \in 1 .. Len(Append(ue.to, Kind(g))) :
               \/ i \in 1 .. Len(ue.to) /\ Append(ue.to, Kind(g))[i] = ue.to[i]
               \/ Append(ue.to, Kind(g))[i] = Kind(g)
        BY <1>1
      <4>. QED  BY <4>1, <4>2, <4>3 DEF Unannounced
    <3>. QED  BY <3>1, <3>2 DEF Unannounced
  <2>. QED  BY <2>1, <2>2, <2>3, <2>4, <2>5 DEF TaskStep
<1>5. ASSUME NEW h \in Task, task'[h].step = "init"
      PROVE  Len(ue'.from) = 0 /\ ue'.initial /\ ue'.progress # "nil"
  <2>1. CASE h = g
    <3>1. Len(ue.from) = 0 /\ ue.initial /\ ue' = [ue EXCEPT !.progress = "starting"]
      BY <1>3, <1>5, <2>1 DEF Unannounced
    <3>. QED  BY <1>1, <3>1 DEF Ue
  <2>2. CASE h # g
    BY <1>3, <1>4, <1>5, <2>2 DEF Unannounced
  <2>. QED  BY <2>1, <2>2
<1>. QED  BY <1>2, <1>4, <1>5 DEF Unannounced, Sent

LEMMA AnnouncedStep == IInv /\ IInv' /\ AnnouncedInv /\ [Next]_vars => AnnouncedInv'
<1>. SUFFICES ASSUME IInv, IInv', AnnouncedInv, [Next]_vars PROVE AnnouncedInv'
  OBVIOUS
<1>1. /\ cu \in Cu /\ ue \in Ue /\ cu.got \in Seq(SUBSET Received)
      /\ cu.sent \in Seq(CuKinds) /\ cu.initials \in Nat /\ ue.initial \in BOOLEAN
      /\ ue.to \in Seq(CuKinds) /\ ue.from \in Seq(Received)
      /\ Len(cu.got) = Len(assoc) /\ (conn # 0 => conn \in 1 .. Len(cu.got))
  BY DEF IInv, ClientInv, ClientType, CuType, DuType, Cu, Ue
<1>2. ASSUME UNCHANGED <<cu, ue, task>> PROVE AnnouncedInv'
  BY <1>2 DEF AnnouncedInv, Unannounced, Sent
\* What the CU-CP hears, other than the UE's first message, it hears either
\* after that or at the F1 setup.
<1>3. ASSUME NEW c \in Caller, StartConnect(c) \/ StartSend(c) PROVE AnnouncedInv'
  <2>1. UNCHANGED <<ue, task>>
    BY <1>3 DEF StartConnect, StartSend, Connect, clientVars
  <2>2. \/ UNCHANGED cu
        \/ cu' = [cu EXCEPT !.did = Append(@, {}), !.got = Append(@, {})]
        \/ cu' = [cu EXCEPT !.got[conn] = @ \cup {"F1SetupRequest"}] /\ conn # 0
    BY <1>3 DEF StartConnect, StartSend, CanSend
  <2>3. ASSUME ~UNCHANGED cu
        PROVE  /\ cu'.initials = cu.initials /\ cu'.sent = cu.sent
               /\ \A a \in 1 .. Len(cu'.got) :
                     \/ cu'.got[a] = {}
                     \/ /\ a \in 1 .. Len(cu.got)
                        /\ cu'.got[a] \in {cu.got[a], cu.got[a] \cup {"F1SetupRequest"}}
    <3>1. CASE cu' = [cu EXCEPT !.did = Append(@, {}), !.got = Append(@, {})]
      <4>1. /\ cu'.initials = cu.initials /\ cu'.sent = cu.sent
            /\ cu'.got = Append(cu.got, {})
        BY <1>1, <3>1 DEF Cu
      <4>2. \A a \in 1 .. Len(Append(cu.got, {})) :
               \/ Append(cu.got, {})[a] = {}
               \/ a \in 1 .. Len(cu.got) /\ Append(cu.got, {})[a] = cu.got[a]
        BY <1>1
      <4>. QED  BY <4>1, <4>2
    <3>2. CASE cu' = [cu EXCEPT !.got[conn] = @ \cup {"F1SetupRequest"}] /\ conn # 0
      <4>. DEFINE got == [cu.got EXCEPT ![conn] = @ \cup {"F1SetupRequest"}]
      <4>1. cu' = [cu EXCEPT !.got = got]
        BY <3>2
      <4>2. Len(got) = Len(cu.got)
            /\ \A a \in 1 .. Len(cu.got) :
                  got[a] \in {cu.got[a], cu.got[a] \cup {"F1SetupRequest"}}
        BY <1>1
      <4>. HIDE DEF got
      <4>3. /\ cu'.initials = cu.initials /\ cu'.sent = cu.sent /\ cu'.got = got
        BY <1>1, <4>1 DEF Cu
      <4>. QED  BY <4>2, <4>3
    <3>. QED  BY <2>2, <2>3, <3>1, <3>2
  <2>. QED  BY <1>2, <2>1, <2>3 DEF AnnouncedInv, Unannounced, Sent
<1>4. ASSUME NEW g \in Task, TaskStep(g) PROVE AnnouncedInv'
  <2>1. cu' = cu
    BY <1>4 DEF TaskStep, Decode, OnF1SetupResponse, InitRRCConn, HandleRRCSetup, Forward
  <2>. QED  BY <1>4, <2>1, AnnouncedTask DEF AnnouncedInv
\* The first message, if it arrives, arrives as the Initial UL.
<1>5. CASE Uplink
  <2>1. /\ ue.from # <<>> /\ UNCHANGED task
        /\ ue' = [ue EXCEPT !.from = Tail(@), !.initial = FALSE]
    BY <1>5 DEF Uplink, clientVars
  <2>2. /\ ue'.from = Tail(ue.from) /\ ue'.to = ue.to /\ ue'.progress = ue.progress
        /\ Unannounced => Len(ue'.from) = 0 /\ Len(ue.from) = 1
    <3>1. /\ ue'.from = Tail(ue.from) /\ ue'.to = ue.to /\ ue'.progress = ue.progress
          /\ Len(Tail(ue.from)) = Len(ue.from) - 1 /\ Len(ue.from) \in Nat \ {0}
      BY <1>1, <2>1 DEF Ue
    <3>2. \A n \in Nat \ {0} : n <= 1 => n = 1 /\ n - 1 = 0
      OBVIOUS
    <3>. QED  BY <3>1, <3>2 DEF Unannounced
  <2>3. CASE ~CanSend
    <3>1. cu' = cu
      BY <1>5, <2>3 DEF Uplink
    <3>2. CASE cu.initials = 1
      BY <3>1, <3>2 DEF AnnouncedInv
    <3>3. CASE Unannounced
      <4>1. /\ Len(ue'.from) = 0 /\ ue.progress # "nil"
            /\ \A g \in Task : task[g].step # "init"
        BY <2>2, <3>3 DEF Unannounced
      <4>. QED  BY <2>1, <2>2, <3>1, <3>3, <4>1 DEF AnnouncedInv, Unannounced, Sent
    <3>. QED  BY <3>2, <3>3 DEF AnnouncedInv
  <2>4. CASE CanSend
    <3>1. cu'.initials = IF ue.initial THEN cu.initials + 1 ELSE cu.initials
      BY <1>1, <1>5, <2>4 DEF Uplink, Cu
    <3>2. ue.initial => cu.initials = 0
      BY DEF IInv, InitialInv
    <3>3. cu.initials = 1 \/ ue.initial
      BY <2>2 DEF AnnouncedInv, Unannounced
    <3>. QED  BY <3>1, <3>2, <3>3 DEF AnnouncedInv
  <2>. QED  BY <2>3, <2>4
<1>6. CASE Listen
  <2>1. /\ UNCHANGED <<cu, task>> /\ ue.to # <<>> /\ ue' = [ue EXCEPT !.to = Tail(@)]
    BY <1>6 DEF Listen, clientVars
  <2>2. /\ ue'.to = Tail(ue.to) /\ ue'.from = ue.from /\ ue'.initial = ue.initial
        /\ ue'.progress = ue.progress
    BY <1>1, <2>1 DEF Ue
  <2>3. \A i \in 1 .. Len(Tail(ue.to)) :
           i + 1 \in 1 .. Len(ue.to) /\ Tail(ue.to)[i] = ue.to[i + 1]
    BY <1>1, <2>1
  <2>. QED  BY <2>1, <2>2, <2>3 DEF AnnouncedInv, Unannounced, Sent
\* Until then the CU-CP has a reason to send the setup response only.
<1>7. ASSUME NEW a \in DOMAIN assoc, NEW kind \in CuKinds, CuSend(a, kind)
      PROVE  AnnouncedInv'
  <2>1. /\ UNCHANGED <<ue, task>> /\ cu'.sent = Append(cu.sent, kind)
        /\ cu'.got = cu.got /\ cu'.initials = cu.initials
    BY <1>1, <1>7 DEF CuSend, Cu
  <2>2. CASE cu.initials = 1
    BY <2>1, <2>2 DEF AnnouncedInv
  <2>3. CASE Unannounced
    <3>1. a \in 1 .. Len(cu.got)
      BY <1>1 DEF IInv, ClientInv, ClientType
    <3>2. kind = "F1SetupResponse"
      <4>1. Due(a, kind) /\ "RRCSetupRequest" \notin cu.got[a]
        BY <1>7, <2>3, <3>1 DEF CuSend, Unannounced
      <4>. QED  BY <4>1 DEF Due, CuKinds
    <3>3. \A i \in 1 .. Len(Append(cu.sent, kind)) :
             \/ i \in 1 .. Len(cu.sent) /\ Append(cu.sent, kind)[i] = cu.sent[i]
             \/ Append(cu.sent, kind)[i] = kind
      BY <1>1
    <3>. QED  BY <2>1, <2>3, <3>2, <3>3 DEF AnnouncedInv, Unannounced, Sent
  <2>. QED  BY <2>2, <2>3 DEF AnnouncedInv
<1>8. ASSUME NEW c \in Caller, Call(c) \/ StartLock(c) \/ Stop(c) PROVE AnnouncedInv'
  <2>1. UNCHANGED <<cu, ue, task>>
    BY <1>8 DEF Call, StartLock, Stop, Close, clientVars
  <2>. QED  BY <1>2, <2>1
<1>9. ASSUME NEW a \in DOMAIN assoc, Lose(a), UNCHANGED duVars PROVE AnnouncedInv'
  BY <1>2, <1>9 DEF Lose, duVars
<1>10. ASSUME NEW r \in DOMAIN reader, ReaderStep(r), UNCHANGED duVars PROVE AnnouncedInv'
  <2>1. UNCHANGED <<cu, ue>>
    BY <1>10 DEF duVars
  <2>2. Others
    BY <1>10, <2>1, ReaderStepInv DEF IInv
  <2>3. \A g \in Task : task'[g].step = "init" => task[g].step = "init"
    BY <2>2 DEF Others
  <2>. QED  BY <2>1, <2>3 DEF AnnouncedInv, Unannounced, Sent
<1>11. ASSUME NEW a \in DOMAIN assoc, CuSendsForeign(a) PROVE AnnouncedInv'
  <2>1. UNCHANGED <<ue, task>>
    BY <1>11 DEF CuSendsForeign
  <2>. QED  BY <1>11, <2>1, ForeignInv DEF AnnouncedInv, Unannounced, Sent
<1>12. CASE UNCHANGED vars
  BY <1>2, <1>12 DEF vars
<1>. QED
  BY <1>3, <1>4, <1>5, <1>6, <1>7, <1>8, <1>9, <1>10, <1>11, <1>12 DEF Next, CallerStep

\* For any number of setup responses, associations, starts and stops, one UE
\* is announced to the CU-CP, and nothing of it arrives unannounced, whatever
\* is lost: the loop's flag and the order of what it forwards agree.
THEOREM Announced == Spec => []OneInitialUl
<1>1. IInv /\ AnnouncedInv => OneInitialUl
  BY DEF IInv, CuType, ClientInv, ClientType, InitialInv, AnnouncedInv, Unannounced,
         OneInitialUl, UeMessages
<1>. QED  BY <1>1, AnnouncedInit, AnnouncedStep, Invariance, PTL DEF Spec
==============================================================================

------------------------------ MODULE F1Client ------------------------------
(***************************************************************************)
(* The F1AP client (internal/du/f1ap_client.go): the SCTP association, the *)
(* goroutine ReadLoop, and the goroutine it starts for every message.      *)
(*                                                                         *)
(* Each ReadLoop reads into one buffer for as long as it lives and hands   *)
(* the buffer itself to the goroutines.  Nothing stops it from reading the *)
(* next message while a goroutine has yet to decode the last, and c.conn   *)
(* is read again for every message.  What is no F1AP message it skips, but *)
(* the read has put it into the buffer by then.  The module has no         *)
(* behaviour of its own: DuLifecycle says who connects, closes, sends and  *)
(* handles.                                                                *)
(***************************************************************************)
EXTENDS Naturals, Sequences

CONSTANTS
    Task,      \* goroutines that handle messages
    Chunks,    \* steps in which a message is copied into the buffer
    MaxConns,  \* associations set up in one run
    MaxMsgs    \* messages from the CU-CP in one run, of any protocol

ASSUME F1ClientAssumption == Chunks \in Nat \ {0} /\ {MaxConns, MaxMsgs} \subseteq Nat

VARIABLES
    conn,    \* c.conn: the association of the last Connect, 0 for nil
    assoc,   \* every association so far: its link, and what is to be read,
             \* messages and Foreign
    reader,  \* every ReadLoop so far: next step, the association its read is
             \* on, the message being copied, chunks copied, and its buffer
    task     \* of each goroutine: next step, whose buffer it was given, the
             \* message it was started for and the one it decoded

clientVars == <<conn, assoc, reader, task>>

Message == 1 .. MaxMsgs       \* in the order the CU-CP sends them
Foreign == 0                  \* a notification, or anything with another PPID
Links == {"up", "closed", "lost"}
ReaderSteps == {"top", "read", "copy", "returned"}
TaskSteps == {"idle", "decode", "setup", "init", "await", "forward"}

NewReader == [step |-> "top", on |-> 0, msg |-> 0, copied |-> 0, buf |-> [k \in 1 .. Chunks |-> 0]]
IdleTask == [step |-> "idle", reader |-> 0, msg |-> 0, got |-> 0]

ClientTypeOK ==
    /\ assoc \in Seq([link : Links, inbox : Seq(Message \cup {Foreign})])
    /\ Len(assoc) <= MaxConns
    /\ conn = Len(assoc)
    /\ reader \in Seq([step : ReaderSteps, on : 0 .. MaxConns, msg : 0 .. MaxMsgs,
                       copied : 0 .. Chunks - 1, buf : [1 .. Chunks -> 0 .. MaxMsgs]])
    /\ Len(reader) = Len(assoc)
    /\ task \in [Task -> [step : TaskSteps, reader : 0 .. MaxConns,
                          msg : 0 .. MaxMsgs, got : 0 .. MaxMsgs]]

ClientInit ==
    /\ conn = 0
    /\ assoc = <<>>
    /\ reader = <<>>
    /\ task = [g \in Task |-> IdleTask]

------------------------------------------------------------------------------
(* The association                                                          *)

\* Connect, and the `go ReadLoop` that Start does next.
Connect ==
    /\ Len(assoc) < MaxConns
    /\ conn' = Len(assoc) + 1
    /\ assoc' = Append(assoc, [link |-> "up", inbox |-> <<>>])
    /\ reader' = Append(reader, NewReader)
    /\ UNCHANGED task

\* Closing and forgetting the association.
Bug_Close ==
    /\ assoc' = IF conn = 0 THEN assoc ELSE [assoc EXCEPT ![conn] = [link |-> "closed", inbox |-> <<>>]]
    /\ conn' = 0
    /\ UNCHANGED <<reader, task>>

\* Closing drops what is not read yet, and leaves c.conn as it is.
Close ==
    /\ assoc' = IF conn = 0 THEN assoc ELSE [assoc EXCEPT ![conn] = [link |-> "closed", inbox |-> <<>>]]
    /\ UNCHANGED <<conn, reader, task>>

\* Send fails without an association, or when the write does.
CanSend == conn # 0 /\ assoc[conn].link = "up"

\* The CU-CP, or the network, ends an association: Connect has subscribed to
\* a notification of that.
Lose(a) ==
    /\ assoc[a].link = "up"
    /\ assoc' = [assoc EXCEPT ![a] = [link |-> "lost", inbox |-> Append(@.inbox, Foreign)]]
    /\ UNCHANGED <<conn, reader, task>>

------------------------------------------------------------------------------
(* ReadLoop                                                                 *)

\* `c.conn.SCTPRead(buf)`: the association is fixed when the call starts, and
\* looked up again after EAGAIN or EINTR.
CallRead(r) ==
    /\ reader[r].step \in {"top", "read"}
    /\ reader' = [reader EXCEPT ![r].step = "read", ![r].on = conn]
    /\ UNCHANGED <<conn, assoc, task>>

\* The next chunk of message m is in the buffer; after the last one,
\* `go c.handleMessage(buf[:n])`.
Fill(r, m, k) ==
    LET buf == [reader[r].buf EXCEPT ![k] = m] IN
    IF k < Chunks
    THEN /\ reader' = [reader EXCEPT ![r] = [@ EXCEPT !.step = "copy", !.msg = m, !.copied = k, !.buf = buf]]
         /\ UNCHANGED task
    ELSE /\ \E g \in Task : task[g] = IdleTask
         /\ task' = [task EXCEPT ![CHOOSE g \in Task : task[g] = IdleTask] =
                         [step |-> "decode", reader |-> r, msg |-> m, got |-> 0]]
         /\ reader' = [reader EXCEPT ![r] = [NewReader EXCEPT !.buf = buf]]

\* A read without info or with a wrong PPID has overwritten the first k chunks;
\* the loop reads on, into the same buffer.
Overwrite(r, k) ==
    LET buf == [i \in 1 .. Chunks |-> IF i <= k THEN Foreign ELSE reader[r].buf[i]] IN
    /\ reader' = [reader EXCEPT ![r] = [@ EXCEPT !.on = conn, !.buf = buf]]
    /\ UNCHANGED task

\* The peer's end leaves what it sent before to be read; Close does not.
Receive(r) ==
    LET a == reader[r].on IN
    /\ reader[r].step = "read"
    /\ assoc[a].link # "closed" /\ assoc[a].inbox # <<>>
    /\ IF Head(assoc[a].inbox) = Foreign
       THEN \E k \in 1 .. Chunks : Overwrite(r, k)
       ELSE Fill(r, Head(assoc[a].inbox), 1)
    /\ assoc' = [assoc EXCEPT ![a].inbox = Tail(@)]
    /\ UNCHANGED conn

Copy(r) ==
    /\ reader[r].step = "copy"
    /\ Fill(r, reader[r].msg, reader[r].copied + 1)
    /\ UNCHANGED <<conn, assoc>>

\* End of file or another error, when there is nothing left to read: the loop
\* returns and tells nobody.
ReadFails(r) ==
    /\ reader[r].step = "read"
    /\ assoc[reader[r].on].link # "up" /\ assoc[reader[r].on].inbox = <<>>
    /\ reader' = [reader EXCEPT ![r].step = "returned"]
    /\ UNCHANGED <<conn, assoc, task>>

ReaderStep(r) == CallRead(r) \/ Receive(r) \/ ReadFails(r) \/ Copy(r)

\* What a goroutine finds in the buffer it was given.
Bytes(g) == {reader[task[g].reader].buf[k] : k \in 1 .. Chunks}
Intact(g) == Bytes(g) = {task[g].msg}
==============================================================================

-------------------------- MODULE ExecStreamProofs --------------------------
(***************************************************************************)
(* Proofs about ExecStream for any amount of output and input and any      *)
(* capacity of the pipes, with and without a terminal: type correctness,   *)
(* one sender at a time, room for every error, that no output is lost      *)
(* unnoticed, and, without a terminal, that ExecContract is implemented.   *)
(***************************************************************************)
EXTENDS ExecStream, TLAPS

(***************************************************************************)
(* The inductive invariant.                                                *)
(***************************************************************************)

\* The types without the bounds, which follow from Pieces.
Types ==
  /\ main \in {"start", "wait", "close", "drain", "send", "collect", "returned"}
  /\ proc \in {"none", "running", "exited"}
  /\ gone \in BOOLEAN /\ reported \in BOOLEAN
  /\ inClosed \in BOOLEAN /\ forced \in BOOLEAN
  /\ made \in [Stream -> 0..MaxOut]
  /\ delivered \in [Stream -> Nat]
  /\ buffer \in [Stream -> 0..PipeSize]
  /\ copy \in [Stream -> {"off", "read", "write", "done"}]
  /\ reader \in [Stream -> {"off", "read", "lock", "send", "closeLock",
                            "closeSend", "fail", "done"}]
  /\ sendLock \in {"free"} \cup Stream
  /\ closed \subseteq Stream
  /\ stdin \in {"off", "recv", "write", "writeLast", "fail", "done"}
  /\ copyIn \in {"off", "read", "write", "done"}
  /\ inputs \in 0..MaxIn
  /\ errs \in Nat
  /\ result \in {"none", "nil", "error"}

\* What the program counters of runNoTTY or runTTY and its goroutines say of
\* each other.
Phases ==
  /\ main = "start" => proc = "none" /\ ~reported /\ result = "none"
  /\ main \in {"close", "drain", "send", "collect"} \/ forced =>
       proc = "exited" /\ \A s \in Stream : copy[s] = "done"
  /\ forced => main \in {"drain", "send", "collect", "returned"}
  /\ proc = "none" =>
       stdin = "off" /\ \A s \in Stream : reader[s] = "off" /\ copy[s] = "off"
  /\ main \in {"send", "collect"} \/ reported \/ result = "nil" =>
       \A s \in Stream : reader[s] = "done"
  /\ main = "returned" => \A s \in Stream : reader[s] \in {"off", "done"}
  /\ result # "none" => main = "returned"
  /\ reported => main \in {"collect", "returned"} /\ proc = "exited"

\* The lock of the streams of a session without terminal.
Locking ==
  \A s \in Stream : reader[s] \in {"send", "closeSend"} /\ ~Tty => sendLock = s

\* Pieces between the command and the client.
Under(s) ==
  buffer[s] + (IF copy[s] = "write" THEN 1 ELSE 0)
            + (IF reader[s] \in {"lock", "send"} THEN 1 ELSE 0)

Lossy == Tty /\ inClosed  \* the client has closed the terminal

Failed(s) == reader[s] = "fail" \/ (reader[s] = "done" /\ s \notin closed)

\* Every piece is with the client or under way, as long as the stream has not
\* failed and nobody has closed the terminal.
Pieces(s) ==
  /\ delivered[s] + Under(s) <= made[s]
  /\ ~Failed(s) /\ ~Lossy => delivered[s] + Under(s) = made[s]
  /\ copy[s] = "done" /\ ~Tty => proc = "exited" /\ buffer[s] = 0
  /\ Tty => copy[s] \in {"off", "done"}
  /\ reader[s] \in {"closeLock", "closeSend"} \/ s \in closed =>
       forced /\ buffer[s] = 0
  /\ s \in closed => reader[s] = "done"

\* A stream fails for a reason, and leaves an error.
Spent(s) == IF reader[s] = "done" /\ s \notin closed THEN 1 ELSE 0

Errors ==
  /\ \A s \in Stream : Failed(s) => gone \/ Lossy
  /\ \A s \in Stream :
       reader[s] = "done" /\ s \notin closed => errs > 0 \/ result = "error"
  /\ errs <= (IF stdin = "done" THEN 1 ELSE 0)
               + Spent("out") + (IF Tty THEN 0 ELSE Spent("err"))

\* What has been reported, by the exit result or by returning no error, stays
\* complete.
Told == (reported /\ ~Lossy) \/ result = "nil" => closed = Stream

IInv ==
  Types /\ Phases /\ Locking /\ (\A s \in Stream : Pieces(s)) /\ Errors /\ Told

-----------------------------------------------------------------------------
(* One lemma for each process: each keeps every part of the invariant.     *)

USE DEF procVars, outVars, inVars, mainVars

LEMMA StreamNames ==
  /\ "out" \in Stream
  /\ Stream \subseteq {"out", "err"}
  /\ ~Tty => "err" \in Stream
  /\ Tty => Stream = {"out"}
  BY DEF Stream

LEMMA InitInv == Init => IInv
<1> SUFFICES ASSUME Init
             PROVE  IInv
  OBVIOUS
<1> USE DEF Init, Each
<1>1. Types
  <2>1. 0 \in 0..MaxOut /\ 0 \in 0..PipeSize /\ 0 \in 0..MaxIn
    BY ExecAssumption
  <2>2. /\ made \in [Stream -> 0..MaxOut] /\ buffer \in [Stream -> 0..PipeSize]
        /\ delivered \in [Stream -> Nat]
    BY <2>1
  <2>3. /\ copy \in [Stream -> {"off", "read", "write", "done"}]
        /\ reader \in [Stream -> {"off", "read", "lock", "send", "closeLock",
                                  "closeSend", "fail", "done"}]
    OBVIOUS
  <2> QED
    BY <2>1, <2>2, <2>3 DEF Types
<1>2. Phases /\ Locking /\ Told
  BY DEF Phases, Locking, Told
<1>3. \A s \in Stream : Pieces(s)
  BY DEF Pieces, Under, Failed
<1>4. Errors
  BY StreamNames DEF Errors, Failed, Spent
<1> QED
  BY <1>1, <1>2, <1>3, <1>4 DEF IInv

\* The command, the client, and a stuttering step.
LEMMA CommandInv ==
  ASSUME IInv,
         \/ \E s \in Stream : Produce(s)
         \/ Exit \/ Disconnect \/ UNCHANGED vars
  PROVE  IInv'
<1>1. ASSUME NEW s \in Stream, Produce(s)
      PROVE  IInv'
  <2>1. /\ proc = "running" /\ made[s] < MaxOut
        /\ made' = [made EXCEPT ![s] = @ + 1]
        /\ \/ buffer[s] < PipeSize /\ buffer' = [buffer EXCEPT ![s] = @ + 1]
           \/ Lossy /\ UNCHANGED buffer
        /\ UNCHANGED <<proc, copy, reader, sendLock, delivered, closed, inVars,
                       mainVars, gone, errs>>
    BY <1>1 DEF Produce, Lossy
  <2>2. Types'
    BY <2>1, ExecAssumption DEF IInv, Types
  <2>3. Phases' /\ Locking' /\ Told' /\ Errors' /\ UNCHANGED Lossy
    BY <2>1 DEF IInv, Phases, Locking, Told, Errors, Failed, Spent, Lossy
  <2>4. ASSUME NEW u \in Stream
        PROVE  Pieces(u)'
    <3>1. Pieces(u) /\ ~forced
      BY <2>1 DEF IInv, Phases
    <3>2. CASE u # s
      BY <2>1, <2>3, <3>1, <3>2 DEF IInv, Types, Pieces, Under, Failed
    <3>3. CASE u = s
      BY <2>1, <2>3, <3>1, <3>3 DEF IInv, Types, Pieces, Under, Failed
    <3> QED
      BY <3>2, <3>3
  <2> QED
    BY <2>2, <2>3, <2>4 DEF IInv
<1>2. CASE Exit
  BY <1>2 DEF Exit, IInv, Types, Phases, Locking, Told, Errors, Failed, Spent,
              Lossy, Pieces, Under
<1>3. CASE Disconnect
  BY <1>3 DEF Disconnect, IInv, Types, Phases, Locking, Told, Errors, Failed,
              Spent, Lossy, Pieces, Under
<1>4. CASE UNCHANGED vars
  BY <1>4 DEF vars, IInv, Types, Phases, Locking, Told, Errors, Failed, Spent,
              Lossy, Pieces, Under
<1> QED
  BY <1>1, <1>2, <1>3, <1>4

\* The goroutines of exec.Cmd.
LEMMA CopyInv ==
  ASSUME IInv, NEW s \in Stream, CopyOut(s)
  PROVE  IInv'
<1>1. CASE CopyRead(s)
  <2>1. /\ copy[s] = "read"
        /\ \/ /\ buffer[s] > 0
              /\ buffer' = [buffer EXCEPT ![s] = @ - 1]
              /\ copy' = [copy EXCEPT ![s] = "write"]
           \/ /\ buffer[s] = 0 /\ proc = "exited"
              /\ copy' = [copy EXCEPT ![s] = "done"]
              /\ UNCHANGED buffer
        /\ UNCHANGED <<procVars, reader, sendLock, delivered, closed, inVars,
                       mainVars, gone, errs>>
    BY <1>1 DEF CopyRead
  <2>2. Types'
    <3>1. copy' \in [Stream -> {"off", "read", "write", "done"}]
      BY <2>1 DEF IInv, Types
    <3>2. buffer' \in [Stream -> 0..PipeSize]
      BY <2>1, ExecAssumption DEF IInv, Types
    <3> QED
      BY <2>1, <3>1, <3>2 DEF IInv, Types
  <2>3. Locking' /\ Told' /\ Errors'
    BY <2>1 DEF IInv, Locking, Told, Errors, Failed, Spent, Lossy
  <2>4. Phases'
    BY <2>1 DEF IInv, Phases, Types
  <2>5. ASSUME NEW u \in Stream
        PROVE  Pieces(u)'
    <3>1. Pieces(u) /\ (Failed(u)' <=> Failed(u)) /\ (Lossy' <=> Lossy)
      BY <2>1 DEF IInv, Failed, Lossy
    <3>2. delivered[u] \in Nat /\ made[u] \in Nat /\ buffer[u] \in Nat
      BY DEF IInv, Types
    <3>3. CASE u # s
      BY <2>1, <3>1, <3>3 DEF IInv, Types, Pieces, Under
    <3>4. CASE u = s /\ buffer[s] > 0
      <4>1. /\ buffer'[u] = buffer[u] - 1 /\ copy'[u] = "write" /\ copy[u] = "read"
            /\ UNCHANGED <<procVars, reader, delivered, closed, forced>>
        BY <2>1, <3>4 DEF IInv, Types
      <4>2. Under(u)' = Under(u)
        BY <3>2, <4>1 DEF Under
      <4>3. ~Tty
        BY <3>1, <4>1 DEF Pieces
      <4>4. reader[u] \notin {"closeLock", "closeSend"} /\ u \notin closed
        BY <3>1, <3>4, <3>2 DEF Pieces
      <4> QED
        BY <3>1, <4>1, <4>2, <4>3, <4>4 DEF Pieces
    <3>5. CASE u = s /\ buffer[s] = 0
      <4>1. /\ buffer'[u] = 0 /\ copy'[u] = "done" /\ copy[u] = "read"
            /\ proc = "exited"
            /\ UNCHANGED <<procVars, buffer, reader, delivered, closed, forced>>
        BY <2>1, <3>5 DEF IInv, Types
      <4>2. Under(u)' = Under(u)
        BY <4>1 DEF Under
      <4> QED
        BY <3>1, <4>1, <4>2 DEF Pieces
    <3> QED
      BY <3>2, <3>3, <3>4, <3>5
  <2> QED
    BY <2>2, <2>3, <2>4, <2>5 DEF IInv
<1>2. CASE CopyWrite(s)
  <2>1. /\ copy[s] = "write" /\ reader[s] = "read"
        /\ copy' = [copy EXCEPT ![s] = "read"]
        /\ reader' = [reader EXCEPT ![s] = "lock"]
        /\ UNCHANGED <<procVars, buffer, sendLock, delivered, closed, inVars,
                       mainVars, gone, errs>>
    BY <1>2 DEF CopyWrite
  <2>2. Types'
    BY <2>1 DEF IInv, Types
  <2>3. Locking' /\ Told' /\ Errors'
    BY <2>1 DEF IInv, Types, Locking, Told, Errors, Failed, Spent, Lossy
  <2>4. Phases'
    BY <2>1 DEF IInv, Phases, Types
  <2>5. ASSUME NEW u \in Stream
        PROVE  Pieces(u)'
    BY <2>1 DEF IInv, Types, Pieces, Under, Failed, Lossy
  <2> QED
    BY <2>2, <2>3, <2>4, <2>5 DEF IInv
<1> QED
  BY <1>1, <1>2 DEF CopyOut

\* The copying of the input, and handleStdin.
LEMMA InputInv ==
  ASSUME IInv, CopyInput \/ Input
  PROVE  IInv'
<1>1. CASE CopyInput
  BY <1>1 DEF CopyInput, IInv, Types, Phases, Locking, Told, Errors, Failed,
              Spent, Lossy, Pieces, Under
<1>2. CASE Input
  <2>1. /\ UNCHANGED <<procVars, outVars, mainVars, gone>>
        /\ inClosed => inClosed'
        /\ inClosed' \in BOOLEAN
        /\ inputs' \in 0..MaxIn
        /\ stdin' \in {"recv", "write", "writeLast", "fail", "done"}
        /\ copyIn' \in {"off", "read", "write", "done"}
        /\ stdin \notin {"off", "done"}
        /\ \/ errs' = errs
           \/ errs' = errs + 1 /\ stdin' = "done"
    <3> USE DEF IInv, Types, OnlyIn
    <3>1. CASE Recv
      <4>1. inputs < MaxIn => inputs + 1 \in 0..MaxIn
        BY ExecAssumption
      <4> QED
        BY <3>1, <4>1 DEF Recv
    <3>2. CASE WriteInput
      BY <3>2 DEF WriteInput
    <3>3. CASE WriteFails \/ InputError
      BY <3>3 DEF WriteFails, InputError
    <3> QED
      BY <1>2, <3>1, <3>2, <3>3 DEF Input
  <2>2. Types' /\ Phases' /\ Locking'
    BY <2>1 DEF IInv, Types, Phases, Locking
  <2>3. Lossy => Lossy'
    BY <2>1 DEF Lossy
  <2>4. Told'
    BY <2>1, <2>3 DEF IInv, Told
  <2>5. ASSUME NEW u \in Stream
        PROVE  Pieces(u)'
    BY <2>1, <2>3 DEF IInv, Pieces, Under, Failed
  <2>6. Errors'
    BY <2>1, <2>3 DEF IInv, Errors, Failed, Spent, Types
  <2> QED
    BY <2>2, <2>4, <2>5, <2>6 DEF IInv
<1> QED
  BY <1>1, <1>2

\* handleStdout and handleStderr.
LEMMA OutputInv ==
  ASSUME IInv, NEW s \in Stream, Output(s)
  PROVE  IInv'
<1> USE DEF OnlyOut
<1>1. CASE ReadPty(s)
  <2>1. /\ Tty /\ reader[s] = "read" /\ buffer[s] > 0
        /\ buffer' = [buffer EXCEPT ![s] = @ - 1]
        /\ reader' = [reader EXCEPT ![s] = "lock"]
        /\ UNCHANGED <<procVars, copy, inVars, mainVars, gone, sendLock,
                       delivered, closed, errs>>
    BY <1>1 DEF ReadPty
  <2>2. /\ buffer[s] \in 0..PipeSize /\ made[s] \in Nat /\ delivered[s] \in Nat
        /\ buffer' \in [Stream -> 0..PipeSize]
    BY <2>1, ExecAssumption DEF IInv, Types
  <2>3. Types' /\ Locking' /\ Phases'
    BY <2>1, <2>2 DEF IInv, Types, Locking, Phases
  <2>4. Told' /\ Errors'
    BY <2>1 DEF IInv, Types, Told, Errors, Failed, Spent, Lossy
  <2>5. ASSUME NEW u \in Stream
        PROVE  Pieces(u)'
    <3>1. u = s /\ Pieces(s) /\ s \notin closed
      BY <2>1, StreamNames DEF IInv, Pieces
    <3>2. /\ buffer'[s] = buffer[s] - 1 /\ reader'[s] = "lock"
          /\ reader[s] = "read" /\ copy[s] # "write"
      BY <2>1, <3>1 DEF IInv, Types, Pieces
    <3>3. Under(s)' = Under(s)
      BY <2>1, <2>2, <3>2 DEF Under
    <3>4. ~Failed(s) /\ ~Failed(s)' /\ (Lossy' <=> Lossy)
      BY <2>1, <3>2 DEF Failed, Lossy
    <3> QED
      BY <2>1, <3>1, <3>2, <3>3, <3>4 DEF Pieces
  <2> QED
    BY <2>3, <2>4, <2>5 DEF IInv
<1>2. CASE ReadEnd(s)
  <2>1. /\ reader[s] = "read" /\ forced /\ (Tty => buffer[s] = 0)
        /\ reader' = [reader EXCEPT ![s] = "closeLock"]
        /\ UNCHANGED <<procVars, copy, inVars, mainVars, gone, buffer, sendLock,
                       delivered, closed, errs>>
    BY <1>2 DEF ReadEnd
  <2>2. Types' /\ Locking' /\ Phases'
    BY <2>1 DEF IInv, Types, Locking, Phases
  <2>3. Told' /\ Errors'
    BY <2>1 DEF IInv, Types, Told, Errors, Failed, Spent, Lossy
  <2>4. buffer[s] = 0
    BY <2>1 DEF IInv, Phases, Pieces
  <2>5. ASSUME NEW u \in Stream
        PROVE  Pieces(u)'
    BY <2>1, <2>4 DEF IInv, Types, Pieces, Under, Failed, Lossy
  <2> QED
    BY <2>2, <2>3, <2>5 DEF IInv
<1>3. CASE ReadFails(s)
  <2>1. /\ Lossy /\ reader[s] = "read"
        /\ reader' = [reader EXCEPT ![s] = "fail"]
        /\ UNCHANGED <<procVars, copy, inVars, mainVars, gone, buffer, sendLock,
                       delivered, closed, errs>>
    BY <1>3 DEF ReadFails, Lossy
  <2>2. Types' /\ Locking' /\ Phases'
    BY <2>1 DEF IInv, Types, Locking, Phases
  <2>3. Told' /\ Errors'
    BY <2>1 DEF IInv, Types, Told, Errors, Failed, Spent, Lossy
  <2>4. ASSUME NEW u \in Stream
        PROVE  Pieces(u)'
    BY <2>1 DEF IInv, Types, Pieces, Under, Failed, Lossy
  <2> QED
    BY <2>2, <2>3, <2>4 DEF IInv
<1>4. CASE Lock(s)
  <2>1. /\ \/ reader[s] = "lock" /\ reader' = [reader EXCEPT ![s] = "send"]
           \/ reader[s] = "closeLock" /\ reader' = [reader EXCEPT ![s] = "closeSend"]
        /\ IF Tty THEN UNCHANGED sendLock ELSE sendLock = "free" /\ sendLock' = s
        /\ UNCHANGED <<procVars, copy, inVars, mainVars, gone, buffer,
                       delivered, closed, errs>>
    BY <1>4 DEF Lock
  <2>2. Types' /\ Phases'
    BY <2>1 DEF IInv, Types, Phases
  <2>3. Locking'
    <3>1. SUFFICES ASSUME NEW u \in Stream, ~Tty,
                          reader'[u] \in {"send", "closeSend"}
                   PROVE  sendLock' = u
      BY DEF Locking
    <3>2. sendLock = "free" /\ sendLock' = s /\ "free" \notin Stream
      BY <2>1, <3>1 DEF Stream
    <3>3. CASE u # s
      <4>1. reader'[u] = reader[u]
        BY <2>1, <3>3 DEF IInv, Types
      <4> QED
        BY <3>1, <3>2, <4>1 DEF IInv, Locking
    <3> QED
      BY <3>2, <3>3
  <2>4. Told' /\ Errors'
    <3>1. \A u \in Stream :
            /\ reader'[u] = "done" <=> reader[u] = "done"
            /\ reader'[u] = "fail" <=> reader[u] = "fail"
      BY <2>1 DEF IInv, Types
    <3>2. \A u \in Stream : Spent(u)' = Spent(u)
      BY <2>1, <3>1 DEF Spent
    <3> QED
      BY <2>1, <3>1, <3>2, StreamNames DEF IInv, Told, Errors, Failed, Lossy
  <2>5. ASSUME NEW u \in Stream
        PROVE  Pieces(u)'
    BY <2>1 DEF IInv, Types, Pieces, Under, Failed, Lossy
  <2> QED
    BY <2>2, <2>3, <2>4, <2>5 DEF IInv
<1>5. CASE SendOutput(s) /\ reader[s] = "send" /\ ~gone
  <2>1. /\ reader[s] = "send"
        /\ delivered' = [delivered EXCEPT ![s] = @ + 1]
        /\ reader' = [reader EXCEPT ![s] = "read"]
        /\ sendLock' = "free"
        /\ UNCHANGED <<procVars, copy, inVars, mainVars, gone, buffer, closed,
                       errs>>
    BY <1>5 DEF SendOutput
  <2>2. Types' /\ Phases'
    BY <2>1 DEF IInv, Types, Phases
  <2>3. Locking'
    BY <2>1, StreamNames DEF IInv, Types, Locking
  <2>4. Told' /\ Errors'
    BY <2>1 DEF IInv, Types, Told, Errors, Failed, Spent, Lossy
  <2>5. ASSUME NEW u \in Stream
        PROVE  Pieces(u)'
    BY <2>1 DEF IInv, Types, Pieces, Under, Failed, Lossy
  <2> QED
    BY <2>2, <2>3, <2>4, <2>5 DEF IInv
<1>6. CASE SendOutput(s) /\ reader[s] = "closeSend" /\ ~gone
  <2>1. /\ reader[s] = "closeSend"
        /\ closed' = closed \cup {s}
        /\ reader' = [reader EXCEPT ![s] = "done"]
        /\ sendLock' = "free"
        /\ UNCHANGED <<procVars, copy, inVars, mainVars, gone, buffer, delivered,
                       errs>>
    BY <1>6 DEF SendOutput
  <2>2. Types' /\ Phases'
    BY <2>1 DEF IInv, Types, Phases
  <2>3. Locking'
    BY <2>1, StreamNames DEF IInv, Types, Locking
  <2>4. Told'
    BY <2>1 DEF IInv, Told, Lossy
  <2>5. Errors'
    BY <2>1 DEF IInv, Types, Errors, Failed, Spent, Lossy
  <2>6. ASSUME NEW u \in Stream
        PROVE  Pieces(u)'
    BY <2>1 DEF IInv, Types, Pieces, Under, Failed, Lossy
  <2> QED
    BY <2>2, <2>3, <2>4, <2>5, <2>6 DEF IInv
<1>7. CASE SendOutput(s) /\ gone
  <2>1. /\ reader[s] \in {"send", "closeSend"} /\ gone
        /\ reader' = [reader EXCEPT ![s] = "fail"]
        /\ sendLock' = "free"
        /\ UNCHANGED <<procVars, copy, inVars, mainVars, gone, buffer, delivered,
                       closed, errs>>
    BY <1>7 DEF SendOutput
  <2>2. Types' /\ Phases'
    BY <2>1 DEF IInv, Types, Phases
  <2>3. Locking'
    BY <2>1, StreamNames DEF IInv, Types, Locking
  <2>4. Told' /\ Errors'
    BY <2>1 DEF IInv, Types, Told, Errors, Failed, Spent, Lossy
  <2>5. ASSUME NEW u \in Stream
        PROVE  Pieces(u)'
    BY <2>1 DEF IInv, Types, Pieces, Under, Failed, Lossy
  <2> QED
    BY <2>2, <2>3, <2>4, <2>5 DEF IInv
<1>8. CASE OutputError(s)
  <2>1. /\ reader[s] = "fail"
        /\ errs' = errs + 1
        /\ reader' = [reader EXCEPT ![s] = "done"]
        /\ UNCHANGED <<procVars, copy, inVars, mainVars, gone, buffer, sendLock,
                       delivered, closed>>
    BY <1>8 DEF OutputError
  <2>2. Types' /\ Phases' /\ Locking'
    BY <2>1 DEF IInv, Types, Phases, Locking
  <2>3. s \notin closed
    BY <2>1 DEF IInv, Pieces
  <2>4. Told' /\ Errors'
    BY <2>1, <2>3, StreamNames
       DEF IInv, Types, Told, Errors, Failed, Spent, Lossy
  <2>5. ASSUME NEW u \in Stream
        PROVE  Pieces(u)'
    BY <2>1, <2>3 DEF IInv, Types, Pieces, Under, Failed, Lossy
  <2> QED
    BY <2>2, <2>4, <2>5 DEF IInv
<1> QED
  BY <1>1, <1>2, <1>3, <1>4, <1>5, <1>6, <1>7, <1>8 DEF Output, SendOutput

\* runNoTTY and runTTY.
LEMMA MainInv ==
  ASSUME IInv, Main
  PROVE  IInv'
<1> USE DEF OnlyMain, MainGoto, NoGoroutine
<1>1. CASE Start
  <2>1. CASE /\ main' = "wait" /\ proc' = "running"
             /\ reader' = Each("read") /\ stdin' = "recv"
             /\ copy' = Each(IF Tty THEN "done" ELSE "read")
             /\ copyIn' = (IF Tty THEN "done" ELSE "read")
             /\ UNCHANGED <<made, buffer, sendLock, delivered, closed, inputs,
                            inClosed, gone, reported, forced, errs, result>>
    <3>1. /\ main = "start" /\ ~reported /\ result = "none" /\ ~forced
          /\ stdin = "off"
          /\ \A s \in Stream : reader[s] = "off" /\ copy[s] = "off"
      BY <1>1 DEF Start, IInv, Phases
    <3>2. ASSUME NEW s \in Stream
          PROVE  reader'[s] = "read" /\ copy'[s] = IF Tty THEN "done" ELSE "read"
      BY <2>1 DEF Each
    <3>3. Types'
      BY <2>1 DEF IInv, Types, Each
    <3>4. Phases' /\ Locking'
      BY <2>1, <3>1, <3>2 DEF Phases, Locking
    <3>5. Told'
      BY <2>1, <3>1 DEF Told
    <3>6. \A s \in Stream : Pieces(s)'
      BY <2>1, <3>1, <3>2 DEF IInv, Types, Pieces, Under, Failed, Lossy
    <3>7. Errors'
      <4>1. \A s \in Stream : s \notin closed
        BY <3>1 DEF IInv, Pieces
      <4>2. \A s \in Stream : Spent(s) = 0 /\ Spent(s)' = 0 /\ ~Failed(s)'
        BY <3>1, <3>2 DEF Spent, Failed
      <4>3. errs = 0
        BY <3>1, <4>2, StreamNames DEF IInv, Types, Errors
      <4> QED
        BY <2>1, <3>2, <4>2, <4>3, StreamNames DEF Errors
    <3> QED
      BY <3>3, <3>4, <3>5, <3>6, <3>7 DEF IInv
  <2>2. CASE /\ main' = "returned" /\ result' = "error"
             /\ UNCHANGED <<proc, reader, stdin, copy, copyIn>>
             /\ UNCHANGED <<made, buffer, sendLock, delivered, closed, inputs,
                            inClosed, gone, reported, forced, errs>>
    BY <1>1, <2>2 DEF Start, IInv, Types, Phases, Locking, Told, Errors, Failed,
                      Spent, Lossy, Pieces, Under
  <2> QED
    BY <1>1, <2>1, <2>2 DEF Start
<1>2. CASE ProcessWait \/ CloseStreams \/ Drain
  <2>1. /\ UNCHANGED <<made, buffer, sendLock, delivered, closed, inputs,
                       inClosed, gone, proc, copy, reader, stdin, copyIn, errs,
                       reported, result>>
        /\ forced => forced'
        /\ forced' \in BOOLEAN
        /\ main' \in {"close", "drain", "send"}
    BY <1>2 DEF ProcessWait, CloseStreams, Drain, IInv, Types
  <2>2. Types' /\ Locking' /\ Told'
    BY <2>1 DEF IInv, Types, Locking, Told, Lossy
  <2>3. Phases'
    BY <1>2 DEF ProcessWait, CloseStreams, Drain, IInv, Phases
  <2>4. Errors' /\ \A s \in Stream : Pieces(s)'
    BY <2>1 DEF IInv, Errors, Failed, Spent, Lossy, Pieces, Under
  <2> QED
    BY <2>2, <2>3, <2>4 DEF IInv
<1>3. CASE SendExit
  <2>1. /\ main = "send" /\ main' = "collect" /\ reported' = ~gone
        /\ UNCHANGED <<made, buffer, sendLock, delivered, closed, inputs,
                       inClosed, gone, proc, copy, reader, stdin, copyIn, forced,
                       errs, result>>
    BY <1>3 DEF SendExit
  <2>2. Types' /\ Phases' /\ Locking'
    BY <2>1 DEF IInv, Types, Phases, Locking
  <2>3. Errors' /\ \A s \in Stream : Pieces(s)'
    BY <2>1 DEF IInv, Errors, Failed, Spent, Lossy, Pieces, Under
  <2>4. Told'
    BY <2>1 DEF IInv, Types, Phases, Errors, Failed, Lossy, Told
  <2> QED
    BY <2>2, <2>3, <2>4 DEF IInv
<1>4. CASE Collect
  <2>1. /\ main = "collect" /\ main' = "returned"
        /\ \/ errs > 0 /\ errs' = errs - 1 /\ result' = "error"
           \/ errs = 0 /\ result' = "nil" /\ errs' = errs
        /\ UNCHANGED <<made, buffer, sendLock, delivered, closed, inputs,
                       inClosed, gone, proc, copy, reader, stdin, copyIn, forced,
                       reported>>
    BY <1>4 DEF Collect
  <2>2. Types' /\ Phases' /\ Locking'
    BY <2>1 DEF IInv, Types, Phases, Locking
  <2>3. Told'
    <3>1. errs = 0 => \A s \in Stream : s \in closed
      BY <2>1 DEF IInv, Phases, Errors
    <3> QED
      BY <2>1, <3>1 DEF IInv, Types, Phases, Told, Lossy
  <2>4. \A s \in Stream : Pieces(s)'
    BY <2>1 DEF IInv, Failed, Lossy, Pieces, Under
  <2>5. Errors'
    BY <2>1, StreamNames DEF IInv, Types, Phases, Errors, Failed, Spent, Lossy
  <2> QED
    BY <2>2, <2>3, <2>4, <2>5 DEF IInv
<1> QED
  BY <1>1, <1>2, <1>3, <1>4 DEF Main

LEMMA NextInv == IInv /\ [Next]_vars => IInv'
  BY CommandInv, CopyInv, OutputInv, InputInv, MainInv DEF Next

LEMMA Inductive == Spec => []IInv
  BY InitInv, NextInv, PTL DEF Spec

-----------------------------------------------------------------------------
(* What follows from it.                                                   *)

\* The bounds of the types: more is never delivered than was made, and errCh
\* holds at most one error of each of its three senders.
THEOREM TypeCorrect == Spec => []TypeOK
<1>1. IInv => TypeOK
  <2> SUFFICES ASSUME IInv
               PROVE  TypeOK
    OBVIOUS
  <2>1. Types
    BY DEF IInv
  <2>2. delivered \in [Stream -> 0..MaxOut]
    <3>1. ASSUME NEW s \in Stream
          PROVE  delivered[s] \in 0..MaxOut
      <4>1. /\ delivered[s] \in Nat /\ buffer[s] \in Nat /\ made[s] \in 0..MaxOut
            /\ delivered[s] + Under(s) <= made[s]
        BY DEF IInv, Types, Pieces
      <4> QED
        BY <4>1, ExecAssumption DEF Under
    <3> QED
      BY <2>1, <3>1 DEF Types
  <2>3. errs \in 0..ErrCap
    BY StreamNames DEF IInv, Types, Errors, Spent, ErrCap
  <2> QED
    BY <2>1, <2>2, <2>3 DEF Types, TypeOK
<1> QED
  BY <1>1, Inductive, PTL

\* Nothing but the lock keeps two goroutines out of stream.Send, and the exit
\* result needs none because the goroutines are done by then.
THEOREM SendsExclude == Spec => []OneSender
<1>1. IInv => OneSender
  <2> SUFFICES ASSUME IInv
               PROVE  OneSender
    OBVIOUS
  <2>1. ASSUME NEW s \in Sending, NEW u \in Sending
        PROVE  s = u
    BY StreamNames DEF Sending, IInv, Locking
  <2>2. main = "send" => Sending = {}
    BY DEF Sending, IInv, Phases
  <2> QED
    BY <2>1, <2>2 DEF OneSender
<1> QED
  BY <1>1, Inductive, PTL

\* errCh has room for whoever has an error to report.
THEOREM RoomForErrors == Spec => []ErrorsFit
<1>1. IInv => ErrorsFit
  BY StreamNames DEF IInv, Types, Errors, Spent, ErrorsFit, ErrCap
<1> QED
  BY <1>1, Inductive, PTL

\* What the client has been told is complete, unless it has closed a terminal
\* under the command.
THEOREM ReportsComplete == Spec => []OutputComplete
<1>1. IInv => OutputComplete
  <2> SUFFICES ASSUME IInv, reported, ~Lossy
               PROVE  closed = Stream /\ delivered = made
    BY DEF OutputComplete, Lossy
  <2>1. closed = Stream
    BY DEF IInv, Told
  <2>2. ASSUME NEW s \in Stream
        PROVE  delivered[s] = made[s]
    BY <2>1 DEF IInv, Types, Pieces, Phases, Under, Failed
  <2> QED
    BY <2>1, <2>2 DEF IInv, Types
<1> QED
  BY <1>1, Inductive, PTL

\* Without a terminal, a session that returns no error has sent all output.
THEOREM NilComplete == ~Tty => (Spec => []NilMeansComplete)
<1>1. ASSUME ~Tty
      PROVE  IInv => NilMeansComplete
  <2> SUFFICES ASSUME IInv, result = "nil"
               PROVE  closed = Stream /\ delivered = made
    BY DEF NilMeansComplete
  <2>1. closed = Stream
    BY DEF IInv, Told
  <2>2. ASSUME NEW s \in Stream
        PROVE  delivered[s] = made[s]
    BY <1>1, <2>1 DEF IInv, Types, Phases, Pieces, Under, Failed, Lossy
  <2> QED
    BY <2>1, <2>2 DEF IInv, Types
<1>2. ASSUME ~Tty
      PROVE  Spec => []NilMeansComplete
  <2>1. IInv => NilMeansComplete
    BY <1>1, <1>2
  <2> QED
    BY <2>1, Inductive, PTL
<1> QED
  BY <1>2

-----------------------------------------------------------------------------
(* Without a terminal the session implements ExecContract.                 *)

LEMMA InitContract == Init => Contract!Init
  BY DEF Init, Each, Contract!Init

\* Most steps are invisible to the client.
LEMMA SilentStep ==
  ASSUME UNCHANGED <<made, delivered, closed, reported>>,
         proc' = "exited" <=> proc = "exited"
  PROVE  UNCHANGED Contract!vars
  BY DEF Contract!vars

LEMMA OutputContract ==
  ASSUME ~Tty, IInv, NEW s \in Stream, Output(s)
  PROVE  [Contract!Next]_(Contract!vars)
<1> USE DEF OnlyOut
<1>1. CASE ReadPty(s) \/ ReadEnd(s) \/ ReadFails(s) \/ Lock(s) \/ OutputError(s)
  BY <1>1, SilentStep DEF ReadPty, ReadEnd, ReadFails, Lock, OutputError
<1>2. CASE SendOutput(s) /\ gone
  BY <1>2, SilentStep DEF SendOutput
<1>3. ~Failed(s) /\ ~Lossy => delivered[s] + Under(s) = made[s]
  BY DEF IInv, Pieces
<1>4. buffer[s] \in Nat /\ delivered[s] \in Nat /\ made[s] \in Nat
  BY DEF IInv, Types
<1>5. CASE SendOutput(s) /\ reader[s] = "send" /\ ~gone
  <2>1. delivered[s] < made[s]
    BY <1>3, <1>4, <1>5 DEF Failed, Lossy, Under
  <2>2. s \notin closed /\ ~reported
    BY <1>5 DEF IInv, Pieces, Phases
  <2>3. /\ delivered' = [delivered EXCEPT ![s] = @ + 1]
        /\ UNCHANGED <<made, closed, proc, reported>>
    BY <1>5 DEF SendOutput
  <2>4. Contract!Deliver(s)
    BY <2>1, <2>2, <2>3 DEF Contract!Deliver
  <2> QED
    BY <2>4 DEF Contract!Next
<1>6. CASE SendOutput(s) /\ reader[s] = "closeSend" /\ ~gone
  <2>1. buffer[s] = 0 /\ forced
    BY <1>6 DEF IInv, Pieces
  <2>2. proc = "exited" /\ copy[s] = "done" /\ ~reported
    BY <1>6, <2>1 DEF IInv, Phases
  <2>3. delivered[s] = made[s]
    BY <1>3, <1>4, <1>6, <2>1, <2>2 DEF Failed, Lossy, Under
  <2>4. /\ closed' = closed \cup {s}
        /\ UNCHANGED <<made, delivered, proc, reported>>
    BY <1>6 DEF SendOutput
  <2>5. Contract!CloseStream(s)
    BY <2>2, <2>3, <2>4 DEF Contract!CloseStream
  <2> QED
    BY <2>5 DEF Contract!Next
<1> QED
  BY <1>1, <1>2, <1>5, <1>6 DEF Output, SendOutput

LEMMA NextContract ==
  ASSUME ~Tty, IInv, [Next]_vars
  PROVE  [Contract!Next]_(Contract!vars)
<1>1. ASSUME NEW s \in Stream, Produce(s)
      PROVE  [Contract!Next]_(Contract!vars)
  <2>1. Contract!Produce(s)
    BY <1>1 DEF Produce, Contract!Produce
  <2> QED
    BY <2>1 DEF Contract!Next
<1>2. CASE Exit
  <2>1. Contract!Terminate
    BY <1>2 DEF Exit, Contract!Terminate
  <2> QED
    BY <2>1 DEF Contract!Next
<1>3. CASE Disconnect \/ CopyInput \/ Input \/ UNCHANGED vars
  BY <1>3, SilentStep DEF Disconnect, CopyInput, Input, Recv, WriteInput,
                          WriteFails, InputError, OnlyIn, vars
<1>4. ASSUME NEW s \in Stream, CopyOut(s)
      PROVE  [Contract!Next]_(Contract!vars)
  BY <1>4, SilentStep DEF CopyOut, CopyRead, CopyWrite
<1>5. ASSUME NEW s \in Stream, Output(s)
      PROVE  [Contract!Next]_(Contract!vars)
  BY <1>5, OutputContract
<1>6. CASE Main
  <2>1. CASE Start
    BY <2>1, SilentStep DEF Start, OnlyMain, IInv, Phases
  <2>2. CASE ProcessWait \/ CloseStreams \/ Drain \/ Collect
    BY <2>2, SilentStep DEF ProcessWait, CloseStreams, Drain, Collect, OnlyMain,
                            NoGoroutine
  <2>3. CASE SendExit /\ gone
    BY <2>3, SilentStep DEF SendExit, OnlyMain, NoGoroutine, MainGoto, IInv,
                            Phases, Types
  <2>4. CASE SendExit /\ ~gone
    <3>1. /\ main = "send" /\ reported' = TRUE
          /\ UNCHANGED <<made, delivered, closed, proc>>
      BY <2>4 DEF SendExit, OnlyMain, NoGoroutine, MainGoto
    <3>2. proc = "exited" /\ \A s \in Stream : reader[s] = "done"
      BY <3>1 DEF IInv, Phases
    <3>3. closed = Stream
      BY <2>4, <3>2 DEF IInv, Types, Errors, Failed, Lossy
    <3>4. Contract!Report
      BY <3>1, <3>2, <3>3 DEF Contract!Report
    <3> QED
      BY <3>4 DEF Contract!Next
  <2> QED
    BY <1>6, <2>1, <2>2, <2>3, <2>4 DEF Main
<1> QED
  BY <1>1, <1>2, <1>3, <1>4, <1>5, <1>6 DEF Next

\* Without a terminal, and for any amount of output, every piece arrives, Close
\* comes behind the last piece of its stream and the exit result last.
THEOREM Refines == ~Tty => (Spec => KeepsContract)
<1>1. ASSUME ~Tty
      PROVE  Spec => KeepsContract
  <2>1. IInv /\ [Next]_vars => [Contract!Next]_(Contract!vars)
    BY <1>1, NextContract
  <2> QED
    BY <2>1, InitContract, Inductive, PTL
       DEF Spec, KeepsContract, Contract!Spec
<1> QED
  BY <1>1
=============================================================================

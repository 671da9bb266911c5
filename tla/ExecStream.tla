----------------------------- MODULE ExecStream -----------------------------
(***************************************************************************)
(* An interactive exec session (driver/exec_utils.go): execHelper.runNoTTY *)
(* or, with Tty, execHelper.runTTY, the goroutines handleStdin,            *)
(* handleStdout and handleStderr, and the goroutines with which exec.Cmd   *)
(* copies between the pipes of the process and the io.Pipes it was given.  *)
(*                                                                         *)
(* Output is counted in pieces, one Read of handleStdout or handleStderr.  *)
(* Without a terminal a piece goes from the pipe of the process through a  *)
(* copying goroutine and the unbuffered io.Pipe to the goroutine that      *)
(* sends it; with a terminal that goroutine reads the pty itself.  Input   *)
(* is one message at a time.                                               *)
(***************************************************************************)
EXTENDS Naturals

CONSTANTS
  Tty,           \* the session has a terminal
  ClientCloses,  \* the client sends the message that closes stdin
  Disconnects,   \* the client may go away
  PipeSize,      \* pieces that fit into an OS pipe or the pty
  MaxOut,        \* bound on the pieces the command writes to a stream
  MaxIn          \* bound on the messages with input

ASSUME ExecAssumption ==
  /\ Tty \in BOOLEAN /\ ClientCloses \in BOOLEAN /\ Disconnects \in BOOLEAN
  /\ PipeSize \in Nat \ {0} /\ MaxOut \in Nat /\ MaxIn \in Nat

Stream == IF Tty THEN {"out"} ELSE {"out", "err"}
ErrCap == 3  \* capacity of errCh

VARIABLES
  main,       \* runNoTTY or runTTY
  proc,       \* the command
  gone,       \* the client has gone; the context is cancelled
  made,       \* pieces the command has written, by stream
  buffer,     \* pieces in the OS pipe, or in the pty
  copy,       \* goroutine of exec.Cmd that copies the output
  reader,     \* handleStdout, handleStderr
  sendLock,   \* sendLock: "free", or the stream that holds it
  delivered,  \* pieces sent to the client
  closed,     \* streams whose Close message was sent
  reported,   \* the exit result was sent
  stdin,      \* handleStdin
  copyIn,     \* goroutine of exec.Cmd that copies the input
  inputs,     \* messages with input received so far
  inClosed,   \* handleStdin has closed its writer: stdinPw, or the pty
  forced,     \* the streams are force closed: stdinPr, stdoutPw, stderrPw, or tty
  errs,       \* errors waiting in errCh
  result      \* what the call has returned

procVars == <<proc, made>>
outVars  == <<buffer, copy, reader, sendLock, delivered, closed>>
inVars   == <<stdin, copyIn, inputs, inClosed>>
mainVars == <<main, reported, forced, result>>
vars == <<procVars, outVars, inVars, mainVars, gone, errs>>

TypeOK ==
  /\ main \in {"start", "wait", "close", "drain", "send", "collect", "returned"}
  /\ proc \in {"none", "running", "exited"}
  /\ gone \in BOOLEAN /\ reported \in BOOLEAN
  /\ inClosed \in BOOLEAN /\ forced \in BOOLEAN
  /\ made \in [Stream -> 0..MaxOut]
  /\ delivered \in [Stream -> 0..MaxOut]
  /\ buffer \in [Stream -> 0..PipeSize]
  /\ copy \in [Stream -> {"off", "read", "write", "done"}]
  /\ reader \in [Stream -> {"off", "read", "lock", "send", "closeLock",
                            "closeSend", "fail", "done"}]
  /\ sendLock \in {"free"} \cup Stream
  /\ closed \subseteq Stream
  /\ stdin \in {"off", "recv", "write", "writeLast", "fail", "done"}
  /\ copyIn \in {"off", "read", "write", "done"}
  /\ inputs \in 0..MaxIn
  /\ errs \in 0..ErrCap
  /\ result \in {"none", "nil", "error"}

Each(v) == [s \in Stream |-> v]

Init ==
  /\ main = "start" /\ result = "none"
  /\ reported = FALSE /\ forced = FALSE
  /\ proc = "none" /\ made = Each(0)
  /\ gone = FALSE
  /\ buffer = Each(0) /\ copy = Each("off")
  /\ reader = Each("off") /\ sendLock = "free"
  /\ delivered = Each(0) /\ closed = {}
  /\ stdin = "off" /\ copyIn = "off"
  /\ inputs = 0 /\ inClosed = FALSE
  /\ errs = 0

-----------------------------------------------------------------------------
(* The command, and the client as a peer.                                  *)

\* Without the master of its terminal the command writes into the void.
Produce(s) ==
  /\ proc = "running"
  /\ made[s] < MaxOut
  /\ made' = [made EXCEPT ![s] = @ + 1]
  /\ \/ buffer[s] < PipeSize /\ buffer' = [buffer EXCEPT ![s] = @ + 1]
     \/ Tty /\ inClosed /\ UNCHANGED buffer
  /\ UNCHANGED <<proc, copy, reader, sendLock, delivered, closed, inVars,
                 mainVars, gone, errs>>

\* By itself, or killed because the context is cancelled.
Exit ==
  /\ proc = "running"
  /\ proc' = "exited"
  /\ UNCHANGED <<made, outVars, inVars, mainVars, gone, errs>>

Disconnect ==
  /\ Disconnects
  /\ ~gone
  /\ gone' = TRUE
  /\ UNCHANGED <<procVars, outVars, inVars, mainVars, errs>>

-----------------------------------------------------------------------------
(* The goroutines of exec.Cmd; with a terminal there are none.             *)

CopyRead(s) ==
  /\ copy[s] = "read"
  /\ \/ /\ buffer[s] > 0
        /\ buffer' = [buffer EXCEPT ![s] = @ - 1]
        /\ copy' = [copy EXCEPT ![s] = "write"]
     \/ /\ buffer[s] = 0 /\ proc = "exited"
        /\ copy' = [copy EXCEPT ![s] = "done"]
        /\ UNCHANGED buffer
  /\ UNCHANGED <<procVars, reader, sendLock, delivered, closed, inVars,
                 mainVars, gone, errs>>

\* stdoutPw.Write meets stdoutPr.Read.
CopyWrite(s) ==
  /\ copy[s] = "write" /\ reader[s] = "read"
  /\ copy' = [copy EXCEPT ![s] = "read"]
  /\ reader' = [reader EXCEPT ![s] = "lock"]
  /\ UNCHANGED <<procVars, buffer, sendLock, delivered, closed, inVars,
                 mainVars, gone, errs>>

\* EOF, or a reader that was closed; a command that has closed its stdin or
\* has exited ends the copying with EPIPE, which exec.Cmd ignores.
CopyInput ==
  /\ \/ copyIn = "read" /\ (inClosed \/ forced) /\ copyIn' = "done"
     \/ copyIn = "write" /\ proc = "running" /\ copyIn' = "read"
     \/ copyIn = "write" /\ copyIn' = "done"
  /\ UNCHANGED <<procVars, outVars, stdin, inputs, inClosed, mainVars, gone,
                 errs>>

-----------------------------------------------------------------------------
(* handleStdout and handleStderr                                           *)

OnlyOut == UNCHANGED <<procVars, copy, inVars, mainVars, gone>>

ReadPty(s) ==
  /\ Tty /\ reader[s] = "read"
  /\ buffer[s] > 0
  /\ buffer' = [buffer EXCEPT ![s] = @ - 1]
  /\ reader' = [reader EXCEPT ![s] = "lock"]
  /\ OnlyOut /\ UNCHANGED <<sendLock, delivered, closed, errs>>

\* EOF of the io.Pipe; EIO of a drained pty whose other end nobody has open.
ReadEnd(s) ==
  /\ reader[s] = "read"
  /\ forced
  /\ Tty => buffer[s] = 0
  /\ reader' = [reader EXCEPT ![s] = "closeLock"]
  /\ OnlyOut /\ UNCHANGED <<buffer, sendLock, delivered, closed, errs>>

\* A pty closed by handleStdin gives an error that isClosedError does not know.
ReadFails(s) ==
  /\ Tty /\ inClosed
  /\ reader[s] = "read"
  /\ reader' = [reader EXCEPT ![s] = "fail"]
  /\ OnlyOut /\ UNCHANGED <<buffer, sendLock, delivered, closed, errs>>

\* (Mutant: send does not take the lock.)
LockIgnored(s) ==
  /\ \/ reader[s] = "lock" /\ reader' = [reader EXCEPT ![s] = "send"]
     \/ reader[s] = "closeLock" /\ reader' = [reader EXCEPT ![s] = "closeSend"]
  /\ OnlyOut /\ UNCHANGED <<buffer, sendLock, delivered, closed, errs>>

Lock(s) ==
  /\ \/ reader[s] = "lock" /\ reader' = [reader EXCEPT ![s] = "send"]
     \/ reader[s] = "closeLock" /\ reader' = [reader EXCEPT ![s] = "closeSend"]
  /\ IF Tty THEN UNCHANGED sendLock
            ELSE sendLock = "free" /\ sendLock' = s
  /\ OnlyOut /\ UNCHANGED <<buffer, delivered, closed, errs>>

\* stream.Send and the release of the lock.
SendOutput(s) ==
  /\ \/ /\ reader[s] = "send" /\ ~gone
        /\ delivered' = [delivered EXCEPT ![s] = @ + 1]
        /\ reader' = [reader EXCEPT ![s] = "read"]
        /\ UNCHANGED closed
     \/ /\ reader[s] = "closeSend" /\ ~gone
        /\ closed' = closed \cup {s}
        /\ reader' = [reader EXCEPT ![s] = "done"]
        /\ UNCHANGED delivered
     \/ /\ reader[s] \in {"send", "closeSend"} /\ gone
        /\ reader' = [reader EXCEPT ![s] = "fail"]
        /\ UNCHANGED <<delivered, closed>>
  /\ sendLock' = "free"
  /\ OnlyOut /\ UNCHANGED <<buffer, errs>>

\* (Mutant: an error of the stream is dropped.)
OutputErrorDropped(s) ==
  /\ reader[s] = "fail"
  /\ reader' = [reader EXCEPT ![s] = "done"]
  /\ OnlyOut /\ UNCHANGED <<buffer, sendLock, delivered, closed, errs>>

OutputError(s) ==
  /\ reader[s] = "fail" /\ errs < ErrCap
  /\ errs' = errs + 1
  /\ reader' = [reader EXCEPT ![s] = "done"]
  /\ OnlyOut /\ UNCHANGED <<buffer, sendLock, delivered, closed>>

-----------------------------------------------------------------------------
(* handleStdin                                                             *)

OnlyIn == UNCHANGED <<procVars, outVars, mainVars, gone>>

\* One message of the client.  Nobody closes the writer when there are no more.
Recv ==
  /\ stdin = "recv"
  /\ \/ /\ inputs < MaxIn /\ ~gone
        /\ inputs' = inputs + 1
        /\ \/ stdin' = "write"
           \/ ClientCloses /\ stdin' = "writeLast"
        /\ UNCHANGED inClosed
     \/ /\ ClientCloses /\ ~gone
        /\ inClosed' = TRUE
        /\ UNCHANGED <<stdin, inputs>>
     \/ /\ ~Tty \/ inClosed            \* a resize, without terminal
        /\ ~gone
        /\ stdin' = "fail"
        /\ UNCHANGED <<inputs, inClosed>>
     \/ /\ stdin' = "done"             \* EOF: the client sends no more
        /\ UNCHANGED <<inputs, inClosed>>
     \/ /\ gone \/ main = "returned"
        /\ stdin' = "fail"
        /\ UNCHANGED <<inputs, inClosed>>
  /\ OnlyIn /\ UNCHANGED <<copyIn, errs>>

\* stdinPw.Write meets the Read of the copying goroutine; the pty takes it.
WriteInput ==
  /\ stdin \in {"write", "writeLast"} /\ ~inClosed
  /\ IF Tty THEN main # "returned" /\ UNCHANGED copyIn
            ELSE copyIn = "read" /\ copyIn' = "write"
  /\ inClosed' = (stdin = "writeLast")
  /\ stdin' = "recv"
  /\ OnlyIn /\ UNCHANGED <<inputs, errs>>

\* A closed pipe or pty, or a pty whose command has exited.
WriteFails ==
  /\ stdin \in {"write", "writeLast"}
  /\ inClosed \/ forced \/ (Tty /\ proc = "exited")
  /\ stdin' = "fail"
  /\ OnlyIn /\ UNCHANGED <<copyIn, inputs, inClosed, errs>>

\* (Mutant: handleStdin goes on after an error.)
InputErrorGoesOn ==
  /\ stdin = "fail"
  /\ errs' = errs + 1
  /\ stdin' = "recv"
  /\ OnlyIn /\ UNCHANGED <<copyIn, inputs, inClosed>>

InputError ==
  /\ stdin = "fail" /\ errs < ErrCap
  /\ errs' = errs + 1
  /\ stdin' = "done"
  /\ OnlyIn /\ UNCHANGED <<copyIn, inputs, inClosed>>

-----------------------------------------------------------------------------
(* runNoTTY and runTTY                                                     *)

OnlyMain == UNCHANGED <<made, buffer, sendLock, delivered, closed, inputs,
                        inClosed, gone>>

\* The terminal, the command and the goroutines; or an error on the way.
Start ==
  /\ main = "start"
  /\ \/ /\ main' = "wait" /\ proc' = "running"
        /\ reader' = Each("read") /\ stdin' = "recv"
        /\ copy' = Each(IF Tty THEN "done" ELSE "read")
        /\ copyIn' = IF Tty THEN "done" ELSE "read"
        /\ UNCHANGED result
     \/ /\ main' = "returned" /\ result' = "error"
        /\ UNCHANGED <<proc, reader, stdin, copy, copyIn>>
  /\ OnlyMain /\ UNCHANGED <<reported, forced, errs>>

MainGoto(from, to) == main = from /\ main' = to

NoGoroutine == UNCHANGED <<proc, copy, reader, stdin, copyIn>>

\* Cmd.Wait waits for the process and for every copying goroutine.
ProcessWait ==
  /\ MainGoto("wait", "close")
  /\ proc = "exited"
  /\ copyIn = "done"
  /\ \A s \in Stream : copy[s] = "done"
  /\ OnlyMain /\ NoGoroutine /\ UNCHANGED <<reported, forced, errs, result>>

\* (Mutant: the streams are not closed.)
CloseNothing ==
  /\ MainGoto("close", "drain")
  /\ OnlyMain /\ NoGoroutine /\ UNCHANGED <<reported, forced, errs, result>>

CloseStreams ==
  /\ MainGoto("close", "drain")
  /\ forced' = TRUE
  /\ OnlyMain /\ NoGoroutine /\ UNCHANGED <<reported, errs, result>>

\* (Mutant: wg.Add is forgotten.)
DrainNone ==
  /\ MainGoto("drain", "send")
  /\ OnlyMain /\ NoGoroutine /\ UNCHANGED <<reported, forced, errs, result>>

Drain ==
  /\ MainGoto("drain", "send")
  /\ \A s \in Stream : reader[s] = "done"
  /\ OnlyMain /\ NoGoroutine /\ UNCHANGED <<reported, forced, errs, result>>

\* The error of this Send is dropped.
SendExit ==
  /\ MainGoto("send", "collect")
  /\ reported' = ~gone
  /\ OnlyMain /\ NoGoroutine /\ UNCHANGED <<forced, errs, result>>

\* The first error there is, if any.
Collect ==
  /\ MainGoto("collect", "returned")
  /\ \/ errs > 0 /\ errs' = errs - 1 /\ result' = "error"
     \/ errs = 0 /\ result' = "nil" /\ UNCHANGED errs
  /\ OnlyMain /\ NoGoroutine /\ UNCHANGED <<reported, forced>>

-----------------------------------------------------------------------------
CopyOut(s) == CopyRead(s) \/ CopyWrite(s)

Output(s) ==
  \/ ReadPty(s)
  \/ ReadEnd(s)
  \/ ReadFails(s)
  \/ Lock(s)
  \/ SendOutput(s)
  \/ OutputError(s)

Input == Recv \/ WriteInput \/ WriteFails \/ InputError

Main ==
  \/ Start
  \/ ProcessWait
  \/ CloseStreams
  \/ Drain
  \/ SendExit
  \/ Collect

Next ==
  \/ Exit
  \/ Disconnect
  \/ \E s \in Stream : Produce(s) \/ CopyOut(s) \/ Output(s)
  \/ CopyInput
  \/ Input
  \/ Main

Spec == Init /\ [][Next]_vars

\* Every goroutine of the session goes on; the command and the client owe
\* nothing, and handleStdin waits for the client.
Fairness ==
  /\ WF_vars(Main)
  /\ WF_vars(CopyInput)
  /\ \A s \in Stream : WF_vars(CopyOut(s)) /\ WF_vars(Output(s))

FairSpec == Spec /\ Fairness

-----------------------------------------------------------------------------
(* Properties                                                              *)

\* The session keeps the promise of ExecContract: nothing is lost or sent out
\* of turn, and the exit result comes last, whoever disconnects when.
Contract == INSTANCE ExecContract WITH ended <- proc = "exited"

KeepsContract == Contract!Spec

\* Two goroutines are never inside stream.Send at the same time: those that
\* send output exclude each other, and the exit result is sent without lock.
Sending == {s \in Stream : reader[s] \in {"send", "closeSend"}}

OneSender ==
  /\ \A s, u \in Sending : s = u
  /\ main = "send" => Sending = {}

\* No goroutine ever blocks on errCh, also after the call has returned.
ErrorsFit ==
  (stdin = "fail" \/ \E s \in Stream : reader[s] = "fail") => errs < ErrCap

\* A call that returns no error has sent all output and closed every stream.
NilMeansComplete ==
  result = "nil" => closed = Stream /\ delivered = made

\* "processWait blocks until command terminates" (exec_utils.go:36), and no
\* longer.
WaitEnds == proc = "exited" ~> main # "wait"

\* Once the command has exited and the client has closed stdin, the call
\* returns, unless the client leaves.
EndsOnceClosed == proc = "exited" /\ inClosed ~> main = "returned" \/ gone

\* With a terminal the call returns once the command has exited.
Ends == proc = "exited" ~> main = "returned"

\* The exit result is sent behind all output and every Close message, unless
\* the client has closed a terminal under the command.
OutputComplete ==
  reported /\ ~(Tty /\ inClosed) => closed = Stream /\ delivered = made

\* "wait until we get all process output" (exec_utils.go:80): the same for
\* every session.
AllOutput == reported => delivered = made
=============================================================================

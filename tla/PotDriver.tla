----------------------------- MODULE PotDriver -----------------------------
(***************************************************************************)
(* The life of tasks in the Pot task driver: the RPCs of driver/driver.go  *)
(* that start, recover, wait for, stop and destroy a task, the goroutines  *)
(* they leave behind (run, potWait, recoverWait, handleWait), the handle   *)
(* these share and the store that holds it, over the host of PotHost.      *)
(*                                                                         *)
(* Every step is what one thread does between two points where another     *)
(* thread can see or change the state; writes to a handle that the code    *)
(* makes without stateLock are steps of their own.                         *)
(*                                                                         *)
(* The client is a Nomad agent.  It gives each invocation of a task an ID  *)
(* of its own (allocation/task/invocation), makes the calls that launch or *)
(* forget a task one after the other, and calls StopTask and WaitTask      *)
(* beside them.                                                            *)
(***************************************************************************)
EXTENDS PotHost

\* Exit codes a failed statistics command may leave in h.syexec.exitCode
\* before run() reads it; {} stands for a run() that is always faster.
CONSTANT StatsCode

ASSUME StatsAssumption == StatsCode \subseteq 1..255

VARIABLES
  up,            \* the plugin process lives
  ctxDone,       \* Driver.ctx is cancelled
  panicked,      \* the plugin process has died of a panic of its own
  hasty,         \* a task was destroyed before its result was there (history)
  mistaken,      \* a live `pot start` was taken for an ended one (history)
  unread,        \* last-run-stats kept a code from the waiter (history)
  store,         \* taskStore: is a handle stored for this ID?
  procState,     \* taskHandle.procState; "none" while there is no handle
  exitCode,      \* taskHandle.exitResult: Nil, or its ExitCode
  calledDestroy, \* taskHandle.calledDestroy
  child,         \* the `pot start` the waiter waits for is the live one, a child
  rpc,           \* StartTask, RecoverTask or DestroyTask in flight
  run,           \* goroutine taskHandle.run
  wait,          \* goroutine potWait or recoverWait
  err,           \* what Cmd.Wait told potWait
  stop,          \* StopTask in flight
  watch,         \* goroutine handleWait
  listening,     \* the WaitTask call still receives from handleWait
  known,         \* what the client holds: no handle yet, a handle, one that
                 \* RecoverTask could not read, or an ID it gave up
  asked,         \* the client has called StopTask (history)
  result,        \* last result WaitTask gave to the client (history)
  destroys       \* `pot destroy` commands run for the present handle (history)

pluginVars == <<up, ctxDone, panicked, hasty, mistaken, unread>>
handleVars == <<store, procState, exitCode, calledDestroy, child, destroys>>
waitVars   == <<wait, err>>
stopVars   == <<stop, asked>>
watchVars  == <<watch, listening, result>>
rpcVars    == <<rpc, known>>
vars == <<hostVars, pluginVars, handleVars, waitVars, stopVars, watchVars,
          rpcVars, run>>

defaultFailedCode == 255
Nil      == -1  \* exitResult is a nil pointer
NoResult == -2  \* WaitTask has not delivered anything

StartPc   == {"probe", "exists", "create", "configure", "start", "register",
              "adopt", "cleanup"}
RecoverPc == {"recover", "reRegister", "reCleanup"}
RpcPc     == {"idle", "delete"} \cup StartPc \cup RecoverPc
RunPc     == {"off", "alloc", "mark", "code", "done"}
WaitPc    == {"off", "get", "wait", "orphan", "mark", "fail", "query",
              "poll", "reMark", "reQuery", "claim", "destroy", "done"}
StopPc    == {"idle", "claim", "destroy"}
WatchPc   == {"off", "tick", "send", "sendNil"}
Codes     == Code \cup StatsCode \cup {defaultFailedCode}

TypeOK ==
  /\ HostTypeOK
  /\ up \in BOOLEAN /\ ctxDone \in BOOLEAN
  /\ panicked \in BOOLEAN /\ hasty \in BOOLEAN /\ mistaken \in BOOLEAN
  /\ unread \in [Task -> BOOLEAN]
  /\ store \in [Task -> BOOLEAN]
  /\ procState \in [Task -> {"none", "running", "exited"}]
  /\ exitCode \in [Task -> Codes \cup {Nil}]
  /\ calledDestroy \in [Task -> BOOLEAN]
  /\ child \in [Task -> BOOLEAN]
  /\ destroys \in [Task -> Nat]
  /\ rpc \in [Task -> RpcPc]
  /\ known \in [Task -> {"fresh", "started", "refused", "gone"}]
  /\ run \in [Task -> RunPc]
  /\ wait \in [Task -> WaitPc]
  /\ err \in [Task -> Ended]
  /\ stop \in [Task -> StopPc]
  /\ asked \in [Task -> BOOLEAN]
  /\ watch \in [Task -> WatchPc]
  /\ listening \in [Task -> BOOLEAN]
  /\ result \in [Task -> Codes \cup {Nil, NoResult}]

All(v) == [t \in Task |-> v]

Init ==
  /\ HostInit
  /\ up = TRUE /\ ctxDone = FALSE
  /\ panicked = FALSE /\ hasty = FALSE /\ mistaken = FALSE
  /\ unread = All(FALSE)
  /\ store = All(FALSE)
  /\ procState = All("none")
  /\ exitCode = All(Nil)
  /\ calledDestroy = All(FALSE)
  /\ child = All(FALSE)
  /\ destroys = All(0)
  /\ rpc = All("idle")
  /\ known = All("fresh")
  /\ run = All("off")
  /\ wait = All("off")
  /\ err = All("ok")
  /\ stop = All("idle")
  /\ asked = All(FALSE)
  /\ watch = All("off")
  /\ listening = All(FALSE)
  /\ result = All(NoResult)

-----------------------------------------------------------------------------
(* Death and restart of the plugin process.                                *)

\* Memory and goroutines are gone; jails and `pot start` processes stay.
Die ==
  /\ up' = FALSE /\ ctxDone' = FALSE
  /\ store' = All(FALSE)
  /\ procState' = All("none")
  /\ exitCode' = All(Nil)
  /\ calledDestroy' = All(FALSE)
  /\ child' = All(FALSE)
  /\ destroys' = All(0)
  /\ rpc' = All("idle")
  /\ run' = All("off")
  /\ wait' = All("off")
  /\ err' = All("ok")
  /\ stop' = All("idle")
  /\ watch' = All("off")
  /\ listening' = All(FALSE)
  /\ UNCHANGED <<hostVars, hasty, mistaken, unread, known, asked, result>>

\* A nil pointer or an index out of range in any goroutine ends the process.
Panic == Die /\ panicked' = TRUE

Crash ==
  /\ up
  /\ "crash" \in Faults
  /\ Die
  /\ UNCHANGED panicked

\* The agent launches the plugin again (NewPotDriver).
Restart ==
  /\ ~up
  /\ up' = TRUE
  /\ UNCHANGED <<ctxDone, panicked, hasty, mistaken, unread, hostVars,
                 handleVars, waitVars, stopVars, watchVars, rpcVars, run>>

Shutdown ==
  /\ up
  /\ "shutdown" \in Faults
  /\ ctxDone' = TRUE
  /\ UNCHANGED <<up, panicked, hasty, mistaken, unread, hostVars, handleVars,
                 waitVars, stopVars, watchVars, rpcVars, run>>

-----------------------------------------------------------------------------
(* taskStore: every operation is atomic under the lock of the store.       *)

Get(t)    == store[t]
Set(t)    == store' = [store EXCEPT ![t] = TRUE]
Delete(t) == store' = [store EXCEPT ![t] = FALSE]

-----------------------------------------------------------------------------
(* StartTask                                                               *)

Goto(t, from, to) == rpc[t] = from /\ rpc' = [rpc EXCEPT ![t] = to]

\* Steps of an RPC that only move its program counter.
OnlyRpc == UNCHANGED <<pluginVars, handleVars, waitVars, stopVars, watchVars,
                       known, run>>

\* A stored ID, an undecodable config and a failing prepareContainer make the
\* call return before it has changed anything; a malformed entry makes
\* prepareContainer index out of range.
StartTask(t) ==
  /\ up
  /\ known[t] = "fresh"
  /\ ~Get(t)
  /\ \/ Goto(t, "idle", "probe") /\ OnlyRpc /\ UNCHANGED hostVars
     \/ "config" \in Faults /\ rpc[t] = "idle" /\ Panic

\* The driver goes on as if the `pot start` of the jail had ended.
TakenForEnded(t) ==
  /\ mistaken' = (mistaken \/ Alive(t))
  /\ UNCHANGED <<up, ctxDone, panicked, hasty, unread>>

\* checkContainerAlive, with the answer it gives.
Probe(t, alive) ==
  /\ alive \in AliveReply(t)
  /\ IF alive THEN UNCHANGED pluginVars ELSE TakenForEnded(t)

StartProbe(t) ==
  /\ \E alive \in BOOLEAN :
       /\ Probe(t, alive)
       /\ Goto(t, "probe", IF alive THEN "adopt" ELSE "exists")
  /\ UNCHANGED <<hostVars, handleVars, waitVars, stopVars, watchVars, known,
                 run>>

StartExists(t) ==
  /\ \E exists \in ExistsReply(t) :
       Goto(t, "exists", IF exists THEN "start" ELSE "create")
  /\ OnlyRpc /\ UNCHANGED hostVars

StartCreate(t) ==
  /\ \E ok \in BOOLEAN :
       /\ Goto(t, "create", IF ok THEN "configure" ELSE "cleanup")
       /\ PotPrepare(t, ok)
  /\ OnlyRpc

\* (Mutant: a configuration command that fails returns without cleaning up.)
StartConfigureNoCleanup(t) ==
  /\ \/ Goto(t, "configure", "start") /\ PotConfigure(t)
     \/ Goto(t, "configure", "idle") /\ UNCHANGED hostVars
  /\ OnlyRpc

StartConfigure(t) ==
  /\ \/ Goto(t, "configure", "start") /\ PotConfigure(t)
     \/ Goto(t, "configure", "cleanup") /\ UNCHANGED hostVars
  /\ OnlyRpc

\* startContainer: the writers for the output of the task may fail to open.
StartContainer(t) ==
  \/ /\ Goto(t, "start", "register")
     /\ PotStart(t)
     /\ child' = [child EXCEPT ![t] = jail[t] # "running"]
     /\ UNCHANGED <<pluginVars, store, procState, exitCode, calledDestroy,
                    destroys, waitVars, stopVars, watchVars, known, run>>
  \/ /\ Goto(t, "start", "cleanup")
     /\ OnlyRpc /\ UNCHANGED hostVars

\* destroyContainer(cfg, nil) on the way out; its failure is only logged.
StartCleanup(t) ==
  /\ Goto(t, "cleanup", "idle")
  /\ PotDestroy(t)
  /\ known' = [known EXCEPT ![t] = "gone"]
  /\ UNCHANGED <<pluginVars, handleVars, waitVars, stopVars, watchVars, run>>

\* A fresh handle goes into the store; `waiter` is its waiting goroutine.
NewHandle(t, code, waiter, runner) ==
  /\ Set(t)
  /\ procState' = [procState EXCEPT ![t] = "running"]
  /\ exitCode' = [exitCode EXCEPT ![t] = code]
  /\ calledDestroy' = [calledDestroy EXCEPT ![t] = FALSE]
  /\ destroys' = [destroys EXCEPT ![t] = 0]
  /\ wait' = [wait EXCEPT ![t] = waiter]
  /\ run' = [run EXCEPT ![t] = runner]
  /\ known' = [known EXCEPT ![t] = "started"]
  /\ UNCHANGED <<pluginVars, hostVars, child, err, stopVars, watchVars>>

\* (Mutant: StartTask forgets `go h.run()`.)
StartRegisterNoRun(t) ==
  Goto(t, "register", "idle") /\ NewHandle(t, Nil, "get", "off")

\* (Mutant: a started task is polled for, like a recovered one.)
StartRegisterPolls(t) ==
  Goto(t, "register", "idle") /\ NewHandle(t, Nil, "poll", "alloc")

\* The handle of an adopted jail gets no run(): its exitResult stays nil.
StartRegister(t) ==
  \/ Goto(t, "register", "idle") /\ NewHandle(t, Nil, "get", "alloc")
  \/ Goto(t, "adopt", "idle") /\ NewHandle(t, Nil, "get", "off")
  \/ /\ "encode" \in Faults
     /\ Goto(t, "register", "cleanup") \/ Goto(t, "adopt", "cleanup")
     /\ OnlyRpc /\ UNCHANGED hostVars

-----------------------------------------------------------------------------
(* RecoverTask                                                             *)

\* For a stored ID the call returns at once and changes nothing.  A state it
\* cannot decode, or a config prepareContainer refuses, is an error before
\* anybody has looked at the jail, and the client gives the handle up.
RecoverTask(t) ==
  /\ up
  /\ known[t] = "started"
  /\ ~Get(t)
  /\ UNCHANGED <<pluginVars, hostVars, handleVars, waitVars, stopVars,
                 watchVars, run>>
  /\ \/ Goto(t, "idle", "recover") /\ UNCHANGED known
     \/ /\ "decode" \in Faults
        /\ Goto(t, "idle", "idle")
        /\ known' = [known EXCEPT ![t] = "refused"]

\* (Mutant: the test of the answer is the wrong way round.)
RecoverProbeInverted(t) ==
  \/ /\ Probe(t, FALSE)
     /\ Goto(t, "recover", "reRegister")
     /\ UNCHANGED <<hostVars, handleVars, waitVars, stopVars, watchVars, known,
                    run>>
  \/ /\ Probe(t, TRUE)
     /\ Goto(t, "recover", "idle")
     /\ Delete(t)
     /\ known' = [known EXCEPT ![t] = "gone"]
     /\ UNCHANGED <<hostVars, procState, exitCode, calledDestroy, child,
                    destroys, waitVars, stopVars, watchVars, run>>

\* A dead jail is an error, and the client gives the ID up.
RecoverProbe(t) ==
  \/ /\ Probe(t, TRUE)
     /\ Goto(t, "recover", "reRegister")
     /\ UNCHANGED <<hostVars, handleVars, waitVars, stopVars, watchVars, known,
                    run>>
  \/ /\ Probe(t, FALSE)
     /\ Goto(t, "recover", "idle")
     /\ Delete(t)
     /\ known' = [known EXCEPT ![t] = "gone"]
     /\ UNCHANGED <<hostVars, procState, exitCode, calledDestroy, child,
                    destroys, waitVars, stopVars, watchVars, run>>

\* (Mutant: RecoverTask forgets `go d.recoverWait()`.)
RecoverRegisterNoWait(t) ==
  Goto(t, "reRegister", "idle") /\ NewHandle(t, 0, "off", "off")

RecoverRegister(t) ==
  \/ Goto(t, "reRegister", "idle") /\ NewHandle(t, 0, "poll", "off")
  \/ /\ "encode" \in Faults
     /\ Goto(t, "reRegister", "reCleanup")
     /\ OnlyRpc /\ UNCHANGED hostVars

RecoverCleanup(t) ==
  /\ Goto(t, "reCleanup", "idle")
  /\ PotDestroy(t)
  /\ known' = [known EXCEPT ![t] = "gone"]
  /\ UNCHANGED <<pluginVars, handleVars, waitVars, stopVars, watchVars, run>>

-----------------------------------------------------------------------------
(* DestroyTask                                                             *)

\* stateLock: a reader waits for run() to leave its critical section.
StateLockFree(t) == run[t] # "code"
TaskStatus(t)    == [state |-> procState[t], exitResult |-> exitCode[t]]
IsRunning(t)     == TaskStatus(t).state = "running"

\* (Mutant: the test of IsRunning is lost.)
DestroyTaskUnchecked(t, force) ==
  /\ up /\ known[t] = "started" /\ Get(t)
  /\ Goto(t, "idle", "delete")
  /\ OnlyRpc /\ UNCHANGED hostVars

DestroyTask(t, force) ==
  /\ up
  /\ known[t] = "started"
  /\ Get(t)
  /\ StateLockFree(t)
  /\ IsRunning(t) => force
  /\ Goto(t, "idle", "delete")
  /\ hasty' = (hasty \/ result[t] = NoResult)
  /\ UNCHANGED <<up, ctxDone, panicked, mistaken, unread, hostVars, handleVars,
                 waitVars, stopVars, watchVars, known, run>>

DestroyDelete(t) ==
  /\ Goto(t, "delete", "idle")
  /\ Delete(t)
  /\ known' = [known EXCEPT ![t] = "gone"]
  /\ UNCHANGED <<pluginVars, hostVars, procState, exitCode, calledDestroy,
                 child, destroys, waitVars, stopVars, watchVars, run>>

-----------------------------------------------------------------------------
(* taskHandle.run: stateLock is held from "mark" to the end of "code".     *)
(* Nothing sets syexec.ExitError; syexec.exitCode is 0 here unless a       *)
(* statistics command on the same handle was faster and has failed         *)
(* (module HandleCommands).                                                *)

OnlyRun == UNCHANGED <<pluginVars, hostVars, store, calledDestroy, child,
                       destroys, waitVars, stopVars, watchVars, rpcVars>>

RunAlloc(t) ==
  /\ run[t] = "alloc"
  /\ run' = [run EXCEPT ![t] = "mark"]
  /\ exitCode' = [exitCode EXCEPT ![t] = IF @ = Nil THEN 0 ELSE @]
  /\ OnlyRun /\ UNCHANGED procState

RunMark(t) ==
  /\ run[t] = "mark"
  /\ run' = [run EXCEPT ![t] = "code"]
  /\ procState' = [procState EXCEPT ![t] = "running"]
  /\ OnlyRun /\ UNCHANGED exitCode

RunCode(t) ==
  /\ run[t] = "code"
  /\ run' = [run EXCEPT ![t] = "done"]
  /\ \E c \in {0} \cup StatsCode : exitCode' = [exitCode EXCEPT ![t] = c]
  /\ OnlyRun /\ UNCHANGED procState

-----------------------------------------------------------------------------
(* potWait                                                                 *)

WaitGoto(t, from, to) == wait[t] = from /\ wait' = [wait EXCEPT ![t] = to]

OnlyWait == UNCHANGED <<pluginVars, hostVars, store, calledDestroy, child,
                        destroys, stopVars, watchVars, rpcVars, run>>

\* A handle that is no longer stored is a nil pointer from here on.
WaitGet(t) ==
  /\ WaitGoto(t, "get", IF Get(t) THEN "wait" ELSE "orphan")
  /\ OnlyWait /\ UNCHANGED <<procState, exitCode, err>>

\* Cmd.Wait: the status of a child, or at once ECHILD for a process that is
\* not one.  Without "lateRun", run() is done by then.
WaitReturns(t) ==
  /\ \E s \in Ended : /\ IF child[t] THEN s = start[t] ELSE s = "err"
                      /\ err' = [err EXCEPT ![t] = s]
  /\ "lateRun" \in Faults \/ run[t] \in {"off", "done"}
  /\ WaitGoto(t, "wait", "mark")
  /\ TakenForEnded(t)
  /\ UNCHANGED <<hostVars, handleVars, stopVars, watchVars, rpcVars, run>>

OrphanReturns(t) ==
  /\ wait[t] = "orphan"
  /\ child[t] => start[t] \in Ended
  /\ Panic

WaitMark(t) ==
  /\ WaitGoto(t, "mark", IF err[t] = "ok" THEN "claim" ELSE "fail")
  /\ procState' = [procState EXCEPT ![t] = "exited"]
  /\ OnlyWait /\ UNCHANGED <<exitCode, err>>

\* (Mutant: the status of `pot start` is taken for the exit code.)
WaitFailRaw(t) ==
  /\ exitCode[t] # Nil
  /\ WaitGoto(t, "fail", "claim")
  /\ exitCode' = [exitCode EXCEPT ![t] = IF err[t] = "app" THEN 125 ELSE 255]
  /\ OnlyWait /\ UNCHANGED <<procState, err>>

WaitFail(t) ==
  \/ /\ exitCode[t] # Nil
     /\ WaitGoto(t, "fail", IF err[t] = "app" THEN "query" ELSE "claim")
     /\ exitCode' = [exitCode EXCEPT ![t] = defaultFailedCode]
     /\ OnlyWait /\ UNCHANGED <<procState, err>>
  \/ /\ exitCode[t] = Nil
     /\ wait[t] = "fail"
     /\ Panic

\* (Mutant: a failed program counts as a success.)
WaitQueryIgnored(t) ==
  /\ WaitGoto(t, "query", "claim")
  /\ OnlyWait /\ UNCHANGED <<procState, exitCode, err>>

\* A waiter gets no code from last-run-stats although the program has left one.
Noted(t, c) ==
  /\ unread' = [unread EXCEPT ![t] = @ \/ (c = NoRun /\ lastRun[t] # NoRun)]
  /\ UNCHANGED <<up, ctxDone, panicked, hasty, mistaken>>

OnlyQuery == UNCHANGED <<hostVars, store, procState, calledDestroy, child,
                         destroys, err, stopVars, watchVars, rpcVars, run>>

\* last-run-stats, and the write of its answer.
WaitQuery(t) ==
  /\ WaitGoto(t, "query", "claim")
  /\ \E c \in LastRunReply(t) :
       /\ exitCode' = [exitCode EXCEPT ![t] = IF c = NoRun THEN @ ELSE c]
       /\ Noted(t, c)
  /\ OnlyQuery

-----------------------------------------------------------------------------
(* recoverWait                                                             *)

\* The loop ends at a tick that finds the jail dead, or when ctx is done.
PollEnds(t) ==
  /\ \/ Probe(t, FALSE)
     \/ ctxDone /\ TakenForEnded(t)
  /\ WaitGoto(t, "poll", "reMark")
  /\ UNCHANGED <<hostVars, handleVars, err, stopVars, watchVars, rpcVars, run>>

\* (Mutant: recoverWait leaves procState alone.)
RecoverMarkLost(t) ==
  /\ Get(t)
  /\ WaitGoto(t, "reMark", "reQuery")
  /\ OnlyWait /\ UNCHANGED <<procState, exitCode, err>>

RecoverMark(t) ==
  \/ /\ Get(t)
     /\ WaitGoto(t, "reMark", "reQuery")
     /\ procState' = [procState EXCEPT ![t] = "exited"]
     /\ OnlyWait /\ UNCHANGED <<exitCode, err>>
  \/ /\ ~Get(t)
     /\ wait[t] = "reMark"
     /\ Panic

RecoverQuery(t) ==
  /\ WaitGoto(t, "reQuery", "claim")
  /\ \E c \in LastRunReply(t) :
       /\ exitCode' = [exitCode EXCEPT ![t] =
                         IF c = NoRun THEN defaultFailedCode ELSE c]
       /\ Noted(t, c)
  /\ OnlyQuery

-----------------------------------------------------------------------------
(* destroyContainer with the flag of the handle, by a waiter or StopTask.  *)

\* (Mutant: calledDestroy is set, not tested.)
WaitClaimBlind(t) ==
  /\ WaitGoto(t, "claim", "destroy")
  /\ calledDestroy' = [calledDestroy EXCEPT ![t] = TRUE]
  /\ UNCHANGED <<pluginVars, hostVars, store, procState, exitCode, child,
                 destroys, err, stopVars, watchVars, rpcVars, run>>

\* (Mutant: only StopTask destroys.)
WaitClaimNever(t) ==
  /\ WaitGoto(t, "claim", "done")
  /\ OnlyWait /\ UNCHANGED <<procState, exitCode, err>>

WaitClaim(t) ==
  /\ WaitGoto(t, "claim", IF calledDestroy[t] THEN "done" ELSE "destroy")
  /\ calledDestroy' = [calledDestroy EXCEPT ![t] = TRUE]
  /\ UNCHANGED <<pluginVars, hostVars, store, procState, exitCode, child,
                 destroys, err, stopVars, watchVars, rpcVars, run>>

WaitDestroy(t) ==
  /\ WaitGoto(t, "destroy", "done")
  /\ PotDestroy(t)
  /\ destroys' = [destroys EXCEPT ![t] = @ + 1]
  /\ UNCHANGED <<pluginVars, store, procState, exitCode, calledDestroy, child,
                 err, stopVars, watchVars, rpcVars, run>>

StopTask(t) ==
  /\ up
  /\ known[t] = "started"
  /\ Get(t)
  /\ stop[t] = "idle"
  /\ stop' = [stop EXCEPT ![t] = "claim"]
  /\ asked' = [asked EXCEPT ![t] = TRUE]
  /\ UNCHANGED <<pluginVars, hostVars, handleVars, waitVars, watchVars,
                 rpcVars, run>>

\* (Mutant: StopTask sets calledDestroy and leaves the jail to others.)
StopClaimOnly(t) ==
  /\ stop[t] = "claim"
  /\ stop' = [stop EXCEPT ![t] = "idle"]
  /\ calledDestroy' = [calledDestroy EXCEPT ![t] = TRUE]
  /\ UNCHANGED <<pluginVars, hostVars, store, procState, exitCode, child,
                 destroys, waitVars, asked, watchVars, rpcVars, run>>

\* A lost race for calledDestroy returns nil, as does a failed `pot destroy`.
StopClaim(t) ==
  /\ stop[t] = "claim"
  /\ stop' = [stop EXCEPT ![t] = IF calledDestroy[t] THEN "idle" ELSE "destroy"]
  /\ calledDestroy' = [calledDestroy EXCEPT ![t] = TRUE]
  /\ UNCHANGED <<pluginVars, hostVars, store, procState, exitCode, child,
                 destroys, waitVars, asked, watchVars, rpcVars, run>>

StopDestroy(t) ==
  /\ stop[t] = "destroy"
  /\ stop' = [stop EXCEPT ![t] = "idle"]
  /\ PotDestroy(t)
  /\ destroys' = [destroys EXCEPT ![t] = @ + 1]
  /\ UNCHANGED <<pluginVars, store, procState, exitCode, calledDestroy, child,
                 waitVars, asked, watchVars, rpcVars, run>>

-----------------------------------------------------------------------------
(* WaitTask and its goroutine handleWait                                   *)

OnlyWatch == UNCHANGED <<pluginVars, hostVars, handleVars, waitVars, stopVars,
                         rpcVars, run>>

\* A goroutine whose caller has left has no effect any more: a new call may
\* take its place here.
WaitTask(t) ==
  /\ up
  /\ known[t] = "started"
  /\ Get(t)
  /\ ~listening[t]
  /\ watch' = [watch EXCEPT ![t] = "tick"]
  /\ listening' = [listening EXCEPT ![t] = TRUE]
  /\ OnlyWatch /\ UNCHANGED result

\* (Mutant: a tick sends whatever state it finds.)
WatchTickAnyState(t) ==
  /\ watch[t] = "tick"
  /\ StateLockFree(t)
  /\ watch' = [watch EXCEPT ![t] = IF exitCode[t] = Nil THEN "sendNil" ELSE "send"]
  /\ OnlyWatch /\ UNCHANGED <<listening, result>>

\* A tick: TaskStatus under stateLock, then the pointer exitResult without it.
WatchTick(t) ==
  /\ watch[t] = "tick"
  /\ StateLockFree(t)
  /\ TaskStatus(t).state = "exited"
  /\ watch' = [watch EXCEPT ![t] = IF exitCode[t] = Nil THEN "sendNil" ELSE "send"]
  /\ OnlyWatch /\ UNCHANGED <<listening, result>>

\* The caller receives the pointer, reads what it points to, and leaves.
WatchSend(t) ==
  /\ watch[t] \in {"send", "sendNil"}
  /\ listening[t]
  /\ watch' = [watch EXCEPT ![t] = "tick"]
  /\ listening' = [listening EXCEPT ![t] = FALSE]
  /\ result' = [result EXCEPT ![t] = IF watch[t] = "send" THEN exitCode[t] ELSE Nil]
  /\ OnlyWatch

WatchReturn(t) ==
  /\ watch[t] = "tick"
  /\ ~listening[t] \/ ctxDone
  /\ watch' = [watch EXCEPT ![t] = "off"]
  /\ listening' = [listening EXCEPT ![t] = FALSE]
  /\ OnlyWatch /\ UNCHANGED result

\* The agent cancels the call.
CancelWait(t) ==
  /\ listening[t]
  /\ listening' = [listening EXCEPT ![t] = FALSE]
  /\ OnlyWatch /\ UNCHANGED <<watch, result>>

-----------------------------------------------------------------------------
(* A `pot` that cannot be executed leaves Cmd.Process nil, and the next     *)
(* line reads its Pid; only createContainer and execInContainer return      *)
(* before that.                                                             *)

RunsPot(t) ==
  \/ rpc[t] \in {"start", "cleanup", "reCleanup"}
  \/ wait[t] \in {"query", "reQuery", "destroy"}
  \/ stop[t] = "destroy"

NoProcess(t) ==
  /\ "fork" \in Faults
  /\ RunsPot(t)
  /\ Panic

-----------------------------------------------------------------------------
OnlyHost == UNCHANGED <<pluginVars, handleVars, waitVars, stopVars, watchVars,
                        rpcVars, run>>

HostStep(t) == (JailExit(t) \/ StartEnd(t)) /\ OnlyHost

ClientCall(t) ==
  \/ StartTask(t)
  \/ RecoverTask(t)
  \/ \E force \in BOOLEAN : DestroyTask(t, force)
  \/ StopTask(t)
  \/ WaitTask(t)
  \/ CancelWait(t)

RpcStep(t) ==
  \/ StartProbe(t)
  \/ StartExists(t)
  \/ StartCreate(t)
  \/ StartConfigure(t)
  \/ StartContainer(t)
  \/ StartCleanup(t)
  \/ StartRegister(t)
  \/ RecoverProbe(t)
  \/ RecoverRegister(t)
  \/ RecoverCleanup(t)
  \/ DestroyDelete(t)

RunStep(t) == RunAlloc(t) \/ RunMark(t) \/ RunCode(t)

WaitStep(t) ==
  \/ WaitGet(t)
  \/ WaitReturns(t)
  \/ OrphanReturns(t)
  \/ WaitMark(t)
  \/ WaitFail(t)
  \/ WaitQuery(t)
  \/ PollEnds(t)
  \/ RecoverMark(t)
  \/ RecoverQuery(t)
  \/ WaitClaim(t)
  \/ WaitDestroy(t)

StopStep(t) == StopClaim(t) \/ StopDestroy(t)

WatchStep(t) == WatchTick(t) \/ WatchSend(t) \/ WatchReturn(t)

TaskStep(t) ==
  \/ HostStep(t)
  \/ ClientCall(t)
  \/ RpcStep(t)
  \/ RunStep(t)
  \/ WaitStep(t)
  \/ StopStep(t)
  \/ WatchStep(t)
  \/ NoProcess(t)

Next ==
  \/ Crash
  \/ Restart
  \/ Shutdown
  \/ \E t \in Task : TaskStep(t)

Spec == Init /\ [][Next]_vars

-----------------------------------------------------------------------------
(* Fairness.  Goroutines, RPCs under way and the end of a `pot start` whose *)
(* jail has ended go on; the client, a running jail, a crash, a restart and *)
(* Shutdown owe nothing.                                                    *)

StartEnds(t) == StartEnd(t) /\ OnlyHost

Fairness ==
  \A t \in Task :
    /\ WF_vars(StartEnds(t))
    /\ WF_vars(RpcStep(t))
    /\ WF_vars(RunStep(t))
    /\ WF_vars(WaitStep(t))
    /\ WF_vars(StopStep(t))
    /\ WF_vars(WatchStep(t))

FairSpec == Spec /\ Fairness

-----------------------------------------------------------------------------
(* Safety                                                                  *)

\* The waiter and any number of StopTask calls race for the jail of a handle;
\* the compare-and-swap in destroyContainer lets one of them run `pot destroy`.
SingleDestroy == \A t \in Task : destroys[t] <= 1

\* A jail behind a handle always has somebody who will still destroy it: its
\* waiter, or a StopTask that has taken over - unless its one `pot destroy`
\* has failed, which nobody repeats.
Supervised ==
  \A t \in Task :
    procState[t] # "none" /\ jail[t] # "absent" =>
      \/ wait[t] \notin {"off", "done"}
      \/ stop[t] = "destroy"
      \/ "destroy" \in Faults /\ destroys[t] = 1

\* Without a crash, and as long as `pot destroy` works, no jail outlives the
\* calls and goroutines that know of it (a panic ends them all): a StartTask
\* that fails at any point leaves nothing behind, and its caller has no handle
\* to clean up with.
NoLeak ==
  \A t \in Task :
    jail[t] # "absent" => \/ panicked
                          \/ rpc[t] \in StartPc
                          \/ wait[t] \notin {"off", "done"}
                          \/ stop[t] = "destroy"

\* A jail that still runs is never given up, whatever crashes or panics: its
\* client has its ID and will start or recover the task again.  What can lose
\* it is a RecoverTask that refuses its handle without a look at the jail, a
\* hasty client, or the driver itself when it takes a live `pot start` for an
\* ended one.
NoRunningOrphan ==
  \A t \in Task :
    jail[t] = "running" => \/ known[t] \in {"fresh", "started"}
                           \/ known[t] = "refused"
                           \/ hasty \/ mistaken

\* What a client sees of a task, as TaskContract promises it: InspectTask and
\* WaitTask never show an exit before it is there, nor take one back.
Contract ==
  INSTANCE TaskContract WITH
    status <- procState,
    told <- [t \in Task |-> result[t] # NoResult]

KeepsTaskContract == Contract!Spec

\* What a task that nobody stopped has to be reported with.
TrueCode(t) == IF lastRun[t] = NoRun THEN defaultFailedCode ELSE lastRun[t]

\* What a handle holds instead when the exit could not be read: 255 after a
\* last-run-stats that failed, and for a child that ended with 0, of whom
\* nobody asks the code, what a statistics command has left.
ExcusedCode(t) ==
  (IF unread[t] THEN {defaultFailedCode} ELSE {}) \cup
  (IF child[t] /\ lastRun[t] = 0 THEN StatsCode ELSE {})

\* When a waiter is done with the exit of a task, started or recovered, the
\* handle holds the exit code of its program, 255 if there is none, as long as
\* the driver did not mistake a live task for an ended one; it holds another
\* one only where the program's code could not be read or is not asked for.
TruthfulExit ==
  \A t \in Task :
    /\ procState[t] # "none"
    /\ wait[t] \in {"claim", "destroy", "done"}
    /\ ~asked[t] /\ ~mistaken
    => exitCode[t] \in {TrueCode(t)} \cup ExcusedCode(t)

\* WaitTask answers only after `pot start` has ended, also for a task that is
\* being stopped, across restarts of the plugin, and in whatever order run()
\* and potWait write procState - unless the driver itself took it for ended.
ResultMeansEnded ==
  \A t \in Task : result[t] # NoResult => start[t] # "live" \/ mistaken

\* DestroyTask without force does not forget a task that still runs, across
\* restarts and adoptions, unless the driver took it for ended before.
DestroyRespectsRunning ==
  [][\A t \in Task :
       DestroyTask(t, FALSE) => start[t] # "live" \/ mistaken]_vars

\* A plugin that has not died before never takes a live `pot start` for an
\* ended one, not even with a pgrep that misses it: its waiters all wait for
\* children of its own.
NoMistake == mistaken => panicked

\* A waiter is about to dereference a nil pointer: its ID has no handle any
\* more, or its handle has no exitResult.
LostHandle(t) == wait[t] = "orphan" \/ (wait[t] = "reMark" /\ ~store[t])
LostResult(t) == wait[t] = "fail" /\ exitCode[t] = Nil

\* No goroutine meets an ID without handle unless its client was hasty or the
\* driver took a live task for ended, and none a handle without exitResult
\* unless its jail was adopted or it has overtaken run().
NilHasCause ==
  \A t \in Task :
    /\ LostHandle(t) => hasty \/ mistaken
    /\ LostResult(t) => ~child[t] \/ run[t] = "alloc"

-----------------------------------------------------------------------------
(* Liveness                                                                *)

\* A task marked exited loses its jail.
Reaped ==
  \A t \in Task : procState[t] = "exited" ~> jail[t] = "absent" \/ ~up

\* StopTask takes effect even if it loses the race for the jail.
StopTakesEffect ==
  \A t \in Task : stop[t] = "claim" ~> jail[t] = "absent" \/ ~up

\* A WaitTask call on a task whose `pot start` has ended comes back.
Reported ==
  \A t \in Task :
    listening[t] /\ start[t] \in Ended ~> ~listening[t] \/ ~up

-----------------------------------------------------------------------------
(* What comments in the code say, and the code does not do.                *)

\* "WaitTask waits for task completion" (driver.go:556): its result is the
\* exit code of a task that ended without being stopped.
ResultIsFinal ==
  \A t \in Task :
    result[t] # NoResult /\ ~asked[t] /\ start[t] \in Ended =>
      result[t] = TrueCode(t)

\* "cannot destroy running task" (driver.go:625), without force.
RunningNotDestroyed ==
  [][\A t \in Task : DestroyTask(t, FALSE) => start[t] # "live"]_vars
=============================================================================

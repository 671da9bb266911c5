-------------------------- MODULE PotDriverProofs --------------------------
(***************************************************************************)
(* Proofs about PotDriver, for any set of tasks, any exit codes and any    *)
(* combination of faults: type correctness, that a handle runs `pot        *)
(* destroy` at most once, and that a jail behind a handle always has       *)
(* somebody left who will destroy it.                                      *)
(***************************************************************************)
EXTENDS PotDriver, TLAPS

(***************************************************************************)
(* The inductive invariant, for one task.                                  *)
(***************************************************************************)

\* Without a handle nothing runs on its behalf, and a call that is building
\* one has none yet: no second handle can overwrite the flags of the first.
HandleInv(t) ==
  /\ procState[t] = "none" => /\ ~store[t]
                              /\ wait[t] = "off"
                              /\ run[t] = "off"
                              /\ stop[t] = "idle"
                              /\ ~calledDestroy[t]
                              /\ destroys[t] = 0
  /\ procState[t] # "none" => wait[t] # "off"
  /\ rpc[t] \in StartPc \cup RecoverPc => procState[t] = "none"
  /\ known[t] = "fresh" => procState[t] = "none"
  /\ known[t] = "started" /\ procState[t] # "none" => store[t]

\* Whoever is about to run `pot destroy` has set calledDestroy, is alone, and
\* finds that nobody has run it before.
ClaimInv(t) ==
  /\ wait[t] = "destroy" => /\ calledDestroy[t]
                            /\ stop[t] # "destroy"
                            /\ destroys[t] = 0
  /\ stop[t] = "destroy" => calledDestroy[t] /\ destroys[t] = 0
  /\ ~calledDestroy[t] => destroys[t] = 0
  /\ destroys[t] <= 1

\* A jail that has been claimed is gone, about to be destroyed, or the victim
\* of a failed `pot destroy`; a waiter only leaves a claimed jail behind.
DutyInv(t) ==
  /\ wait[t] = "done" => calledDestroy[t]
  /\ calledDestroy[t] => \/ jail[t] = "absent"
                         \/ wait[t] = "destroy"
                         \/ stop[t] = "destroy"
                         \/ "destroy" \in Faults /\ destroys[t] = 1

TaskInv(t) == HandleInv(t) /\ ClaimInv(t) /\ DutyInv(t)

IInv == TypeOK /\ \A t \in Task : TaskInv(t)

-----------------------------------------------------------------------------
(* Type correctness.                                                       *)

USE DEF hostVars, pluginVars, handleVars, waitVars, stopVars, watchVars,
        rpcVars, Get, Set, Delete, Probe, TakenForEnded

\* What Init and Die have in common: the memory of a new plugin.
LEMMA EmptyMemory ==
  ASSUME NEW v, NEW S, v \in S
  PROVE  All(v) \in [Task -> S]
  BY DEF All

LEMMA InitTypeOK == Init => TypeOK
<1> SUFFICES ASSUME Init
             PROVE  TypeOK
  OBVIOUS
<1> USE DEF Init
<1>1. HostTypeOK
  BY DEF HostInit, HostTypeOK, Ended, NoRun
<1>2. /\ rpc \in [Task -> RpcPc]
      /\ run \in [Task -> RunPc]
      /\ wait \in [Task -> WaitPc]
      /\ stop \in [Task -> StopPc]
      /\ watch \in [Task -> WatchPc]
  BY EmptyMemory DEF RpcPc, RunPc, WaitPc, StopPc, WatchPc
<1>3. /\ exitCode \in [Task -> Codes \cup {Nil}]
      /\ result \in [Task -> Codes \cup {Nil, NoResult}]
      /\ destroys \in [Task -> Nat]
      /\ err \in [Task -> Ended]
  BY EmptyMemory DEF Ended
<1>4. /\ procState \in [Task -> {"none", "running", "exited"}]
      /\ known \in [Task -> {"fresh", "started", "refused", "gone"}]
  BY EmptyMemory
<1>5. All(FALSE) \in [Task -> BOOLEAN]
  BY EmptyMemory
<1> QED
  BY <1>1, <1>2, <1>3, <1>4, <1>5 DEF TypeOK

\* The death of the plugin resets what it keeps in memory.
LEMMA DieTypeOK ==
  ASSUME TypeOK, Die, panicked' \in BOOLEAN
  PROVE  TypeOK'
<1> USE DEF Die
<1>1. /\ rpc' \in [Task -> RpcPc]
      /\ run' \in [Task -> RunPc]
      /\ wait' \in [Task -> WaitPc]
      /\ stop' \in [Task -> StopPc]
      /\ watch' \in [Task -> WatchPc]
  BY EmptyMemory DEF RpcPc, RunPc, WaitPc, StopPc, WatchPc
<1>2. /\ exitCode' \in [Task -> Codes \cup {Nil}]
      /\ destroys' \in [Task -> Nat]
      /\ err' \in [Task -> Ended]
      /\ procState' \in [Task -> {"none", "running", "exited"}]
  BY EmptyMemory DEF Ended
<1>3. All(FALSE) \in [Task -> BOOLEAN]
  BY EmptyMemory
<1>4. HostTypeOK'
  BY DEF TypeOK, HostTypeOK
<1> QED
  BY <1>1, <1>2, <1>3, <1>4 DEF TypeOK

\* Steps of the host and calls of the client.
LEMMA ClientTypeOK ==
  ASSUME TypeOK, NEW t \in Task, HostStep(t) \/ ClientCall(t)
  PROVE  TypeOK'
<1> USE DEF TypeOK, HostTypeOK, OnlyHost, OnlyRpc, OnlyWatch, Goto
<1>1. CASE JailExit(t) /\ OnlyHost
  BY <1>1 DEF JailExit
<1>2. CASE StartEnd(t) /\ OnlyHost
  BY <1>2 DEF StartEnd
<1>3. CASE StartTask(t)
  <2>1. CASE Panic
    BY <2>1, DieTypeOK DEF Panic
  <2>2. CASE ~Panic
    BY <1>3, <2>2 DEF StartTask, RpcPc, StartPc
  <2> QED
    BY <2>1, <2>2
<1>4. CASE RecoverTask(t)
  BY <1>4 DEF RecoverTask, RpcPc, RecoverPc
<1>5. ASSUME NEW force \in BOOLEAN, DestroyTask(t, force)
      PROVE  TypeOK'
  BY <1>5 DEF DestroyTask, RpcPc
<1>6. CASE StopTask(t)
  BY <1>6 DEF StopTask, StopPc
<1>7. CASE WaitTask(t)
  BY <1>7 DEF WaitTask, WatchPc
<1>8. CASE CancelWait(t)
  BY <1>8 DEF CancelWait
<1> QED
  BY <1>1, <1>2, <1>3, <1>4, <1>5, <1>6, <1>7, <1>8
     DEF HostStep, ClientCall

\* A call that stores a new handle returns.
LEMMA NewHandleTypeOK ==
  ASSUME TypeOK, NEW t \in Task, NEW from, Goto(t, from, "idle"),
         NEW code \in Codes \cup {Nil}, NEW waiter \in WaitPc,
         NEW runner \in RunPc, NewHandle(t, code, waiter, runner)
  PROVE  TypeOK'
<1>1. /\ rpc' \in [Task -> RpcPc]
      /\ known' \in [Task -> {"fresh", "started", "refused", "gone"}]
  BY DEF TypeOK, Goto, NewHandle, RpcPc
<1>2. /\ store' \in [Task -> BOOLEAN]
      /\ procState' \in [Task -> {"none", "running", "exited"}]
      /\ exitCode' \in [Task -> Codes \cup {Nil}]
      /\ calledDestroy' \in [Task -> BOOLEAN]
      /\ destroys' \in [Task -> Nat]
  BY DEF TypeOK, NewHandle
<1>3. /\ wait' \in [Task -> WaitPc]
      /\ run' \in [Task -> RunPc]
  BY DEF TypeOK, NewHandle
<1> QED
  BY <1>1, <1>2, <1>3 DEF TypeOK, HostTypeOK, NewHandle

\* Both outcomes of the probe of RecoverTask.
LEMMA RecoverProbeTypeOK ==
  ASSUME TypeOK, NEW t \in Task, RecoverProbe(t)
  PROVE  TypeOK'
<1>1. /\ mistaken' \in BOOLEAN
      /\ UNCHANGED <<up, ctxDone, panicked, hasty, unread>>
  <2>1. mistaken \in BOOLEAN /\ Alive(t) \in BOOLEAN
    BY DEF TypeOK, Alive
  <2> QED
    BY <2>1 DEF RecoverProbe
<1>2. rpc' \in [Task -> RpcPc]
  <2>1. /\ rpc \in [Task -> RpcPc]
        /\ "idle" \in RpcPc /\ "reRegister" \in RpcPc
    BY DEF TypeOK, RpcPc, RecoverPc
  <2>2. \/ rpc' = [rpc EXCEPT ![t] = "reRegister"]
        \/ rpc' = [rpc EXCEPT ![t] = "idle"]
    BY DEF RecoverProbe, Goto
  <2> QED
    BY <2>1, <2>2
<1>3. known' \in [Task -> {"fresh", "started", "refused", "gone"}]
  BY DEF RecoverProbe, TypeOK
<1>4. store' \in [Task -> BOOLEAN]
  BY DEF RecoverProbe, TypeOK
<1>5. UNCHANGED <<hostVars, procState, exitCode, calledDestroy, child,
                  destroys, waitVars, stopVars, watchVars, run>>
  BY DEF RecoverProbe
<1> QED
  BY <1>1, <1>2, <1>3, <1>4, <1>5 DEF TypeOK, HostTypeOK

\* The `pot start` of StartTask.
LEMMA StartContainerTypeOK ==
  ASSUME TypeOK, NEW t \in Task, StartContainer(t)
  PROVE  TypeOK'
<1>1. HostTypeOK'
  <2>1. CASE PotStart(t)
    BY <2>1 DEF PotStart, TypeOK, HostTypeOK
  <2>2. CASE UNCHANGED hostVars
    BY <2>2 DEF TypeOK, HostTypeOK
  <2> QED
    BY <2>1, <2>2 DEF StartContainer
<1>2. rpc' \in [Task -> RpcPc]
  <2>1. /\ rpc \in [Task -> RpcPc]
        /\ "register" \in RpcPc /\ "cleanup" \in RpcPc
    BY DEF TypeOK, RpcPc, StartPc
  <2>2. \/ rpc' = [rpc EXCEPT ![t] = "register"]
        \/ rpc' = [rpc EXCEPT ![t] = "cleanup"]
    BY DEF StartContainer, Goto
  <2> QED
    BY <2>1, <2>2
<1>3. child' \in [Task -> BOOLEAN]
  <2>1. CASE child' = [child EXCEPT ![t] = jail[t] # "running"]
    BY <2>1 DEF TypeOK
  <2>2. CASE child' = child
    BY <2>2 DEF TypeOK
  <2> QED
    BY <2>1, <2>2 DEF StartContainer, OnlyRpc
<1>4. UNCHANGED <<pluginVars, store, procState, exitCode, calledDestroy,
                  destroys, waitVars, stopVars, watchVars, known, run>>
  BY DEF StartContainer, OnlyRpc
<1> QED
  BY <1>1, <1>2, <1>3, <1>4 DEF TypeOK

\* Steps of StartTask, RecoverTask and DestroyTask.
LEMMA RpcTypeOK ==
  ASSUME TypeOK, NEW t \in Task, RpcStep(t)
  PROVE  TypeOK'
<1> USE DEF TypeOK, HostTypeOK, OnlyRpc, Goto, RpcPc, StartPc, RecoverPc
<1>1. CASE StartProbe(t)
  BY <1>1 DEF StartProbe
<1>2. CASE StartExists(t)
  BY <1>2 DEF StartExists
<1>3. CASE StartCreate(t)
  BY <1>3 DEF StartCreate, PotPrepare
<1>4. CASE StartConfigure(t)
  BY <1>4 DEF StartConfigure, PotConfigure
<1>5. CASE StartContainer(t)
  BY <1>5, StartContainerTypeOK
<1>6. CASE StartCleanup(t)
  BY <1>6 DEF StartCleanup, PotDestroy
<1>7. CASE StartRegister(t)
  <2>1. CASE Goto(t, "register", "idle") /\ NewHandle(t, Nil, "get", "alloc")
    BY <2>1, NewHandleTypeOK DEF RunPc, WaitPc
  <2>2. CASE Goto(t, "adopt", "idle") /\ NewHandle(t, Nil, "get", "off")
    BY <2>2, NewHandleTypeOK DEF RunPc, WaitPc
  <2>3. CASE (Goto(t, "register", "cleanup") \/ Goto(t, "adopt", "cleanup"))
             /\ OnlyRpc /\ UNCHANGED hostVars
    BY <2>3
  <2> QED
    BY <1>7, <2>1, <2>2, <2>3 DEF StartRegister
<1>8. CASE RecoverProbe(t)
  BY <1>8, RecoverProbeTypeOK
<1>9. CASE RecoverRegister(t)
  <2>1. CASE Goto(t, "reRegister", "idle") /\ NewHandle(t, 0, "poll", "off")
    BY <2>1, NewHandleTypeOK DEF RunPc, WaitPc, Codes, Code
  <2>2. CASE Goto(t, "reRegister", "reCleanup") /\ OnlyRpc /\ UNCHANGED hostVars
    BY <2>2
  <2> QED
    BY <1>9, <2>1, <2>2 DEF RecoverRegister
<1>10. CASE RecoverCleanup(t)
  BY <1>10 DEF RecoverCleanup, PotDestroy
<1>11. CASE DestroyDelete(t)
  BY <1>11 DEF DestroyDelete
<1> QED
  BY <1>1, <1>2, <1>3, <1>4, <1>5, <1>6, <1>7, <1>8, <1>9, <1>10, <1>11
     DEF RpcStep

\* The answer of last-run-stats is an exit code, or none.
LEMMA QueryTypeOK ==
  ASSUME TypeOK, NEW t \in Task, WaitQuery(t) \/ RecoverQuery(t)
  PROVE  TypeOK'
<1>1. wait' \in [Task -> WaitPc]
  BY DEF TypeOK, WaitQuery, RecoverQuery, WaitGoto, WaitPc
<1>2. PICK c \in LastRunReply(t) :
        /\ \/ exitCode' = [exitCode EXCEPT ![t] = IF c = NoRun THEN @ ELSE c]
           \/ exitCode' = [exitCode EXCEPT ![t] =
                              IF c = NoRun THEN defaultFailedCode ELSE c]
        /\ Noted(t, c)
  BY DEF WaitQuery, RecoverQuery
<1>3. c = NoRun \/ c \in Codes
  BY DEF LastRunReply, TypeOK, HostTypeOK, Codes
<1>4. exitCode' \in [Task -> Codes \cup {Nil}]
  BY <1>2, <1>3 DEF TypeOK, Codes
<1>5. unread' \in [Task -> BOOLEAN] /\ UNCHANGED <<up, ctxDone, panicked, hasty, mistaken>>
  <2>1. unread \in [Task -> BOOLEAN] /\ (c = NoRun /\ lastRun[t] # NoRun) \in BOOLEAN
    BY DEF TypeOK
  <2> QED
    BY <1>2, <2>1, Zenon DEF Noted
<1>6. OnlyQuery
  BY DEF WaitQuery, RecoverQuery
<1> QED
  BY <1>1, <1>4, <1>5, <1>6 DEF TypeOK, HostTypeOK, OnlyQuery

\* Steps of the waiting goroutines.
LEMMA WaitTypeOK ==
  ASSUME TypeOK, NEW t \in Task, WaitStep(t)
  PROVE  TypeOK'
<1> USE DEF TypeOK, HostTypeOK, OnlyWait, WaitGoto, WaitPc
<1>1. CASE WaitGet(t)
  BY <1>1 DEF WaitGet
<1>2. CASE WaitReturns(t)
  BY <1>2 DEF WaitReturns
<1>3. CASE OrphanReturns(t)
  BY <1>3, DieTypeOK DEF OrphanReturns, Panic
<1>4. CASE WaitMark(t)
  BY <1>4 DEF WaitMark
<1>5. CASE WaitFail(t)
  <2>1. CASE Panic
    BY <2>1, DieTypeOK DEF Panic
  <2>2. CASE ~Panic
    BY <1>5, <2>2 DEF WaitFail, Codes, defaultFailedCode
  <2> QED
    BY <2>1, <2>2
<1>6. CASE WaitQuery(t)
  BY <1>6, QueryTypeOK
<1>7. CASE PollEnds(t)
  BY <1>7 DEF PollEnds
<1>8. CASE RecoverMark(t)
  <2>1. CASE Panic
    BY <2>1, DieTypeOK DEF Panic
  <2>2. CASE ~Panic
    BY <1>8, <2>2 DEF RecoverMark
  <2> QED
    BY <2>1, <2>2
<1>9. CASE RecoverQuery(t)
  BY <1>9, QueryTypeOK
<1>10. CASE WaitClaim(t)
  BY <1>10 DEF WaitClaim
<1>11. CASE WaitDestroy(t)
  BY <1>11 DEF WaitDestroy, PotDestroy
<1> QED
  BY <1>1, <1>2, <1>3, <1>4, <1>5, <1>6, <1>7, <1>8, <1>9, <1>10, <1>11
     DEF WaitStep

\* Steps of run(), StopTask and handleWait.
LEMMA OtherTypeOK ==
  ASSUME TypeOK, NEW t \in Task, RunStep(t) \/ StopStep(t) \/ WatchStep(t)
  PROVE  TypeOK'
<1> USE DEF TypeOK, HostTypeOK, OnlyRun, OnlyWatch, RunPc, StopPc, WatchPc
<1>1. CASE RunAlloc(t)
  BY <1>1 DEF RunAlloc, Codes, Code
<1>2. CASE RunMark(t)
  BY <1>2 DEF RunMark
<1>3. CASE RunCode(t)
  BY <1>3 DEF RunCode, Codes, Code
<1>4. CASE StopClaim(t)
  BY <1>4 DEF StopClaim
<1>5. CASE StopDestroy(t)
  BY <1>5 DEF StopDestroy, PotDestroy
<1>6. CASE WatchTick(t)
  BY <1>6 DEF WatchTick
<1>7. CASE WatchSend(t)
  BY <1>7 DEF WatchSend
<1>8. CASE WatchReturn(t)
  BY <1>8 DEF WatchReturn
<1> QED
  BY <1>1, <1>2, <1>3, <1>4, <1>5, <1>6, <1>7, <1>8
     DEF RunStep, StopStep, WatchStep

\* A `pot` that cannot be executed is one more death.
LEMMA NoProcessTypeOK ==
  ASSUME TypeOK, NEW t \in Task, NoProcess(t)
  PROVE  TypeOK'
  BY DieTypeOK DEF NoProcess, Panic

LEMMA NextTypeOK == TypeOK /\ [Next]_vars => TypeOK'
<1> SUFFICES ASSUME TypeOK, [Next]_vars
             PROVE  TypeOK'
  OBVIOUS
<1>1. CASE Crash
  BY <1>1, DieTypeOK DEF Crash, TypeOK
<1>2. CASE Restart
  BY <1>2 DEF Restart, TypeOK, HostTypeOK
<1>3. CASE Shutdown
  BY <1>3 DEF Shutdown, TypeOK, HostTypeOK
<1>4. ASSUME NEW t \in Task, TaskStep(t)
      PROVE  TypeOK'
  BY <1>4, ClientTypeOK, RpcTypeOK, WaitTypeOK, OtherTypeOK,
     NoProcessTypeOK DEF TaskStep
<1>5. CASE UNCHANGED vars
  BY <1>5 DEF vars, TypeOK, HostTypeOK
<1> QED
  BY <1>1, <1>2, <1>3, <1>4, <1>5 DEF Next

\* Every variable keeps its type, whatever fails.
THEOREM TypeCorrect == Spec => []TypeOK
  BY InitTypeOK, NextTypeOK, PTL DEF Spec

-----------------------------------------------------------------------------
(* The inductive invariant.                                                *)

\* After a death the plugin knows no handle and has claimed no jail.
LEMMA DieInv ==
  ASSUME Die, NEW s \in Task
  PROVE  TaskInv(s)'
  BY DEF Die, All, TaskInv, HandleInv, ClaimInv, DutyInv, StartPc, RecoverPc

\* Steps of the host and calls of the client.
LEMMA ClientInv ==
  ASSUME IInv, NEW t \in Task, HostStep(t) \/ ClientCall(t),
         NEW s \in Task
  PROVE  TaskInv(s)'
<1> USE DEF IInv, TypeOK, HostTypeOK, TaskInv, HandleInv, ClaimInv,
            DutyInv, OnlyHost, OnlyRpc, OnlyWatch, Goto, StartPc, RecoverPc
<1>1. CASE JailExit(t) /\ OnlyHost
  BY <1>1 DEF JailExit
<1>2. CASE StartEnd(t) /\ OnlyHost
  BY <1>2 DEF StartEnd
<1>3. CASE StartTask(t) /\ ~Panic
  <2>1. /\ known[t] = "fresh" /\ rpc' = [rpc EXCEPT ![t] = "probe"]
        /\ OnlyRpc /\ UNCHANGED hostVars
    BY <1>3 DEF StartTask
  <2> QED
    BY <2>1
<1>4. CASE RecoverTask(t)
  BY <1>4 DEF RecoverTask
<1>5. ASSUME NEW force \in BOOLEAN, DestroyTask(t, force)
      PROVE  TaskInv(s)'
  BY <1>5 DEF DestroyTask
<1>6. CASE StopTask(t)
  BY <1>6 DEF StopTask
<1>7. CASE WaitTask(t)
  BY <1>7 DEF WaitTask
<1>8. CASE CancelWait(t)
  BY <1>8 DEF CancelWait
<1>9. CASE Panic
  BY <1>9, DieInv DEF Panic
<1> QED
  BY <1>1, <1>2, <1>3, <1>4, <1>5, <1>6, <1>7, <1>8, <1>9
     DEF HostStep, ClientCall

\* What the probe of RecoverTask can change.
LEMMA RecoverProbeEffect ==
  ASSUME NEW t \in Task, NEW s \in Task, RecoverProbe(t),
         rpc \in [Task -> RpcPc], store \in [Task -> BOOLEAN], ~store[t],
         known \in [Task -> {"fresh", "started", "refused", "gone"}]
  PROVE  /\ UNCHANGED <<procState, calledDestroy, destroys, wait, run, stop, jail>>
         /\ rpc'[s] \in {"reRegister", "idle", rpc[s]}
         /\ known'[s] \in {"gone", known[s]}
         /\ s # t => rpc'[s] = rpc[s] /\ known'[s] = known[s]
         /\ store'[s] = store[s]
<1>1. CASE /\ Goto(t, "recover", "reRegister")
           /\ UNCHANGED <<hostVars, handleVars, waitVars, stopVars, watchVars,
                          known, run>>
  BY <1>1 DEF Goto
<1>2. CASE /\ Goto(t, "recover", "idle")
           /\ Delete(t)
           /\ known' = [known EXCEPT ![t] = "gone"]
           /\ UNCHANGED <<hostVars, procState, exitCode, calledDestroy, child,
                          destroys, waitVars, stopVars, watchVars, run>>
  BY <1>2 DEF Goto
<1> QED
  BY <1>1, <1>2 DEF RecoverProbe

\* Steps of StartTask, RecoverTask and DestroyTask.
LEMMA RpcInv ==
  ASSUME IInv, NEW t \in Task, RpcStep(t),
         NEW s \in Task
  PROVE  TaskInv(s)'
<1> USE DEF IInv, TypeOK, HostTypeOK, TaskInv, HandleInv, ClaimInv,
            DutyInv, OnlyRpc, Goto, StartPc, RecoverPc
<1>1. CASE StartProbe(t)
  BY <1>1 DEF StartProbe
<1>2. CASE StartExists(t)
  BY <1>2 DEF StartExists
<1>3. CASE StartCreate(t)
  BY <1>3 DEF StartCreate, PotPrepare
<1>4. CASE StartConfigure(t)
  BY <1>4 DEF StartConfigure, PotConfigure
<1>5. CASE StartContainer(t)
  <2>1. CASE jail[t] = "running"
    BY <1>5, <2>1 DEF StartContainer, PotStart
  <2>2. CASE jail[t] # "running"
    <3>1. rpc[t] = "start" /\ procState[t] = "none"
      BY <1>5 DEF StartContainer
    <3>2. /\ UNCHANGED <<store, procState, calledDestroy, destroys, wait, run,
                         stop, known>>
          /\ rpc'[s] = "register" \/ rpc'[s] = "cleanup" \/ rpc'[s] = rpc[s]
          /\ s # t => rpc'[s] = rpc[s] /\ jail'[s] = jail[s]
      BY <1>5, <2>2 DEF StartContainer, PotStart
    <3> QED
      BY <3>1, <3>2
  <2> QED
    BY <2>1, <2>2
<1>6. CASE StartCleanup(t)
  BY <1>6 DEF StartCleanup, PotDestroy
<1>7. CASE StartRegister(t)
  BY <1>7 DEF StartRegister, NewHandle
<1>8. CASE RecoverProbe(t)
  <2>1. rpc \in [Task -> RpcPc] /\ store \in [Task -> BOOLEAN]
    BY DEF RpcPc
  <2>2. TaskInv(s)
    OBVIOUS
  <2>3. procState[t] = "none" /\ ~store[t]
    BY <1>8 DEF RecoverProbe
  <2>4. /\ UNCHANGED <<procState, calledDestroy, destroys, wait, run, stop, jail>>
        /\ rpc'[s] \in {"reRegister", "idle", rpc[s]}
        /\ known'[s] \in {"gone", known[s]}
        /\ s # t => rpc'[s] = rpc[s] /\ known'[s] = known[s]
        /\ store'[s] = store[s]
    BY <1>8, <2>1, <2>3, RecoverProbeEffect
  <2>5. HandleInv(s)'
    BY <2>2, <2>3, <2>4
  <2>6. ClaimInv(s)' /\ DutyInv(s)'
    BY <2>2, <2>4
  <2> QED
    BY <2>5, <2>6
<1>9. CASE RecoverRegister(t)
  BY <1>9 DEF RecoverRegister, NewHandle
<1>10. CASE RecoverCleanup(t)
  BY <1>10 DEF RecoverCleanup, PotDestroy
<1>11. CASE DestroyDelete(t)
  BY <1>11 DEF DestroyDelete
<1> QED
  BY <1>1, <1>2, <1>3, <1>4, <1>5, <1>6, <1>7, <1>8, <1>9, <1>10, <1>11
     DEF RpcStep

\* Steps of the waiting goroutines.
LEMMA WaitInv ==
  ASSUME IInv, NEW t \in Task, WaitStep(t),
         NEW s \in Task
  PROVE  TaskInv(s)'
<1> USE DEF IInv, TypeOK, HostTypeOK, TaskInv, HandleInv, ClaimInv,
            DutyInv, OnlyWait, WaitGoto
<1>1. CASE WaitGet(t)
  BY <1>1 DEF WaitGet
<1>2. CASE WaitReturns(t)
  BY <1>2 DEF WaitReturns
<1>3. CASE WaitMark(t)
  BY <1>3 DEF WaitMark
<1>4. CASE WaitFail(t) /\ ~Panic
  BY <1>4 DEF WaitFail
<1>5. CASE WaitQuery(t)
  BY <1>5 DEF WaitQuery, OnlyQuery, Noted
<1>6. CASE PollEnds(t)
  BY <1>6 DEF PollEnds
<1>7. CASE RecoverMark(t) /\ ~Panic
  BY <1>7 DEF RecoverMark
<1>8. CASE RecoverQuery(t)
  BY <1>8 DEF RecoverQuery, OnlyQuery, Noted
<1>9. CASE WaitClaim(t)
  BY <1>9 DEF WaitClaim
<1>10. CASE WaitDestroy(t)
  BY <1>10 DEF WaitDestroy, PotDestroy
<1>11. CASE Panic
  BY <1>11, DieInv DEF Panic
<1> QED
  BY <1>1, <1>2, <1>3, <1>4, <1>5, <1>6, <1>7, <1>8, <1>9, <1>10, <1>11
     DEF WaitStep, OrphanReturns

\* Steps of run(), StopTask and handleWait.
LEMMA OtherInv ==
  ASSUME IInv, NEW t \in Task, RunStep(t) \/ StopStep(t) \/ WatchStep(t),
         NEW s \in Task
  PROVE  TaskInv(s)'
<1> USE DEF IInv, TypeOK, HostTypeOK, TaskInv, HandleInv, ClaimInv,
            DutyInv, OnlyRun, OnlyWatch
<1>1. CASE RunAlloc(t)
  BY <1>1 DEF RunAlloc
<1>2. CASE RunMark(t)
  BY <1>2 DEF RunMark
<1>3. CASE RunCode(t)
  BY <1>3 DEF RunCode
<1>4. CASE StopClaim(t)
  BY <1>4 DEF StopClaim
<1>5. CASE StopDestroy(t)
  BY <1>5 DEF StopDestroy, PotDestroy
<1>6. CASE WatchTick(t)
  BY <1>6 DEF WatchTick
<1>7. CASE WatchSend(t)
  BY <1>7 DEF WatchSend
<1>8. CASE WatchReturn(t)
  BY <1>8 DEF WatchReturn
<1> QED
  BY <1>1, <1>2, <1>3, <1>4, <1>5, <1>6, <1>7, <1>8
     DEF RunStep, StopStep, WatchStep

LEMMA InitInv == Init => IInv
  BY InitTypeOK DEF Init, HostInit, All, IInv, TaskInv, HandleInv, ClaimInv,
                    DutyInv, StartPc, RecoverPc

LEMMA NextInv == IInv /\ [Next]_vars => IInv'
<1> SUFFICES ASSUME IInv, [Next]_vars
             PROVE  IInv'
  OBVIOUS
<1>1. TypeOK'
  BY NextTypeOK DEF IInv
<1>2. ASSUME NEW s \in Task
      PROVE  TaskInv(s)'
  <2>1. CASE Crash
    BY <2>1, DieInv DEF Crash
  <2>2. CASE Restart \/ Shutdown \/ UNCHANGED vars
    BY <2>2 DEF Restart, Shutdown, vars, IInv, TaskInv, HandleInv, ClaimInv,
                DutyInv
  <2>3. ASSUME NEW t \in Task, TaskStep(t)
        PROVE  TaskInv(s)'
    BY <2>3, ClientInv, RpcInv, WaitInv, OtherInv, DieInv
       DEF TaskStep, NoProcess, Panic
  <2> QED
    BY <2>1, <2>2, <2>3 DEF Next
<1> QED
  BY <1>1, <1>2 DEF IInv

THEOREM Inductive == Spec => []IInv
  BY InitInv, NextInv, PTL DEF Spec

-----------------------------------------------------------------------------
(* What follows from it.                                                   *)

\* However its waiter and StopTask calls interleave, and whatever fails, a
\* handle runs `pot destroy` at most once.
THEOREM DestroyedOnce == Spec => []SingleDestroy
<1>1. IInv => SingleDestroy
  BY DEF IInv, TaskInv, ClaimInv, SingleDestroy
<1> QED
  BY <1>1, Inductive, PTL

\* A jail behind a handle is never left to nobody, unless its `pot destroy`
\* has failed.
THEOREM AlwaysSupervised == Spec => []Supervised
<1>1. IInv => Supervised
  BY DEF IInv, TaskInv, HandleInv, DutyInv, Supervised
<1> QED
  BY <1>1, Inductive, PTL
=============================================================================

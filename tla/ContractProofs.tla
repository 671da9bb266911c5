--------------------------- MODULE ContractProofs ---------------------------
(***************************************************************************)
(* More proofs about PotDriver, on top of the inductive invariant of       *)
(* PotDriverProofs: what WaitTask reports has ended; a running jail is not *)
(* given up as long as `pot destroy` works; and, as long as run() is not   *)
(* overtaken by the end of `pot start`, the driver implements TaskContract.*)
(***************************************************************************)
EXTENDS PotDriverProofs

Before == {"get", "wait", "orphan"}  \* Cmd.Wait has not returned
After  == WaitPc \ (Before \cup {"off", "poll"})

\* A task is marked exited by a waiter that has seen its end, and handleWait
\* has found it so; a task that nobody has launched has told nothing.
MarkInv(t) ==
  /\ procState[t] = "exited" => wait[t] \in After
  /\ watch[t] \in {"send", "sendNil"} => wait[t] \in After
  /\ known[t] = "fresh" => result[t] = NoResult
  /\ rpc[t] \in StartPc => known[t] = "fresh"

\* That end was the end of `pot start`, if the driver was not mistaken.
EndInv(t) ==
  \/ mistaken
  \/ start[t] # "live"
  \/ wait[t] \notin After /\ result[t] = NoResult

EInv == IInv /\ \A t \in Task : MarkInv(t) /\ EndInv(t)

\* run() is done before the waiter marks the exit, and handleWait sends only
\* for a task that stays marked.
RunInv(t) ==
  /\ run[t] \notin {"off", "done"} => wait[t] \in Before
  /\ watch[t] \in {"send", "sendNil"} => procState[t] = "exited"

CInv == EInv /\ \A t \in Task : RunInv(t)

-----------------------------------------------------------------------------
(* Results mean ended tasks, whatever fails.                               *)

USE DEF hostVars, pluginVars, handleVars, waitVars, stopVars, watchVars,
        rpcVars, Get, Set, Delete, Probe, TakenForEnded

\* What the earlier invariant has to say here.
LEMMA NoHandle ==
  ASSUME EInv, NEW t \in Task
  PROVE  /\ procState[t] = "none" => wait[t] = "off" /\ run[t] = "off" /\ ~store[t]
         /\ rpc[t] \in StartPc \cup RecoverPc => procState[t] = "none"
  BY DEF EInv, IInv, TaskInv, HandleInv

\* A new plugin has no waiter and no handleWait.
LEMMA DieMark ==
  ASSUME EInv, Die, NEW s \in Task
  PROVE  MarkInv(s)' /\ EndInv(s)'
<1>1. /\ procState'[s] = "none" /\ watch'[s] = "off"
      /\ wait'[s] = "off" /\ rpc'[s] = "idle"
      /\ UNCHANGED <<known, result, start, mistaken>>
  BY DEF Die, All
<1> QED
  BY <1>1 DEF EInv, MarkInv, EndInv, After, StartPc

\* Steps of the host and calls of the client.
LEMMA ClientMark ==
  ASSUME EInv, NEW t \in Task, HostStep(t) \/ ClientCall(t), NEW s \in Task
  PROVE  MarkInv(s)' /\ EndInv(s)'
<1> USE DEF EInv, IInv, TypeOK, HostTypeOK, MarkInv, EndInv, OnlyHost, OnlyRpc,
            OnlyWatch, Goto
<1>1. CASE JailExit(t) /\ OnlyHost
  BY <1>1 DEF JailExit
<1>2. CASE StartEnd(t) /\ OnlyHost
  BY <1>2 DEF StartEnd, Ended
<1>3. CASE StartTask(t) /\ ~Die
  <2>1. /\ known[t] = "fresh" /\ rpc' = [rpc EXCEPT ![t] = "probe"]
        /\ OnlyRpc /\ UNCHANGED hostVars
    BY <1>3 DEF StartTask, Panic
  <2> QED
    BY <2>1
<1>4. CASE RecoverTask(t)
  BY <1>4 DEF RecoverTask, StartPc
<1>5. ASSUME NEW force \in BOOLEAN, DestroyTask(t, force)
      PROVE  MarkInv(s)' /\ EndInv(s)'
  BY <1>5 DEF DestroyTask, StartPc
<1>6. CASE StopTask(t)
  BY <1>6 DEF StopTask
<1>7. CASE WaitTask(t)
  BY <1>7 DEF WaitTask
<1>8. CASE CancelWait(t)
  BY <1>8 DEF CancelWait
<1>9. CASE Die
  BY <1>9, DieMark
<1> QED
  BY <1>1, <1>2, <1>3, <1>4, <1>5, <1>6, <1>7, <1>8, <1>9
     DEF HostStep, ClientCall

\* A new handle gets a waiter that has seen nothing yet.
LEMMA NewHandleMark ==
  ASSUME EInv, NEW t \in Task, NEW from \in StartPc \cup RecoverPc,
         Goto(t, from, "idle"), NEW code, NEW waiter \in Before \cup {"poll"},
         NEW runner, NewHandle(t, code, waiter, runner), NEW s \in Task
  PROVE  MarkInv(s)' /\ EndInv(s)'
<1>1. procState[t] = "none" /\ wait[t] = "off"
  BY NoHandle DEF Goto
<1>2. /\ procState'[t] = "running" /\ wait'[t] \notin After
      /\ known'[t] = "started" /\ rpc'[t] = "idle"
      /\ s # t => /\ procState'[s] = procState[s] /\ wait'[s] = wait[s]
                  /\ known'[s] = known[s] /\ rpc'[s] = rpc[s]
      /\ UNCHANGED <<watch, result, start, mistaken>>
  BY DEF NewHandle, Goto, EInv, IInv, TypeOK, After
<1> QED
  BY <1>1, <1>2 DEF EInv, MarkInv, EndInv, StartPc, After

\* The `pot start` of StartTask is for a task that has told nothing.
LEMMA StartContainerMark ==
  ASSUME EInv, NEW t \in Task, StartContainer(t), NEW s \in Task
  PROVE  MarkInv(s)' /\ EndInv(s)'
<1>1. wait[t] = "off" /\ known[t] = "fresh" /\ result[t] = NoResult
  BY NoHandle DEF StartContainer, Goto, StartPc, EInv, MarkInv
<1>2. /\ UNCHANGED <<procState, wait, watch, known, result, mistaken>>
      /\ s # t => start'[s] = start[s]
  BY DEF StartContainer, OnlyRpc, PotStart, EInv, IInv, TypeOK, HostTypeOK
<1>3. rpc'[s] \in StartPc => rpc[s] \in StartPc
  BY DEF StartContainer, Goto, StartPc, EInv, IInv, TypeOK
<1> QED
  BY <1>1, <1>2, <1>3 DEF EInv, MarkInv, EndInv, After

\* The probe of RecoverTask.
LEMMA RecoverProbeMark ==
  ASSUME EInv, NEW t \in Task, RecoverProbe(t), NEW s \in Task
  PROVE  MarkInv(s)' /\ EndInv(s)'
<1>1. /\ rpc \in [Task -> RpcPc] /\ store \in [Task -> BOOLEAN]
      /\ known \in [Task -> {"fresh", "started", "refused", "gone"}]
  BY DEF EInv, IInv, TypeOK
<1>2. ~store[t]
  BY NoHandle DEF RecoverProbe, Goto, RecoverPc
<1>3. /\ UNCHANGED <<procState, wait>>
      /\ rpc'[s] \in {"reRegister", "idle", rpc[s]}
      /\ known'[s] \in {"gone", known[s]}
      /\ s # t => known'[s] = known[s]
  BY <1>1, <1>2, RecoverProbeEffect
<1>4. /\ UNCHANGED <<watch, result, start>>
      /\ mistaken => mistaken'
  BY DEF RecoverProbe
<1>5. rpc'[s] \in StartPc => rpc[s] \in StartPc /\ s # t
  <2>1. rpc'[t] \notin StartPc
    BY <1>1 DEF RecoverProbe, Goto, StartPc
  <2> QED
    BY <1>3, <2>1 DEF StartPc
<1> QED
  BY <1>3, <1>4, <1>5 DEF EInv, MarkInv, EndInv

\* Steps of StartTask, RecoverTask and DestroyTask.
LEMMA RpcMark ==
  ASSUME EInv, NEW t \in Task, RpcStep(t), NEW s \in Task
  PROVE  MarkInv(s)' /\ EndInv(s)'
<1> USE DEF EInv, IInv, TypeOK, HostTypeOK, MarkInv, EndInv, OnlyRpc, Goto,
            StartPc
<1>1. CASE StartProbe(t)
  BY <1>1 DEF StartProbe
<1>2. CASE StartExists(t)
  BY <1>2 DEF StartExists
<1>3. CASE StartCreate(t)
  BY <1>3 DEF StartCreate, PotPrepare
<1>4. CASE StartConfigure(t)
  BY <1>4 DEF StartConfigure, PotConfigure
<1>5. CASE StartContainer(t)
  BY <1>5, StartContainerMark
<1>6. CASE StartCleanup(t)
  BY <1>6 DEF StartCleanup, PotDestroy
<1>7. CASE StartRegister(t)
  <2>1. CASE Goto(t, "register", "idle") /\ NewHandle(t, Nil, "get", "alloc")
    BY <2>1, NewHandleMark DEF Before
  <2>2. CASE Goto(t, "adopt", "idle") /\ NewHandle(t, Nil, "get", "off")
    BY <2>2, NewHandleMark DEF Before
  <2>3. CASE (Goto(t, "register", "cleanup") \/ Goto(t, "adopt", "cleanup"))
             /\ OnlyRpc /\ UNCHANGED hostVars
    BY <2>3
  <2> QED
    BY <1>7, <2>1, <2>2, <2>3 DEF StartRegister
<1>8. CASE RecoverProbe(t)
  BY <1>8, RecoverProbeMark
<1>9. CASE RecoverRegister(t)
  <2>1. CASE Goto(t, "reRegister", "idle") /\ NewHandle(t, 0, "poll", "off")
    BY <2>1, NewHandleMark DEF RecoverPc
  <2>2. CASE Goto(t, "reRegister", "reCleanup") /\ OnlyRpc /\ UNCHANGED hostVars
    BY <2>2
  <2> QED
    BY <1>9, <2>1, <2>2 DEF RecoverRegister
<1>10. CASE RecoverCleanup(t)
  BY <1>10 DEF RecoverCleanup, PotDestroy
<1>11. CASE DestroyDelete(t)
  BY <1>11 DEF DestroyDelete
<1> QED
  BY <1>1, <1>2, <1>3, <1>4, <1>5, <1>6, <1>7, <1>8, <1>9, <1>10, <1>11
     DEF RpcStep

\* Steps of the waiting goroutines.
LEMMA WaitMarks ==
  ASSUME EInv, NEW t \in Task, WaitStep(t), NEW s \in Task
  PROVE  MarkInv(s)' /\ EndInv(s)'
<1> USE DEF EInv, IInv, TypeOK, HostTypeOK, MarkInv, EndInv, OnlyWait, WaitGoto,
            After, Before, WaitPc
<1>1. CASE WaitGet(t)
  BY <1>1 DEF WaitGet
<1>2. CASE WaitReturns(t)
  BY <1>2 DEF WaitReturns, Alive
<1>3. CASE WaitMark(t)
  BY <1>3 DEF WaitMark
<1>4. CASE WaitFail(t) /\ ~Panic
  BY <1>4 DEF WaitFail
<1>5. CASE WaitQuery(t)
  BY <1>5 DEF WaitQuery, OnlyQuery, Noted
<1>6. CASE PollEnds(t)
  BY <1>6 DEF PollEnds, Alive
<1>7. CASE RecoverMark(t) /\ ~Panic
  BY <1>7 DEF RecoverMark
<1>8. CASE RecoverQuery(t)
  BY <1>8 DEF RecoverQuery, OnlyQuery, Noted
<1>9. CASE WaitClaim(t)
  BY <1>9 DEF WaitClaim
<1>10. CASE WaitDestroy(t)
  BY <1>10 DEF WaitDestroy, PotDestroy
<1>11. CASE Panic
  BY <1>11, DieMark DEF Panic
<1> QED
  BY <1>1, <1>2, <1>3, <1>4, <1>5, <1>6, <1>7, <1>8, <1>9, <1>10, <1>11
     DEF WaitStep, OrphanReturns

\* Steps of run(), StopTask and handleWait.
LEMMA OtherMark ==
  ASSUME EInv, NEW t \in Task, RunStep(t) \/ StopStep(t) \/ WatchStep(t),
         NEW s \in Task
  PROVE  MarkInv(s)' /\ EndInv(s)'
<1> USE DEF EInv, IInv, TypeOK, HostTypeOK, MarkInv, EndInv, OnlyRun, OnlyWatch
<1>1. CASE RunAlloc(t)
  BY <1>1 DEF RunAlloc
<1>2. CASE RunMark(t)
  BY <1>2 DEF RunMark
<1>3. CASE RunCode(t)
  BY <1>3 DEF RunCode
<1>4. CASE StopClaim(t)
  BY <1>4 DEF StopClaim
<1>5. CASE StopDestroy(t)
  BY <1>5 DEF StopDestroy, PotDestroy
<1>6. CASE WatchTick(t)
  BY <1>6 DEF WatchTick, TaskStatus
<1>7. CASE WatchSend(t)
  <2>1. wait[t] \in After /\ procState[t] # "none"
    BY <1>7, NoHandle DEF WatchSend, After
  <2>2. known[t] # "fresh"
    BY <2>1, NoHandle DEF TaskInv, HandleInv
  <2> QED
    BY <1>7, <2>1, <2>2 DEF WatchSend
<1>8. CASE WatchReturn(t)
  BY <1>8 DEF WatchReturn
<1> QED
  BY <1>1, <1>2, <1>3, <1>4, <1>5, <1>6, <1>7, <1>8
     DEF RunStep, StopStep, WatchStep

LEMMA InitMark == Init => EInv
  BY InitInv DEF Init, HostInit, All, EInv, MarkInv, EndInv, StartPc

LEMMA NextMark == EInv /\ [Next]_vars => EInv'
<1> SUFFICES ASSUME EInv, [Next]_vars
             PROVE  EInv'
  OBVIOUS
<1>1. IInv'
  BY NextInv DEF EInv
<1>2. ASSUME NEW s \in Task
      PROVE  MarkInv(s)' /\ EndInv(s)'
  <2>1. CASE Crash
    BY <2>1, DieMark DEF Crash
  <2>2. CASE Restart \/ Shutdown \/ UNCHANGED vars
    BY <2>2 DEF Restart, Shutdown, vars, EInv, MarkInv, EndInv
  <2>3. ASSUME NEW t \in Task, TaskStep(t)
        PROVE  MarkInv(s)' /\ EndInv(s)'
    BY <2>3, ClientMark, RpcMark, WaitMarks, OtherMark, DieMark
       DEF TaskStep, NoProcess, Panic
  <2> QED
    BY <2>1, <2>2, <2>3 DEF Next
<1> QED
  BY <1>1, <1>2 DEF EInv

\* A result of WaitTask means that `pot start` has ended, for any faults and
\* any order of run(), the waiter, handleWait, StopTask and restarts.
THEOREM ResultsMeanEnded == Spec => []ResultMeansEnded
<1>1. EInv => ResultMeansEnded
  BY DEF EInv, EndInv, ResultMeansEnded
<1> QED
  BY <1>1, InitMark, NextMark, PTL DEF Spec

-----------------------------------------------------------------------------
(* A running jail is not given up when `pot destroy` works.                *)

\* A running jail has a `pot start`.  Who deletes a handle is hasty, or has the
\* result of the task, which EndInv says has ended.
KeepInv(t) ==
  /\ jail[t] = "running" => start[t] = "live"
  /\ rpc[t] = "delete" => hasty \/ result[t] # NoResult
  /\ known[t] = "gone" => jail[t] # "running" \/ hasty \/ mistaken

KInv == EInv /\ \A t \in Task : KeepInv(t)

LEMMA ClientKeep ==
  ASSUME KInv, NEW t \in Task, HostStep(t) \/ ClientCall(t), ~Die,
         NEW s \in Task
  PROVE  KeepInv(s)'
<1> USE DEF KInv, EInv, IInv, TypeOK, HostTypeOK, KeepInv, OnlyHost, OnlyRpc,
            OnlyWatch, Goto
<1>1. CASE JailExit(t) /\ OnlyHost
  BY <1>1 DEF JailExit
<1>2. CASE StartEnd(t) /\ OnlyHost
  BY <1>2 DEF StartEnd
<1>3. CASE StartTask(t) /\ ~Die
  <2>1. /\ known[t] = "fresh" /\ rpc' = [rpc EXCEPT ![t] = "probe"]
        /\ OnlyRpc /\ UNCHANGED hostVars
    BY <1>3 DEF StartTask, Panic
  <2> QED
    BY <2>1
<1>4. CASE RecoverTask(t)
  BY <1>4 DEF RecoverTask
<1>5. ASSUME NEW force \in BOOLEAN, DestroyTask(t, force)
      PROVE  KeepInv(s)'
  BY <1>5 DEF DestroyTask
<1>6. CASE StopTask(t)
  BY <1>6 DEF StopTask
<1>7. CASE WaitTask(t)
  BY <1>7 DEF WaitTask
<1>8. CASE CancelWait(t)
  BY <1>8 DEF CancelWait
<1> QED
  BY <1>1, <1>2, <1>3, <1>4, <1>5, <1>6, <1>7, <1>8
     DEF HostStep, ClientCall

\* StartTask works on the jail of a task that its client has not given up.
LEMMA StartKeep ==
  ASSUME KInv, "destroy" \notin Faults, NEW t \in Task, NEW s \in Task,
         \/ StartProbe(t) \/ StartExists(t) \/ StartCreate(t)
         \/ StartConfigure(t) \/ StartContainer(t) \/ StartCleanup(t)
         \/ StartRegister(t)
  PROVE  KeepInv(s)'
<1>1. rpc[t] \in StartPc /\ known[t] = "fresh"
  <2>1. rpc[t] \in StartPc
    BY DEF StartProbe, StartExists, StartCreate, StartConfigure,
           StartContainer, StartCleanup, StartRegister, Goto, StartPc
  <2> QED
    BY <2>1 DEF KInv, EInv, MarkInv
<1>2. /\ rpc'[t] # "delete"
      /\ s # t => rpc'[s] = rpc[s]
  BY DEF StartProbe, StartExists, StartCreate, StartConfigure,
         StartContainer, StartCleanup, StartRegister, Goto,
         KInv, EInv, IInv, TypeOK
<1>3. /\ UNCHANGED <<hasty, result>>
      /\ mistaken => mistaken'
  <2>1. CASE StartProbe(t)
    BY <2>1 DEF StartProbe
  <2>2. CASE ~StartProbe(t)
    BY <2>2 DEF StartExists, StartCreate, StartConfigure, StartContainer,
                StartCleanup, StartRegister, OnlyRpc, NewHandle
  <2> QED
    BY <2>1, <2>2
<1>4. s # t => known'[s] = known[s] /\ jail'[s] = jail[s] /\ start'[s] = start[s]
  BY DEF StartProbe, StartExists, StartCreate, StartConfigure,
         StartContainer, StartCleanup, StartRegister, OnlyRpc, NewHandle,
         PotPrepare, PotConfigure, PotStart, PotDestroy,
         KInv, EInv, IInv, TypeOK, HostTypeOK
<1>5. jail'[t] = "running" => start'[t] = "live"
  <2>1. CASE UNCHANGED hostVars
    BY <2>1 DEF KInv, KeepInv
  <2>2. CASE PotStart(t)
    BY <2>2 DEF PotStart, KInv, KeepInv, EInv, IInv, TypeOK, HostTypeOK
  <2>3. ASSUME NEW ok \in BOOLEAN, PotPrepare(t, ok)
        PROVE  jail'[t] = "running" => start'[t] = "live"
    BY <2>3 DEF PotPrepare, KInv, KeepInv, EInv, IInv, TypeOK, HostTypeOK
  <2>4. CASE PotConfigure(t) \/ PotDestroy(t)
    BY <2>4 DEF PotConfigure, PotDestroy, KInv, KeepInv, EInv, IInv, TypeOK,
                HostTypeOK
  <2> QED
    BY <2>1, <2>2, <2>3, <2>4
       DEF StartProbe, StartExists, StartCreate, StartConfigure,
           StartContainer, StartCleanup, StartRegister, NewHandle
<1>6. known'[t] = "gone" => jail'[t] = "absent"
  BY <1>1
     DEF StartProbe, StartExists, StartCreate, StartConfigure,
         StartContainer, StartCleanup, StartRegister, OnlyRpc, NewHandle,
         PotDestroy, KInv, EInv, IInv, TypeOK, HostTypeOK
<1> QED
  BY <1>2, <1>3, <1>4, <1>5, <1>6 DEF KInv, KeepInv

\* RecoverTask gives up only what it has found dead, or has destroyed.
LEMMA RecoverKeep ==
  ASSUME KInv, "destroy" \notin Faults, NEW t \in Task, NEW s \in Task,
         RecoverProbe(t) \/ RecoverRegister(t) \/ RecoverCleanup(t)
  PROVE  KeepInv(s)'
<1>1. CASE RecoverProbe(t)
  <2>1. /\ rpc \in [Task -> RpcPc] /\ store \in [Task -> BOOLEAN]
        /\ known \in [Task -> {"fresh", "started", "refused", "gone"}]
    BY DEF KInv, EInv, IInv, TypeOK
  <2>2. ~store[t]
    BY <1>1, NoHandle DEF RecoverProbe, Goto, RecoverPc, KInv
  <2>3. /\ rpc'[s] \in {"reRegister", "idle", rpc[s]}
        /\ known'[s] \in {"gone", known[s]}
        /\ s # t => known'[s] = known[s]
    BY <1>1, <2>1, <2>2, RecoverProbeEffect
  <2>4. /\ UNCHANGED <<hasty, result, hostVars>>
        /\ mistaken => mistaken'
    BY <1>1 DEF RecoverProbe
  <2>5. known' # known => start[t] # "live" \/ mistaken'
    BY <1>1 DEF RecoverProbe, Alive
  <2> QED
    BY <2>3, <2>4, <2>5 DEF KInv, KeepInv
<1>2. CASE RecoverRegister(t) \/ RecoverCleanup(t)
  <2>1. /\ rpc'[t] # "delete"
        /\ s # t => rpc'[s] = rpc[s]
    BY <1>2 DEF RecoverRegister, RecoverCleanup, Goto, KInv, EInv, IInv, TypeOK
  <2>2. /\ UNCHANGED <<pluginVars, result, start>>
        /\ s # t => known'[s] = known[s] /\ jail'[s] = jail[s]
        /\ jail'[t] \in {"absent", jail[t]}
    BY <1>2 DEF RecoverRegister, RecoverCleanup, OnlyRpc, NewHandle, PotDestroy,
                KInv, EInv, IInv, TypeOK, HostTypeOK
  <2>3. known'[t] = "gone" => jail'[t] = "absent" \/ known[t] = "gone"
    BY <1>2 DEF RecoverRegister, RecoverCleanup, OnlyRpc, NewHandle, PotDestroy,
                KInv, EInv, IInv, TypeOK, HostTypeOK
  <2> QED
    BY <2>1, <2>2, <2>3 DEF KInv, KeepInv
<1> QED
  BY <1>1, <1>2

\* DestroyTask of a client that is not hasty finds the task ended.
LEMMA DeleteKeep ==
  ASSUME KInv, NEW t \in Task, NEW s \in Task, DestroyDelete(t)
  PROVE  KeepInv(s)'
<1>1. /\ UNCHANGED <<hasty, mistaken, jail, start, result>>
      /\ rpc[t] = "delete" /\ rpc'[t] = "idle"
      /\ s # t => rpc'[s] = rpc[s] /\ known'[s] = known[s]
  BY DEF DestroyDelete, Goto, KInv, EInv, IInv, TypeOK
<1>2. hasty \/ mistaken \/ jail[t] # "running"
  BY <1>1 DEF KInv, KeepInv, EInv, EndInv
<1> QED
  BY <1>1, <1>2 DEF KInv, KeepInv

\* The other goroutines touch a jail only to destroy it.
LEMMA OthersKeep ==
  ASSUME KInv, NEW t \in Task, NEW s \in Task,
         RunStep(t) \/ WaitStep(t) \/ StopStep(t) \/ WatchStep(t), ~Die
  PROVE  KeepInv(s)'
<1>1. /\ UNCHANGED <<hasty, start, rpc, known>>
      /\ mistaken => mistaken'
      /\ result[s] # NoResult => result'[s] # NoResult
      /\ jail'[s] \in {"absent", jail[s]}
  <2>1. CASE RunStep(t)
    BY <2>1 DEF RunStep, RunAlloc, RunMark, RunCode, OnlyRun
  <2>2. CASE WaitStep(t)
    BY <2>2 DEF WaitStep, WaitGet, WaitReturns, OrphanReturns, WaitMark,
         WaitFail, WaitQuery, PollEnds, RecoverMark, RecoverQuery, OnlyQuery, Noted, WaitClaim,
         WaitDestroy, Panic, OnlyWait, PotDestroy,
         KInv, EInv, IInv, TypeOK, HostTypeOK
  <2>3. CASE StopStep(t)
    BY <2>3 DEF StopStep, StopClaim, StopDestroy, PotDestroy,
                KInv, EInv, IInv, TypeOK, HostTypeOK
  <2>4. CASE WatchStep(t)
    <3>1. exitCode[t] # NoResult /\ Nil # NoResult
      BY HostAssumption, StatsAssumption DEF KInv, EInv, IInv, TypeOK, Codes, Code, Nil,
                            NoResult, defaultFailedCode
    <3> QED
      BY <2>4, <3>1 DEF WatchStep, WatchTick, WatchSend, WatchReturn, OnlyWatch,
                        KInv, EInv, IInv, TypeOK
  <2> QED
    BY <2>1, <2>2, <2>3, <2>4
<1> QED
  BY <1>1 DEF KInv, KeepInv

LEMMA NextKeep == "destroy" \notin Faults /\ KInv /\ [Next]_vars => KInv'
<1> SUFFICES ASSUME "destroy" \notin Faults, KInv, [Next]_vars
             PROVE  KInv'
  OBVIOUS
<1>1. EInv'
  BY NextMark DEF KInv
<1>2. ASSUME NEW s \in Task
      PROVE  KeepInv(s)'
  <2>1. CASE Die
    BY <2>1 DEF Die, All, KInv, KeepInv
  <2>2. CASE Restart \/ Shutdown \/ UNCHANGED vars
    BY <2>2 DEF Restart, Shutdown, vars, KInv, KeepInv
  <2>3. ASSUME NEW t \in Task, TaskStep(t), ~Die
        PROVE  KeepInv(s)'
    BY <2>3, ClientKeep, StartKeep, RecoverKeep, DeleteKeep, OthersKeep
       DEF TaskStep, RpcStep, NoProcess, Panic
  <2> QED
    BY <2>1, <2>2, <2>3 DEF Next, Crash
<1> QED
  BY <1>1, <1>2 DEF KInv

\* As long as `pot destroy` works, only a hasty client or a mistake of the
\* driver loses a running jail, whatever crashes, panics or fails otherwise.
THEOREM NeverGivenUp == "destroy" \notin Faults => (Spec => []NoRunningOrphan)
<1>1. Init => KInv
  BY InitMark DEF Init, HostInit, All, KInv, KeepInv
<1>2. KInv => NoRunningOrphan
  BY DEF KInv, KeepInv, NoRunningOrphan, EInv, IInv, TypeOK
<1>3. ASSUME "destroy" \notin Faults
      PROVE  Spec => []NoRunningOrphan
  <2>1. KInv /\ [Next]_vars => KInv'
    BY <1>3, NextKeep
  <2> QED
    BY <1>1, <1>2, <2>1, PTL DEF Spec
<1> QED
  BY <1>3

-----------------------------------------------------------------------------
(* A task step is about its own task.                                      *)

\* Nothing the invariants of the modules on top of this one say about a task
\* changes.
TaskUnchanged(s) ==
  /\ jail'[s] = jail[s] /\ start'[s] = start[s] /\ lastRun'[s] = lastRun[s]
  /\ store'[s] = store[s] /\ procState'[s] = procState[s]
  /\ exitCode'[s] = exitCode[s] /\ child'[s] = child[s]
  /\ rpc'[s] = rpc[s] /\ known'[s] = known[s]
  /\ run'[s] = run[s] /\ wait'[s] = wait[s] /\ err'[s] = err[s]
  /\ stop'[s] = stop[s] /\ asked'[s] = asked[s] /\ unread'[s] = unread[s]
  /\ watch'[s] = watch[s] /\ result'[s] = result[s]

\* A task step is about its own task, but for a mistake or haste it may add.
LEMMA TaskStepLocal ==
  ASSUME TypeOK, NEW t \in Task, TaskStep(t), ~Die, NEW s \in Task \ {t}
  PROVE  TaskUnchanged(s) /\ (mistaken => mistaken') /\ (hasty => hasty')
<1> USE DEF TypeOK, HostTypeOK, TaskUnchanged
<1>1. CASE HostStep(t)
  BY <1>1 DEF HostStep, JailExit, StartEnd, OnlyHost
<1>2. CASE ClientCall(t)
  BY <1>2 DEF ClientCall, StartTask, Panic, RecoverTask, DestroyTask, StopTask,
              WaitTask, CancelWait, OnlyRpc, OnlyWatch, Goto
<1>3. CASE RpcStep(t)
  <2> USE DEF OnlyRpc, Goto
  <2>1. CASE StartProbe(t) \/ StartExists(t) \/ StartCreate(t)
             \/ StartConfigure(t)
    BY <2>1 DEF StartProbe, StartExists, StartCreate, StartConfigure,
                PotPrepare, PotConfigure
  <2>2. CASE StartContainer(t)
    BY <2>2 DEF StartContainer, PotStart
  <2>3. CASE StartCleanup(t) \/ RecoverCleanup(t) \/ DestroyDelete(t)
    BY <2>3 DEF StartCleanup, RecoverCleanup, DestroyDelete, PotDestroy
  <2>4. CASE StartRegister(t) \/ RecoverRegister(t)
    BY <2>4 DEF StartRegister, RecoverRegister, NewHandle
  <2>5. CASE RecoverProbe(t)
    <3>1. /\ UNCHANGED <<hostVars, procState, exitCode, child, waitVars,
                         stopVars, watchVars, run, hasty,
                         unread>>
          /\ mistaken => mistaken'
      BY <2>5 DEF RecoverProbe
    <3>2. /\ \E pc \in RpcPc : rpc' = [rpc EXCEPT ![t] = pc]
          /\ known' = known \/ known' = [known EXCEPT ![t] = "gone"]
          /\ store' = store \/ store' = [store EXCEPT ![t] = FALSE]
      BY <2>5 DEF RecoverProbe, RpcPc, RecoverPc
    <3> QED
      BY <3>1, <3>2
  <2> QED
    BY <1>3, <2>1, <2>2, <2>3, <2>4, <2>5 DEF RpcStep
<1>4. CASE RunStep(t)
  BY <1>4 DEF RunStep, RunAlloc, RunMark, RunCode, OnlyRun
<1>5. CASE WaitStep(t)
  <2> USE DEF OnlyWait, WaitGoto
  <2>1. CASE WaitGet(t) \/ WaitReturns(t) \/ WaitMark(t)
    BY <2>1 DEF WaitGet, WaitReturns, WaitMark
  <2>2. CASE WaitFail(t)
    BY <2>2 DEF WaitFail, Panic
  <2>3. CASE PollEnds(t)
    <3>1. wait' = [wait EXCEPT ![t] = "reMark"] /\ (mistaken => mistaken')
      BY <2>3 DEF PollEnds
    <3> QED
      BY <2>3, <3>1 DEF PollEnds
  <2>4. CASE RecoverMark(t)
    BY <2>4 DEF RecoverMark, Panic
  <2>5. CASE WaitQuery(t) \/ RecoverQuery(t)
    BY <2>5 DEF WaitQuery, RecoverQuery, Noted, OnlyQuery
  <2>6. CASE WaitClaim(t) \/ WaitDestroy(t)
    BY <2>6 DEF WaitClaim, WaitDestroy, PotDestroy
  <2> QED
    BY <1>5, <2>1, <2>2, <2>3, <2>4, <2>5, <2>6 DEF WaitStep, OrphanReturns, Panic
<1>6. CASE StopStep(t)
  BY <1>6 DEF StopStep, StopClaim, StopDestroy, PotDestroy
<1>7. CASE WatchStep(t)
  BY <1>7 DEF WatchStep, WatchTick, WatchSend, WatchReturn, OnlyWatch
<1> QED
  BY <1>1, <1>2, <1>3, <1>4, <1>5, <1>6, <1>7 DEF TaskStep, NoProcess, Panic

-----------------------------------------------------------------------------
(* The driver implements TaskContract when run() is not overtaken.         *)

\* Steps that are no death of the plugin.
LEMMA ClientRun ==
  ASSUME CInv, NEW t \in Task,
         HostStep(t) \/ ClientCall(t) \/ StopStep(t), ~Die, NEW s \in Task
  PROVE  RunInv(s)'
<1>1. UNCHANGED <<procState, wait, run>>
  BY DEF HostStep, JailExit, StartEnd, OnlyHost, ClientCall, StartTask,
         RecoverTask, DestroyTask, StopTask, WaitTask, CancelWait, OnlyRpc,
         OnlyWatch, StopStep, StopClaim, StopDestroy, Panic
<1>2. watch'[s] \in {"send", "sendNil"} => watch[s] \in {"send", "sendNil"}
  BY DEF HostStep, OnlyHost, ClientCall, StartTask, RecoverTask, DestroyTask,
         StopTask, WaitTask, CancelWait, OnlyRpc, StopStep, StopClaim,
         StopDestroy, Panic, CInv, EInv, IInv, TypeOK
<1> QED
  BY <1>1, <1>2 DEF CInv, RunInv

LEMMA NewHandleRun ==
  ASSUME CInv, NEW t \in Task, NEW from \in StartPc \cup RecoverPc,
         Goto(t, from, "idle"), NEW code, NEW waiter, NEW runner,
         runner \notin {"off", "done"} => waiter \in Before,
         NewHandle(t, code, waiter, runner), NEW s \in Task
  PROVE  RunInv(s)'
<1>1. wait[t] = "off"
  BY NoHandle DEF Goto, CInv
<1>2. /\ procState'[s] = IF s = t THEN "running" ELSE procState[s]
      /\ wait'[s] = IF s = t THEN waiter ELSE wait[s]
      /\ run'[s] = IF s = t THEN runner ELSE run[s]
      /\ watch' = watch
  BY DEF NewHandle, CInv, EInv, IInv, TypeOK
<1>3. watch[t] \notin {"send", "sendNil"}
  BY <1>1 DEF CInv, EInv, MarkInv, After
<1> QED
  BY <1>2, <1>3 DEF CInv, RunInv

LEMMA RpcRun ==
  ASSUME CInv, NEW t \in Task, RpcStep(t), NEW s \in Task
  PROVE  RunInv(s)'
<1>1. CASE Goto(t, "register", "idle") /\ NewHandle(t, Nil, "get", "alloc")
  BY <1>1, NewHandleRun DEF Before, StartPc
<1>2. CASE Goto(t, "adopt", "idle") /\ NewHandle(t, Nil, "get", "off")
  BY <1>2, NewHandleRun DEF StartPc
<1>3. CASE Goto(t, "reRegister", "idle") /\ NewHandle(t, 0, "poll", "off")
  BY <1>3, NewHandleRun DEF RecoverPc
<1>4. CASE UNCHANGED <<procState, wait, run, watch>>
  BY <1>4 DEF CInv, RunInv
<1>5. CASE RpcStep(t) /\ ~StartRegister(t) /\ ~RecoverRegister(t)
  <2>1. UNCHANGED <<procState, wait, run, watch>>
    BY <1>5 DEF RpcStep, StartProbe, StartExists, StartCreate, StartConfigure,
                StartContainer, StartCleanup, RecoverProbe, RecoverCleanup,
                DestroyDelete, OnlyRpc
  <2> QED
    BY <2>1, <1>4
<1> QED
  BY <1>1, <1>2, <1>3, <1>4, <1>5 DEF StartRegister, RecoverRegister, OnlyRpc

\* Cmd.Wait is not done before run(): that is what "lateRun" is about.
LEMMA WaitRun ==
  ASSUME CInv, "lateRun" \notin Faults, NEW t \in Task, WaitStep(t), ~Die,
         NEW s \in Task
  PROVE  RunInv(s)'
<1>1. /\ UNCHANGED <<run, watch>>
      /\ s # t => wait'[s] = wait[s]
      /\ procState'[s] \in {"exited", procState[s]}
  BY DEF WaitStep, WaitGet, WaitReturns, OrphanReturns, WaitMark, WaitFail,
         WaitQuery, PollEnds, RecoverMark, RecoverQuery, OnlyQuery, Noted, WaitClaim,
         WaitDestroy, Panic, OnlyWait, WaitGoto, CInv, EInv, IInv, TypeOK
<1>2. \/ wait[t] = "get" /\ wait'[t] \in Before
      \/ wait[t] = "wait" /\ run[t] \in {"off", "done"}
      \/ wait[t] \notin Before
  BY DEF WaitStep, WaitGet, WaitReturns, OrphanReturns, WaitMark, WaitFail,
         WaitQuery, PollEnds, RecoverMark, RecoverQuery, OnlyQuery, Noted, WaitClaim,
         WaitDestroy, Panic, WaitGoto, Before, CInv, EInv, IInv, TypeOK
<1> QED
  BY <1>1, <1>2 DEF CInv, RunInv

LEMMA RunRun ==
  ASSUME CInv, NEW t \in Task, RunStep(t) \/ WatchStep(t), NEW s \in Task
  PROVE  RunInv(s)'
<1>1. CASE RunStep(t)
  <2>1. wait[t] \in Before
    BY <1>1 DEF RunStep, RunAlloc, RunMark, RunCode, CInv, RunInv
  <2>2. watch[t] \notin {"send", "sendNil"}
    BY <2>1 DEF CInv, EInv, MarkInv, After
  <2>3. /\ UNCHANGED <<wait, watch>>
        /\ s # t => run'[s] = run[s] /\ procState'[s] = procState[s]
    BY <1>1 DEF RunStep, RunAlloc, RunMark, RunCode, OnlyRun, CInv, EInv, IInv,
                TypeOK
  <2> QED
    BY <2>1, <2>2, <2>3 DEF CInv, RunInv
<1>2. CASE WatchStep(t)
  <2>1. UNCHANGED <<wait, run, procState>>
    BY <1>2 DEF WatchStep, WatchTick, WatchSend, WatchReturn, OnlyWatch
  <2>2. watch'[s] \in {"send", "sendNil"} =>
          watch[s] \in {"send", "sendNil"} \/ procState[s] = "exited"
    BY <1>2 DEF WatchStep, WatchTick, WatchSend, WatchReturn, TaskStatus,
                CInv, EInv, IInv, TypeOK
  <2> QED
    BY <2>1, <2>2 DEF CInv, RunInv
<1> QED
  BY <1>1, <1>2

LEMMA NextRun == "lateRun" \notin Faults /\ CInv /\ [Next]_vars => CInv'
<1> SUFFICES ASSUME "lateRun" \notin Faults, CInv, [Next]_vars
             PROVE  CInv'
  OBVIOUS
<1>1. EInv'
  BY NextMark DEF CInv
<1>2. ASSUME NEW s \in Task
      PROVE  RunInv(s)'
  <2>1. CASE Die
    BY <2>1 DEF Die, All, RunInv
  <2>2. CASE Restart \/ Shutdown \/ UNCHANGED vars
    BY <2>2 DEF Restart, Shutdown, vars, CInv, RunInv
  <2>3. ASSUME NEW t \in Task, TaskStep(t), ~Die
        PROVE  RunInv(s)'
    BY <2>3, ClientRun, RpcRun, WaitRun, RunRun DEF TaskStep, NoProcess, Panic
  <2> QED
    BY <2>1, <2>2, <2>3 DEF Next, Crash
<1> QED
  BY <1>1, <1>2 DEF CInv

\* A step of a task in terms of what TaskContract speaks of.
LEMMA ContractEffect ==
  ASSUME CInv, NEW t \in Task, TaskStep(t), ~Die
  PROVE  \/ UNCHANGED <<procState, result>>
         \/ /\ procState[t] = "none"
            /\ procState' = [procState EXCEPT ![t] = "running"]
            /\ result' = result
         \/ /\ procState[t] # "none"
            /\ procState' = [procState EXCEPT ![t] = "exited"]
            /\ result' = result
         \/ /\ procState[t] = "exited"
            /\ procState' = procState
            /\ \E c \in Codes \cup {Nil} : result' = [result EXCEPT ![t] = c]
<1>1. CASE HostStep(t) \/ ClientCall(t) \/ StopStep(t)
  BY <1>1 DEF HostStep, OnlyHost, ClientCall, StartTask, RecoverTask,
              DestroyTask, StopTask, WaitTask, CancelWait, OnlyRpc, OnlyWatch,
              StopStep, StopClaim, StopDestroy, Panic
<1>2. ASSUME NEW from \in StartPc \cup RecoverPc, Goto(t, from, "idle"),
             NEW code, NEW waiter, NEW runner,
             NewHandle(t, code, waiter, runner)
      PROVE  /\ procState[t] = "none"
             /\ procState' = [procState EXCEPT ![t] = "running"]
             /\ result' = result
  BY <1>2, NoHandle DEF NewHandle, Goto, CInv
<1>3. CASE RpcStep(t)
  <2>1. CASE StartRegister(t)
    BY <2>1, <1>2 DEF StartRegister, OnlyRpc, StartPc
  <2>2. CASE RecoverRegister(t)
    BY <2>2, <1>2 DEF RecoverRegister, OnlyRpc, RecoverPc
  <2>3. CASE ~StartRegister(t) /\ ~RecoverRegister(t)
    BY <1>3, <2>3 DEF RpcStep, StartProbe, StartExists, StartCreate,
                      StartConfigure, StartContainer, StartCleanup,
                      RecoverProbe, RecoverCleanup, DestroyDelete, OnlyRpc
  <2> QED
    BY <2>1, <2>2, <2>3
<1>4. CASE RunStep(t)
  <2>1. wait[t] \in Before /\ procState[t] = "running"
    <3>1. wait[t] \in Before /\ run[t] # "off"
      BY <1>4 DEF RunStep, RunAlloc, RunMark, RunCode, CInv, RunInv
    <3>2. procState[t] # "none" /\ procState[t] # "exited"
      BY <3>1, NoHandle DEF CInv, EInv, MarkInv, After
    <3> QED
      BY <3>1, <3>2 DEF CInv, EInv, IInv, TypeOK
  <2>2. procState' = procState \/ procState' = [procState EXCEPT ![t] = "running"]
    BY <1>4 DEF RunStep, RunAlloc, RunMark, RunCode
  <2>3. result' = result
    BY <1>4 DEF RunStep, RunAlloc, RunMark, RunCode, OnlyRun
  <2> QED
    BY <2>1, <2>2, <2>3 DEF CInv, EInv, IInv, TypeOK
<1>5. CASE WaitStep(t)
  <2>1. procState[t] # "none"
    BY <1>5, NoHandle DEF WaitStep, WaitGet, WaitReturns, OrphanReturns,
         WaitMark, WaitFail, WaitQuery, PollEnds, RecoverMark, RecoverQuery, OnlyQuery, Noted,
         WaitClaim, WaitDestroy, WaitGoto, CInv
  <2>2. /\ procState' = procState \/ procState' = [procState EXCEPT ![t] = "exited"]
        /\ result' = result
    BY <1>5 DEF WaitStep, WaitGet, WaitReturns, OrphanReturns, WaitMark,
         WaitFail, WaitQuery, PollEnds, RecoverMark, RecoverQuery, OnlyQuery, Noted, WaitClaim,
         WaitDestroy, Panic, OnlyWait
  <2> QED
    BY <2>1, <2>2
<1>6. CASE WatchStep(t)
  <2>1. CASE WatchSend(t)
    <3>1. procState[t] = "exited" /\ procState' = procState
      BY <2>1 DEF WatchSend, OnlyWatch, CInv, RunInv
    <3>2. exitCode[t] \in Codes \cup {Nil}
      BY DEF CInv, EInv, IInv, TypeOK
    <3>3. result' = [result EXCEPT ![t] =
                       IF watch[t] = "send" THEN exitCode[t] ELSE Nil]
      BY <2>1 DEF WatchSend
    <3> QED
      BY <3>1, <3>2, <3>3
  <2>2. CASE WatchTick(t) \/ WatchReturn(t)
    BY <2>2 DEF WatchTick, WatchReturn, OnlyWatch
  <2> QED
    BY <1>6, <2>1, <2>2 DEF WatchStep
<1> QED
  BY <1>1, <1>3, <1>4, <1>5, <1>6 DEF TaskStep, NoProcess, Panic

LEMMA InitContract == Init => Contract!Init
<1> SUFFICES ASSUME Init
             PROVE  Contract!Init
  OBVIOUS
<1>1. procState = [t \in Task |-> "none"]
  BY DEF Init, All
<1>2. ASSUME NEW t \in Task
      PROVE  (result[t] # NoResult) = FALSE
  BY DEF Init, All
<1>3. [t \in Task |-> result[t] # NoResult] = [t \in Task |-> FALSE]
  BY <1>2, Zenon
<1> QED
  BY <1>1, <1>3 DEF Contract!Init

LEMMA NextContract ==
  CInv /\ [Next]_vars => [Contract!Next]_(Contract!vars)
<1> SUFFICES ASSUME CInv, [Next]_vars
             PROVE  [Contract!Next]_(Contract!vars)
  OBVIOUS
<1> USE DEF Contract!Next, Contract!vars
<1>1. /\ procState \in [Task -> {"none", "running", "exited"}]
      /\ result \in [Task -> Codes \cup {Nil, NoResult}]
  BY DEF CInv, EInv, IInv, TypeOK
<1>2. CASE Die
  BY <1>2 DEF Die, All, Contract!Forget
<1>3. CASE Restart \/ Shutdown \/ UNCHANGED vars
  BY <1>3 DEF Restart, Shutdown, vars
<1>4. ASSUME NEW t \in Task, TaskStep(t), ~Die
      PROVE  [Contract!Next]_(Contract!vars)
  <2>1. CASE UNCHANGED <<procState, result>>
    BY <2>1
  <2>2. CASE /\ procState[t] = "none"
             /\ procState' = [procState EXCEPT ![t] = "running"]
             /\ result' = result
    BY <2>2 DEF Contract!TakeOver
  <2>3. CASE /\ procState[t] # "none"
             /\ procState' = [procState EXCEPT ![t] = "exited"]
             /\ result' = result
    <3>1. CASE procState[t] = "exited"
      BY <1>1, <2>3, <3>1
    <3>2. CASE procState[t] = "running"
      BY <2>3, <3>2 DEF Contract!Exit
    <3> QED
      BY <1>1, <2>3, <3>1, <3>2
  <2>4. CASE /\ procState[t] = "exited"
             /\ procState' = procState
             /\ \E c \in Codes \cup {Nil} : result' = [result EXCEPT ![t] = c]
    <3>1. PICK c \in Codes \cup {Nil} : result' = [result EXCEPT ![t] = c]
      BY <2>4
    <3>2. c # NoResult
      BY HostAssumption, StatsAssumption DEF Codes, Code, Nil, NoResult, defaultFailedCode
    <3>3. [s \in Task |-> result'[s] # NoResult]
            = [[s \in Task |-> result[s] # NoResult] EXCEPT ![t] = TRUE]
      BY <1>1, <3>1, <3>2
    <3> QED
      BY <2>4, <3>3 DEF Contract!Tell
  <2> QED
    BY <1>4, ContractEffect, <2>1, <2>2, <2>3, <2>4
<1> QED
  BY <1>2, <1>3, <1>4 DEF Next, Crash

\* As long as no `pot start` ends before run() is done, the driver implements
\* TaskContract, for any tasks and any of the other faults.
THEOREM Refines == "lateRun" \notin Faults => (Spec => KeepsTaskContract)
<1>1. Init => CInv
  BY InitMark DEF Init, All, CInv, RunInv
<1>2. ASSUME "lateRun" \notin Faults
      PROVE  Spec => KeepsTaskContract
  <2>1. CInv /\ [Next]_vars => CInv'
    BY <1>2, NextRun
  <2> QED
    BY <1>1, <2>1, InitContract, NextContract, PTL
       DEF Spec, KeepsTaskContract, Contract!Spec
<1> QED
  BY <1>2
=============================================================================

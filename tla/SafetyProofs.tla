---------------------------- MODULE SafetyProofs ----------------------------
(***************************************************************************)
(* More safety of PotDriver, for any tasks and exit codes: no jail without *)
(* somebody responsible, no live task forgotten without force or taken for *)
(* an ended one, and no nil pointer met by a waiter without a cause.       *)
(***************************************************************************)
EXTENDS ContractProofs

USE DEF hostVars, pluginVars, handleVars, waitVars, stopVars, watchVars,
        rpcVars, Get, Set, Delete, Probe, TakenForEnded

-----------------------------------------------------------------------------
(* DestroyTask and running tasks, whatever fails.                          *)

\* The test of procState in DestroyTask is good enough: a task marked exited
\* has ended, and a stored one without a mark is running.
THEOREM ForgetsOnlyEnded == Spec => DestroyRespectsRunning
<1>1. EInv => [\A t \in Task :
                 DestroyTask(t, FALSE) => start[t] # "live" \/ mistaken]_vars
  <2> SUFFICES ASSUME EInv, NEW t \in Task, DestroyTask(t, FALSE)
               PROVE  start[t] # "live" \/ mistaken
    OBVIOUS
  <2>1. procState[t] = "exited"
    <3>1. store[t] /\ procState[t] # "running"
      BY DEF DestroyTask, IsRunning, TaskStatus
    <3> QED
      BY <3>1, NoHandle DEF EInv, IInv, TypeOK
  <2> QED
    BY <2>1 DEF EInv, MarkInv, EndInv
<1> QED
  BY <1>1, InitMark, NextMark, PTL DEF Spec, DestroyRespectsRunning

-----------------------------------------------------------------------------
(* No jail without somebody responsible, when `pot destroy` works.         *)

\* A jail belongs to a StartTask under way or to a handle, which a plugin that
\* lives keeps.
LeakInv(t) ==
  \/ panicked
  \/ jail[t] # "absent" => rpc[t] \in StartPc \/ procState[t] # "none"

LInv == IInv /\ \A t \in Task : LeakInv(t)

\* Steps that are no RPC: none of them makes a jail.
LEMMA OthersLeak ==
  ASSUME LInv, NEW t \in Task, NEW s \in Task,
         \/ HostStep(t) \/ ClientCall(t) \/ RunStep(t)
         \/ WaitStep(t) \/ StopStep(t) \/ WatchStep(t)
  PROVE  LeakInv(s)'
<1> USE DEF LInv, IInv, TypeOK, HostTypeOK
<1>1. CASE HostStep(t)
  BY <1>1 DEF HostStep, JailExit, StartEnd, OnlyHost, LeakInv
<1>2. CASE ClientCall(t)
  BY <1>2 DEF ClientCall, StartTask, RecoverTask, DestroyTask, StopTask,
              WaitTask, CancelWait, OnlyRpc, OnlyWatch, Goto, StartPc, Panic,
              LeakInv
<1>3. CASE RunStep(t)
  BY <1>3 DEF RunStep, RunAlloc, RunMark, RunCode, OnlyRun, LeakInv
<1>4. CASE WaitStep(t)
  BY <1>4 DEF WaitStep, WaitGet, WaitReturns, OrphanReturns, WaitMark,
              WaitFail, WaitQuery, PollEnds, RecoverMark, RecoverQuery, OnlyQuery, Noted,
              WaitClaim, WaitDestroy, Panic, OnlyWait, PotDestroy, LeakInv
<1>5. CASE StopStep(t)
  BY <1>5 DEF StopStep, StopClaim, StopDestroy, PotDestroy, LeakInv
<1>6. CASE WatchStep(t)
  BY <1>6 DEF WatchStep, WatchTick, WatchSend, WatchReturn, OnlyWatch, LeakInv
<1> QED
  BY <1>1, <1>2, <1>3, <1>4, <1>5, <1>6

\* StartTask keeps the jail, hands it to a handle, or destroys it.
LEMMA RpcLeak ==
  ASSUME LInv, "destroy" \notin Faults, NEW t \in Task, NEW s \in Task,
         RpcStep(t)
  PROVE  LeakInv(s)'
<1> USE DEF LInv, IInv, TypeOK, HostTypeOK, OnlyRpc, Goto, StartPc, LeakInv
<1>1. CASE StartProbe(t)
  BY <1>1 DEF StartProbe
<1>2. CASE StartExists(t)
  BY <1>2 DEF StartExists
<1>3. CASE StartCreate(t)
  BY <1>3 DEF StartCreate, PotPrepare
<1>4. CASE StartConfigure(t)
  BY <1>4 DEF StartConfigure, PotConfigure
<1>5. CASE StartContainer(t)
  BY <1>5 DEF StartContainer, PotStart
<1>6. CASE StartCleanup(t)
  BY <1>6 DEF StartCleanup, PotDestroy
<1>7. CASE StartRegister(t)
  BY <1>7 DEF StartRegister, NewHandle
<1>8. CASE RecoverProbe(t)
  BY <1>8 DEF RecoverProbe
<1>9. CASE RecoverRegister(t)
  BY <1>9 DEF RecoverRegister, NewHandle
<1>10. CASE RecoverCleanup(t)
  BY <1>10 DEF RecoverCleanup, PotDestroy
<1>11. CASE DestroyDelete(t)
  BY <1>11 DEF DestroyDelete
<1> QED
  BY <1>1, <1>2, <1>3, <1>4, <1>5, <1>6, <1>7, <1>8, <1>9, <1>10, <1>11
     DEF RpcStep

LEMMA NextLeak ==
  {"crash", "destroy"} \cap Faults = {} /\ LInv /\ [Next]_vars => LInv'
<1> SUFFICES ASSUME {"crash", "destroy"} \cap Faults = {}, LInv, [Next]_vars
             PROVE  LInv'
  OBVIOUS
<1>1. IInv'
  BY NextInv DEF LInv
<1>2. ASSUME NEW s \in Task
      PROVE  LeakInv(s)'
  <2>1. CASE Restart \/ Shutdown \/ UNCHANGED vars
    BY <2>1 DEF Restart, Shutdown, vars, LInv, LeakInv
  <2>2. ASSUME NEW t \in Task, TaskStep(t)
        PROVE  LeakInv(s)'
    <3>1. CASE Panic
      BY <3>1 DEF Panic, LeakInv
    <3>2. CASE ~Panic
      BY <2>2, <3>2, OthersLeak, RpcLeak DEF TaskStep, NoProcess
    <3> QED
      BY <3>1, <3>2
  <2> QED
    BY <2>1, <2>2 DEF Next, Crash
<1> QED
  BY <1>1, <1>2 DEF LInv

\* As long as nobody kills the plugin and `pot destroy` works, no jail is left
\* without a call or a goroutine that will remove it, whatever else fails.
THEOREM NothingLeaks ==
  {"crash", "destroy"} \cap Faults = {} => (Spec => []NoLeak)
<1>1. Init => LInv
  BY InitInv DEF Init, HostInit, All, LInv, LeakInv
<1>2. ASSUME {"crash", "destroy"} \cap Faults = {}
      PROVE  Spec => []NoLeak
  <2>1. LInv /\ [Next]_vars => LInv'
    BY <1>2, NextLeak
  <2>2. LInv => NoLeak
    BY <1>2 DEF LInv, LeakInv, IInv, TaskInv, HandleInv, DutyInv, NoLeak
  <2> QED
    BY <1>1, <2>1, <2>2, PTL DEF Spec
<1> QED
  BY <1>2

-----------------------------------------------------------------------------
(* The first plugin process: nobody takes over what another has left.      *)

\* A task is launched by StartTask only, whose `pot start` is the child its
\* waiter waits for and whose run() has made the exitResult it ends with.
FirstInv(t) ==
  /\ rpc[t] \notin RecoverPc \cup {"adopt"}
  /\ wait[t] \notin {"poll", "reMark", "reQuery"}
  /\ known[t] = "fresh" /\ rpc[t] \notin {"register", "cleanup"} =>
       start[t] # "live"
  /\ known[t] = "started" => procState[t] # "none"
  /\ wait[t] # "off" => run[t] # "off"
  /\ wait[t] \in Before \/ rpc[t] = "register" => child[t]
  /\ run[t] \in {"mark", "code", "done"} => exitCode[t] # Nil
  /\ jail[t] = "running" => start[t] = "live"

FInv ==
  /\ EInv
  /\ panicked \/ (~mistaken /\ \A t \in Task : FirstInv(t))

\* What the steps of the first process have to keep, and may rely on.
FirstGoal == panicked' \/ (~mistaken' /\ \A s \in Task : FirstInv(s)')

\* Steps of the host and calls of the client.
LEMMA ClientFirst ==
  ASSUME FInv, NEW t \in Task, HostStep(t) \/ ClientCall(t), ~Panic
  PROVE  FirstGoal
<1> SUFFICES ASSUME ~panicked
             PROVE  /\ ~mistaken'
                    /\ \A s \in Task : FirstInv(s)'
  BY DEF HostStep, OnlyHost, ClientCall, StartTask, RecoverTask, DestroyTask,
         StopTask, WaitTask, CancelWait, OnlyRpc, OnlyWatch, FirstGoal, FInv
<1>1. ~mistaken'
  BY DEF HostStep, OnlyHost, ClientCall, StartTask, RecoverTask, DestroyTask,
         StopTask, WaitTask, CancelWait, OnlyRpc, OnlyWatch, FInv
<1>2. ASSUME NEW s \in Task
      PROVE  FirstInv(s)'
  <2> USE DEF FInv, EInv, IInv, TypeOK, HostTypeOK, FirstInv, Before, OnlyHost,
              OnlyRpc, OnlyWatch, Goto, RecoverPc
  <2>1. CASE JailExit(t) /\ OnlyHost
    BY <2>1 DEF JailExit
  <2>2. CASE StartEnd(t) /\ OnlyHost
    BY <2>2 DEF StartEnd, Ended
  <2>3. CASE StartTask(t)
    <3>1. /\ known[t] = "fresh" /\ rpc[t] = "idle"
          /\ rpc' = [rpc EXCEPT ![t] = "probe"]
          /\ OnlyRpc /\ UNCHANGED hostVars
      BY <2>3 DEF StartTask
    <3> QED
      BY <3>1
  <2>4. CASE RecoverTask(t)
    BY <2>4, NoHandle DEF RecoverTask, TaskInv, HandleInv
  <2>5. ASSUME NEW force \in BOOLEAN, DestroyTask(t, force)
        PROVE  FirstInv(s)'
    BY <2>5 DEF DestroyTask
  <2>6. CASE StopTask(t) \/ WaitTask(t) \/ CancelWait(t)
    BY <2>6 DEF StopTask, WaitTask, CancelWait
  <2> QED
    BY <2>1, <2>2, <2>3, <2>4, <2>5, <2>6 DEF HostStep, ClientCall
<1> QED
  BY <1>1, <1>2

\* Steps of StartTask and DestroyTask; those of RecoverTask do not come up.
LEMMA RpcFirst ==
  ASSUME FInv, NEW t \in Task, RpcStep(t)
  PROVE  FirstGoal
<1>1. UNCHANGED panicked
  BY DEF RpcStep, StartProbe, StartExists, StartCreate, StartConfigure,
         StartContainer, StartCleanup, StartRegister, RecoverProbe,
         RecoverRegister, RecoverCleanup, DestroyDelete, NewHandle, OnlyRpc
<1> SUFFICES ASSUME ~panicked
             PROVE  /\ ~mistaken'
                    /\ \A s \in Task : FirstInv(s)'
  BY <1>1 DEF FirstGoal, FInv
<1>2. /\ ~RecoverProbe(t) /\ ~RecoverRegister(t) /\ ~RecoverCleanup(t)
      /\ rpc[t] # "adopt"
  BY DEF RecoverProbe, RecoverRegister, RecoverCleanup, Goto, RecoverPc, FInv,
         FirstInv
<1>3. rpc[t] \in StartPc => known[t] = "fresh" /\ wait[t] = "off"
  BY NoHandle DEF FInv, EInv, MarkInv
<1>4. ~mistaken'
  <2>1. CASE StartProbe(t)
    <3>1. ~Alive(t)
      BY <1>3, <2>1 DEF StartProbe, Goto, StartPc, FInv, FirstInv, Alive
    <3> QED
      BY <2>1, <3>1 DEF StartProbe, FInv
  <2>2. CASE ~StartProbe(t)
    BY <1>2, <2>2 DEF RpcStep, StartExists, StartCreate, StartConfigure,
         StartContainer, StartCleanup, StartRegister, DestroyDelete,
         NewHandle, OnlyRpc, FInv
  <2> QED
    BY <2>1, <2>2
<1>5. ASSUME NEW s \in Task
      PROVE  FirstInv(s)'
  <2> USE <1>3 DEF FInv, EInv, IInv, TypeOK, HostTypeOK, FirstInv, Before,
                   OnlyRpc, Goto, RecoverPc, StartPc
  <2>1. CASE StartProbe(t)
    <3>1. ~Alive(t)
      BY <2>1 DEF StartProbe, Alive
    <3>2. rpc' = [rpc EXCEPT ![t] = "exists"]
      BY <2>1, <3>1 DEF StartProbe, AliveReply
    <3> QED
      BY <2>1, <3>2 DEF StartProbe
  <2>2. CASE StartExists(t)
    BY <2>2 DEF StartExists
  <2>3. CASE StartCreate(t)
    BY <2>3 DEF StartCreate, PotPrepare
  <2>4. CASE StartConfigure(t)
    BY <2>4 DEF StartConfigure, PotConfigure
  <2>5. CASE StartContainer(t)
    <3>1. jail[t] # "running" /\ rpc[t] = "start"
      BY <2>5 DEF StartContainer
    <3>2. /\ UNCHANGED <<wait, known, run, procState, exitCode>>
          /\ \/ /\ rpc' = [rpc EXCEPT ![t] = "register"]
                /\ child' = [child EXCEPT ![t] = TRUE]
                /\ jail' = [jail EXCEPT ![t] = "running"]
                /\ start' = [start EXCEPT ![t] = "live"]
             \/ /\ rpc' = [rpc EXCEPT ![t] = "cleanup"]
                /\ UNCHANGED <<child, jail, start>>
      BY <2>5, <3>1 DEF StartContainer, PotStart
    <3> QED
      BY <3>1, <3>2
  <2>6. CASE StartCleanup(t)
    BY <2>6 DEF StartCleanup, PotDestroy
  <2>7. CASE StartRegister(t)
    BY <1>2, <2>7 DEF StartRegister, NewHandle
  <2>8. CASE DestroyDelete(t)
    BY <2>8 DEF DestroyDelete
  <2> QED
    BY <1>2, <2>1, <2>2, <2>3, <2>4, <2>5, <2>6, <2>7, <2>8 DEF RpcStep
<1> QED
  BY <1>4, <1>5

\* A child of the plugin is waited for until it has ended.
LEMMA WaitFirst ==
  ASSUME FInv, NEW t \in Task, WaitStep(t), ~Panic
  PROVE  FirstGoal
<1>0. UNCHANGED panicked
  BY DEF WaitStep, WaitGet, WaitReturns, OrphanReturns, WaitMark, WaitFail,
         WaitQuery, PollEnds, RecoverMark, RecoverQuery, OnlyQuery, Noted,
         WaitClaim, WaitDestroy, OnlyWait
<1> SUFFICES ASSUME ~panicked
             PROVE  /\ ~mistaken'
                    /\ \A s \in Task : FirstInv(s)'
  BY <1>0 DEF FirstGoal, FInv
<1>1. ~PollEnds(t) /\ ~RecoverMark(t) /\ ~RecoverQuery(t) /\ ~OrphanReturns(t)
  BY DEF PollEnds, RecoverMark, RecoverQuery, OnlyQuery, Noted, OrphanReturns, WaitGoto, FInv,
         FirstInv
<1>2. ~mistaken'
  <2>1. CASE WaitReturns(t)
    <3>1. child[t]
      BY <2>1 DEF WaitReturns, WaitGoto, Before, FInv, FirstInv
    <3>2. start[t] \in Ended
      BY <2>1, <3>1 DEF WaitReturns
    <3> QED
      BY <2>1, <3>2 DEF WaitReturns, Alive, Ended, FInv
  <2>2. CASE ~WaitReturns(t)
    BY <1>1, <2>2 DEF WaitStep, WaitGet, WaitMark, WaitFail, WaitQuery, Noted,
         WaitClaim, WaitDestroy, OnlyWait, FInv
  <2> QED
    BY <2>1, <2>2
<1>3. ASSUME NEW s \in Task
      PROVE  FirstInv(s)'
  <2> USE HostAssumption
      DEF FInv, EInv, IInv, TypeOK, HostTypeOK, FirstInv, Before, OnlyWait,
          WaitGoto, Nil
  <2>1. CASE WaitGet(t)
    BY <2>1 DEF WaitGet
  <2>2. CASE WaitReturns(t)
    BY <2>2 DEF WaitReturns
  <2>3. CASE WaitMark(t)
    BY <2>3 DEF WaitMark
  <2>4. CASE WaitFail(t)
    BY <2>4 DEF WaitFail, defaultFailedCode
  <2>5. CASE WaitQuery(t)
    BY <2>5 DEF WaitQuery, OnlyQuery, Noted, LastRunReply, NoRun, Code
  <2>6. CASE WaitClaim(t)
    BY <2>6 DEF WaitClaim
  <2>7. CASE WaitDestroy(t)
    BY <2>7 DEF WaitDestroy, PotDestroy
  <2> QED
    BY <1>1, <2>1, <2>2, <2>3, <2>4, <2>5, <2>6, <2>7 DEF WaitStep
<1> QED
  BY <1>2, <1>3

\* Steps of run(), StopTask and handleWait.
LEMMA OtherFirst ==
  ASSUME FInv, NEW t \in Task, RunStep(t) \/ StopStep(t) \/ WatchStep(t)
  PROVE  FirstGoal
<1>1. UNCHANGED pluginVars
  BY DEF RunStep, RunAlloc, RunMark, RunCode, OnlyRun, StopStep, StopClaim,
         StopDestroy, WatchStep, WatchTick, WatchSend, WatchReturn, OnlyWatch
<1> SUFFICES ASSUME ~panicked, NEW s \in Task
             PROVE  FirstInv(s)'
  BY <1>1 DEF FirstGoal, FInv
<1> USE StatsAssumption
    DEF FInv, EInv, IInv, TypeOK, HostTypeOK, FirstInv, Before, Nil
<1>2. CASE RunStep(t)
  BY <1>2 DEF RunStep, RunAlloc, RunMark, RunCode, OnlyRun
<1>3. CASE StopStep(t)
  BY <1>3 DEF StopStep, StopClaim, StopDestroy, PotDestroy
<1>4. CASE WatchStep(t)
  BY <1>4 DEF WatchStep, WatchTick, WatchSend, WatchReturn, OnlyWatch
<1> QED
  BY <1>2, <1>3, <1>4

LEMMA NextFirst == "crash" \notin Faults /\ FInv /\ [Next]_vars => FInv'
<1> SUFFICES ASSUME "crash" \notin Faults, FInv, [Next]_vars
             PROVE  FInv'
  OBVIOUS
<1>1. EInv'
  BY NextMark DEF FInv
<1>2. FirstGoal
  <2>1. CASE Restart \/ Shutdown \/ UNCHANGED vars
    BY <2>1 DEF Restart, Shutdown, vars, FInv, FirstInv, FirstGoal
  <2>2. ASSUME NEW t \in Task, TaskStep(t)
        PROVE  FirstGoal
    <3>1. CASE Panic
      BY <3>1 DEF Panic, FirstGoal
    <3>2. CASE ~Panic
      BY <2>2, <3>2, ClientFirst, RpcFirst, WaitFirst, OtherFirst
         DEF TaskStep, NoProcess
    <3> QED
      BY <3>1, <3>2
  <2> QED
    BY <2>1, <2>2 DEF Next, Crash
<1> QED
  BY <1>1, <1>2 DEF FInv, FirstGoal

LEMMA InitFirst == Init => FInv
  BY InitMark DEF Init, HostInit, All, FInv, FirstInv, RecoverPc, Before

\* As long as nobody kills the plugin, no probe that misses and no Shutdown
\* makes it take a live task for an ended one, until it panics.
THEOREM NeverMistaken == "crash" \notin Faults => (Spec => []NoMistake)
<1>1. FInv => NoMistake
  BY DEF FInv, NoMistake
<1>2. ASSUME "crash" \notin Faults
      PROVE  Spec => []NoMistake
  <2>1. FInv /\ [Next]_vars => FInv'
    BY <1>2, NextFirst
  <2> QED
    BY <1>1, <2>1, InitFirst, PTL DEF Spec
<1> QED
  BY <1>2

-----------------------------------------------------------------------------
(* Nil pointers, whatever fails.                                           *)

\* A waiter that has to find its handle in the store, now or later.
Holding == {"get", "poll", "reMark", "orphan"}

\* An exitResult is missing only until run() makes it, or where nothing does;
\* StartTask alone makes children.
ResultInv(t) ==
  /\ known[t] = "fresh" /\ rpc[t] \notin {"register", "cleanup"} => ~child[t]
  /\ wait[t] # "off" /\ exitCode[t] = Nil => ~child[t] \/ run[t] = "alloc"

\* What keeps the handle of such a waiter: its client deletes it only after a
\* result, for which the waiter has to be further on.
HeldInv(t) ==
  /\ wait[t] \in {"poll", "reMark"} => procState[t] = "running"
  /\ wait[t] = "reMark" => watch[t] \notin {"send", "sendNil"}
  /\ \/ hasty \/ mistaken
     \/ /\ wait[t] # "orphan"
        /\ wait[t] \in Holding => store[t]
        /\ rpc[t] = "delete" => result[t] # NoResult
        /\ result[t] # NoResult => wait[t] \notin Holding
        /\ result[t] # NoResult => rpc[t] # "reRegister"

NilInv(t) == ResultInv(t) /\ HeldInv(t)

NInv == EInv /\ \A t \in Task : NilInv(t)

LEMMA ClientNil ==
  ASSUME NInv, NEW t \in Task, HostStep(t) \/ ClientCall(t), ~Die
  PROVE  NilInv(t)'
<1> USE DEF NInv, EInv, IInv, TypeOK, HostTypeOK, NilInv, ResultInv, HeldInv,
            Holding, OnlyRpc, OnlyWatch, Goto
<1>1. CASE HostStep(t)
  BY <1>1 DEF HostStep, OnlyHost
<1>2. CASE StartTask(t)
  <2>1. Goto(t, "idle", "probe") /\ OnlyRpc /\ UNCHANGED hostVars
    BY <1>2 DEF StartTask, Panic
  <2> QED
    BY <2>1
<1>3. CASE RecoverTask(t)
  BY <1>3 DEF RecoverTask
<1>4. ASSUME NEW force \in BOOLEAN, DestroyTask(t, force)
      PROVE  NilInv(t)'
  BY <1>4 DEF DestroyTask
<1>5. CASE StopTask(t) \/ WaitTask(t) \/ CancelWait(t)
  BY <1>5 DEF StopTask, WaitTask, CancelWait
<1> QED
  BY <1>1, <1>2, <1>3, <1>4, <1>5 DEF ClientCall

\* StartTask: the handle is the first of its task, which has told nothing.
LEMMA StartNil ==
  ASSUME NInv, NEW t \in Task,
         \/ StartProbe(t) \/ StartExists(t) \/ StartCreate(t)
         \/ StartConfigure(t) \/ StartContainer(t) \/ StartCleanup(t)
         \/ StartRegister(t)
  PROVE  NilInv(t)'
<1> USE DEF NInv, EInv, IInv, TypeOK, HostTypeOK, NilInv, ResultInv, HeldInv,
            Holding, OnlyRpc, Goto
<1>1. /\ known[t] = "fresh" /\ result[t] = NoResult
      /\ procState[t] = "none" /\ wait[t] = "off"
  <2>1. rpc[t] \in StartPc
    BY DEF StartProbe, StartExists, StartCreate, StartConfigure,
           StartContainer, StartCleanup, StartRegister, StartPc
  <2> QED
    BY <2>1, NoHandle DEF MarkInv
<1>2. CASE StartProbe(t)
  BY <1>1, <1>2 DEF StartProbe
<1>3. CASE StartExists(t) \/ StartCreate(t) \/ StartConfigure(t)
  BY <1>1, <1>3 DEF StartExists, StartCreate, StartConfigure
<1>4. CASE StartContainer(t)
  BY <1>1, <1>4 DEF StartContainer
<1>5. CASE StartCleanup(t)
  BY <1>1, <1>5 DEF StartCleanup
<1>6. CASE StartRegister(t)
  BY <1>1, <1>6 DEF StartRegister, NewHandle
<1> QED
  BY <1>2, <1>3, <1>4, <1>5, <1>6

\* RecoverTask and the end of DestroyTask.
LEMMA RecoverNil ==
  ASSUME NInv, NEW t \in Task,
         \/ RecoverProbe(t) \/ RecoverRegister(t) \/ RecoverCleanup(t)
         \/ DestroyDelete(t)
  PROVE  NilInv(t)'
<1> USE DEF NInv, EInv, IInv, TypeOK, HostTypeOK, NilInv, ResultInv, HeldInv,
            Holding, OnlyRpc, Goto
<1>1. CASE RecoverProbe(t)
  <2>1. /\ rpc[t] = "recover"
        /\ UNCHANGED <<procState, exitCode, child, wait, watch, result, run, hasty>>
        /\ mistaken => mistaken'
    BY <1>1 DEF RecoverProbe
  <2>2. wait[t] = "off"
    BY <2>1, NoHandle DEF RecoverPc
  <2>3. \/ rpc'[t] = "idle" /\ known'[t] = "gone"
        \/ /\ rpc'[t] = "reRegister" /\ known' = known /\ mistaken' = mistaken
           /\ start[t] = "live"
    <3>1. CASE /\ Probe(t, TRUE)
               /\ rpc' = [rpc EXCEPT ![t] = "reRegister"] /\ known' = known
      BY <3>1 DEF AliveReply, Alive
    <3>2. CASE /\ rpc' = [rpc EXCEPT ![t] = "idle"]
               /\ known' = [known EXCEPT ![t] = "gone"]
      BY <3>2
    <3> QED
      BY <1>1, <3>1, <3>2 DEF RecoverProbe
  <2> QED
    BY <2>1, <2>2, <2>3 DEF EndInv
<1>2. CASE RecoverRegister(t)
  <2>1. rpc[t] = "reRegister" /\ wait[t] = "off"
    BY <1>2, NoHandle DEF RecoverRegister, RecoverPc
  <2>2. \/ /\ rpc'[t] = "reCleanup"
           /\ UNCHANGED <<hasty, mistaken, store, known, procState, exitCode,
                          child, wait, watch, result, run>>
        \/ /\ rpc'[t] = "idle" /\ known'[t] = "started" /\ store'[t]
           /\ procState'[t] = "running" /\ exitCode'[t] = 0
           /\ wait'[t] = "poll"
           /\ UNCHANGED <<hasty, mistaken, watch, result>>
    <3>1. CASE rpc' = [rpc EXCEPT ![t] = "reCleanup"] /\ OnlyRpc
      BY <3>1
    <3>2. CASE /\ rpc' = [rpc EXCEPT ![t] = "idle"]
               /\ NewHandle(t, 0, "poll", "off")
      BY <3>2 DEF NewHandle
    <3> QED
      BY <1>2, <3>1, <3>2 DEF RecoverRegister
  <2> QED
    BY <2>1, <2>2 DEF Nil
<1>3. CASE RecoverCleanup(t)
  <2>1. rpc[t] = "reCleanup" /\ wait[t] = "off"
    BY <1>3, NoHandle DEF RecoverCleanup, RecoverPc
  <2> QED
    BY <1>3, <2>1 DEF RecoverCleanup
<1>4. CASE DestroyDelete(t)
  BY <1>4 DEF DestroyDelete
<1> QED
  BY <1>1, <1>2, <1>3, <1>4

LEMMA WaitNil ==
  ASSUME NInv, NEW t \in Task, WaitStep(t), ~Die
  PROVE  NilInv(t)'
<1> USE HostAssumption, StatsAssumption
    DEF NInv, EInv, IInv, TypeOK, HostTypeOK, NilInv, ResultInv, HeldInv,
        Holding, OnlyWait, WaitGoto
<1>1. CASE WaitGet(t)
  BY <1>1 DEF WaitGet
<1>2. CASE WaitReturns(t)
  BY <1>2 DEF WaitReturns
<1>3. CASE WaitMark(t)
  BY <1>3 DEF WaitMark
<1>4. CASE WaitFail(t)
  <2>1. /\ wait[t] = "fail" /\ wait'[t] \in {"query", "claim"}
        /\ exitCode'[t] = defaultFailedCode
        /\ OnlyWait /\ UNCHANGED procState
    BY <1>4 DEF WaitFail, Panic
  <2> QED
    BY <2>1 DEF defaultFailedCode, Nil
<1>5. CASE WaitQuery(t) \/ RecoverQuery(t)
  <2>1. /\ wait[t] \in {"query", "reQuery"} /\ wait'[t] = "claim"
        /\ exitCode[t] # Nil => exitCode'[t] # Nil
        /\ wait[t] = "reQuery" => exitCode'[t] # Nil
        /\ UNCHANGED <<hasty, mistaken, store, procState, child, watchVars,
                       rpcVars, run>>
    <3>1. \A c \in LastRunReply(t) : c = NoRun \/ c \in Code
      BY DEF LastRunReply
    <3>2. \A c \in Code : c # Nil
      BY DEF Code, Nil
    <3>3. CASE WaitQuery(t)
      BY <1>5, <3>1, <3>2, <3>3 DEF WaitQuery, OnlyQuery, Noted
    <3>4. CASE RecoverQuery(t)
      BY <1>5, <3>1, <3>2, <3>4
         DEF RecoverQuery, OnlyQuery, Noted, defaultFailedCode, Nil
    <3> QED
      BY <1>5, <3>3, <3>4
  <2> QED
    BY <2>1
<1>6. CASE PollEnds(t)
  <2>1. /\ wait[t] = "poll" /\ wait' = [wait EXCEPT ![t] = "reMark"]
        /\ mistaken => mistaken'
        /\ UNCHANGED <<hasty, handleVars, watchVars, rpcVars, run>>
    BY <1>6 DEF PollEnds
  <2>2. watch[t] \notin {"send", "sendNil"}
    BY <2>1 DEF MarkInv, After
  <2> QED
    BY <2>1, <2>2
<1>7. CASE RecoverMark(t)
  <2>1. /\ wait[t] = "reMark" /\ wait'[t] = "reQuery"
        /\ OnlyWait /\ UNCHANGED exitCode
    BY <1>7 DEF RecoverMark, Panic
  <2> QED
    BY <2>1
<1>8. CASE WaitClaim(t) \/ WaitDestroy(t)
  BY <1>8 DEF WaitClaim, WaitDestroy
<1> QED
  BY <1>1, <1>2, <1>3, <1>4, <1>5, <1>6, <1>7, <1>8
     DEF WaitStep, OrphanReturns, Panic

\* Steps of run(), StopTask and handleWait.
LEMMA OtherNil ==
  ASSUME NInv, NEW t \in Task, RunStep(t) \/ StopStep(t) \/ WatchStep(t)
  PROVE  NilInv(t)'
<1> USE StatsAssumption
    DEF NInv, EInv, IInv, TypeOK, HostTypeOK, NilInv, ResultInv, HeldInv,
        Holding, OnlyRun, OnlyWatch
<1>1. CASE RunAlloc(t)
  BY <1>1 DEF RunAlloc, Nil
<1>2. CASE RunMark(t)
  BY <1>2 DEF RunMark
<1>3. CASE RunCode(t)
  BY <1>3 DEF RunCode, Nil
<1>4. CASE StopStep(t)
  BY <1>4 DEF StopStep, StopClaim, StopDestroy
<1>5. CASE WatchTick(t)
  BY <1>5 DEF WatchTick, TaskStatus
<1>6. CASE WatchSend(t)
  <2>1. watch[t] \in {"send", "sendNil"} /\ wait[t] \in After
    BY <1>6 DEF WatchSend, MarkInv
  <2>2. wait[t] \notin Holding
    BY <2>1 DEF After, Before
  <2>3. rpc[t] # "reRegister"
    BY <2>1, NoHandle DEF After, RecoverPc
  <2>4. result'[t] # NoResult
    <3>1. result'[t] \in Codes \cup {Nil}
      BY <1>6 DEF WatchSend
    <3> QED
      BY <3>1, HostAssumption DEF Codes, Code, Nil, NoResult, defaultFailedCode
  <2>5. /\ watch'[t] = "tick"
        /\ UNCHANGED <<hasty, mistaken, store, procState, exitCode, child,
                       wait, rpc, known, run>>
    BY <1>6 DEF WatchSend
  <2> QED
    BY <2>2, <2>3, <2>4, <2>5
<1>7. CASE WatchReturn(t)
  BY <1>7 DEF WatchReturn
<1> QED
  BY <1>1, <1>2, <1>3, <1>4, <1>5, <1>6, <1>7 DEF RunStep, WatchStep

LEMMA NextNil == NInv /\ [Next]_vars => NInv'
<1> SUFFICES ASSUME NInv, [Next]_vars
             PROVE  NInv'
  OBVIOUS
<1>1. EInv'
  BY NextMark DEF NInv
<1>2. ASSUME NEW s \in Task
      PROVE  NilInv(s)'
  <2> USE DEF NInv, NilInv, ResultInv, HeldInv
  <2>1. CASE Die
    BY <2>1 DEF Die, All, Holding
  <2>2. CASE Restart \/ Shutdown \/ UNCHANGED vars
    BY <2>2 DEF Restart, Shutdown, vars
  <2>3. ASSUME NEW t \in Task, TaskStep(t), ~Die
        PROVE  NilInv(s)'
    <3>1. CASE s # t
      <4>1. TaskUnchanged(s) /\ (mistaken => mistaken') /\ (hasty => hasty')
        BY <2>3, <3>1, TaskStepLocal DEF EInv, IInv
      <4> QED
        BY <4>1 DEF TaskUnchanged
    <3>2. NilInv(t)'
      BY <2>3, ClientNil, StartNil, RecoverNil, WaitNil, OtherNil
         DEF TaskStep, RpcStep, NoProcess, Panic
    <3> QED
      BY <3>1, <3>2
  <2> QED
    BY <2>1, <2>2, <2>3 DEF Next, Crash
<1> QED
  BY <1>1, <1>2 DEF NInv

LEMMA InitNil == Init => NInv
  BY InitMark DEF Init, HostInit, All, NInv, NilInv, ResultInv, HeldInv, Holding

\* Whatever fails, also when run() is overtaken or the plugin has crashed
\* before: a waiter finds its ID without handle only after a hasty client or a
\* live task taken for an ended one, and its handle without exitResult only
\* for an adopted jail or before run().
THEOREM NilsHaveCauses == Spec => []NilHasCause
<1>1. NInv => NilHasCause
  BY DEF NInv, NilInv, ResultInv, HeldInv, Holding, NilHasCause, LostHandle,
         LostResult
<1> QED
  BY <1>1, InitNil, NextNil, PTL DEF Spec

=============================================================================

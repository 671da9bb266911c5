----------------------------- MODULE ExitProofs -----------------------------
(***************************************************************************)
(* The exit code a waiter leaves in the handle is the one of the program,  *)
(* for any tasks, any exit codes and every fault but "lateRun": the proof  *)
(* of PotDriver!TruthfulExit, across crashes, adoptions and recoveries.    *)
(***************************************************************************)
EXTENDS ContractProofs

USE DEF hostVars, pluginVars, handleVars, waitVars, stopVars, watchVars,
        rpcVars, Get, Set, Delete, Probe, TakenForEnded, Noted, OnlyQuery

-----------------------------------------------------------------------------
(* The inductive invariant, for one task.                                  *)

Taken == {"register", "adopt", "reRegister"}  \* an RPC about to make a handle

\* The task is still somebody's, nobody has asked to stop it, and the driver
\* has not mistaken a live task for an ended one.
Natural(t) ==
  /\ ~asked[t]
  /\ ~mistaken
  /\ known[t] # "gone" \/ procState[t] # "none"

\* StartTask goes on with a jail only when it believes that no `pot start`
\* runs it; who takes a task over has seen its `pot start`.
LaunchInv(t) ==
  /\ jail[t] = "running" => start[t] = "live"
  /\ rpc[t] \in {"exists", "create", "configure", "start"} =>
       start[t] # "live" \/ mistaken
  /\ rpc[t] \in RecoverPc => known[t] = "started"
  /\ stop[t] # "idle" => asked[t]
  /\ child[t] => known[t] # "fresh" \/ rpc[t] \in {"register", "cleanup"}

\* As long as the exit is not dealt with, the jail is there to be asked, and
\* the end of `pot start` tells how the latest run has ended.
JailInv(t) ==
  /\ start[t] = "live" => jail[t] \in {"running", "stopped"}
  /\ start[t] \in Ended => start[t] = StatusOf(lastRun[t])
  /\ \/ procState[t] # "none" /\ wait[t] \notin {"destroy", "done"}
     \/ rpc[t] \in Taken
     => jail[t] \in {"running", "stopped"} /\ start[t] # "none"

\* What potWait has learnt from Cmd.Wait: about a child the truth, about a task
\* it has adopted nothing.  Only the first kind has a run().
LearnInv(t) ==
  /\ rpc[t] = "register" => child[t]
  /\ wait[t] \in Before \cup {"mark", "fail"} /\ child[t] =>
       /\ run[t] # "off"
       /\ run[t] = "done" => exitCode[t] \in {0} \cup StatsCode
       /\ wait[t] \in {"mark", "fail"} => err[t] = start[t]
  /\ wait[t] \in Before \cup {"mark", "fail"} /\ ~child[t] =>
       /\ run[t] = "off"
       /\ exitCode[t] = Nil
       /\ wait[t] \in {"mark", "fail"} => err[t] = "err"
  /\ wait[t] = "fail" => err[t] # "ok"
  /\ wait[t] = "query" => start[t] = "app" /\ exitCode[t] = defaultFailedCode

\* The property itself.
CodeInv(t) ==
  wait[t] \in {"claim", "destroy", "done"} =>
    exitCode[t] \in {TrueCode(t)} \cup ExcusedCode(t)

NaturalInv(t) == JailInv(t) /\ LearnInv(t) /\ CodeInv(t)

ExitInv(t) == LaunchInv(t) /\ (Natural(t) => NaturalInv(t))

XInv == CInv /\ \A t \in Task : ExitInv(t)

-----------------------------------------------------------------------------
(* Helpers.                                                                *)

\* The status of `pot start` and the exit code tell the same story.
LEMMA StatusTells ==
  ASSUME NEW c \in Code \cup {NoRun}
  PROVE  /\ StatusOf(c) = "ok" <=> c = 0
         /\ StatusOf(c) = "err" <=> c = NoRun
         /\ StatusOf(c) = "app" => c # 0 /\ c # NoRun
         /\ StatusOf(c) \in Ended
  BY DEF StatusOf, NoRun, Ended

\* A waiter that has seen the end of a natural task has seen `pot start` end.
LEMMA SeenEnded ==
  ASSUME XInv, NEW t \in Task, Natural(t), wait[t] \in After
  PROVE  start[t] # "live" /\ jail[t] # "running" /\ run[t] \in {"off", "done"}
  BY DEF XInv, CInv, EInv, EndInv, RunInv, Natural, ExitInv, LaunchInv, After

LEMMA Untouched ==
  ASSUME XInv, NEW s \in Task, TaskUnchanged(s), mistaken => mistaken'
  PROVE  ExitInv(s)'
<1> USE DEF TaskUnchanged
<1>1. LaunchInv(s)'
  BY DEF XInv, ExitInv, LaunchInv
<1>2. ASSUME Natural(s)'
      PROVE  NaturalInv(s)'
  <2>1. Natural(s)
    BY <1>2 DEF Natural
  <2> QED
    BY <2>1 DEF XInv, ExitInv, NaturalInv, JailInv, LearnInv, CodeInv, TrueCode,
                ExcusedCode
<1> QED
  BY <1>1, <1>2 DEF ExitInv

-----------------------------------------------------------------------------
(* The steps, each for its own task.                                       *)

\* A new plugin has no goroutines; the host has not noticed.
LEMMA DieExit ==
  ASSUME XInv, Die, NEW s \in Task
  PROVE  ExitInv(s)'
<1>1. /\ procState'[s] = "none" /\ wait'[s] = "off" /\ rpc'[s] = "idle"
      /\ ~child'[s] /\ stop'[s] = "idle"
      /\ UNCHANGED <<jail, start, lastRun, known, asked, mistaken, unread>>
  BY DEF Die, All
<1>2. LaunchInv(s)'
  BY <1>1 DEF XInv, ExitInv, LaunchInv, RecoverPc
<1>3. ASSUME Natural(s)'
      PROVE  NaturalInv(s)'
  <2>1. Natural(s)
    BY <1>1, <1>3 DEF Natural
  <2> QED
    BY <1>1, <2>1 DEF XInv, ExitInv, NaturalInv, JailInv, LearnInv, CodeInv,
                      Before, Taken
<1> QED
  BY <1>2, <1>3 DEF ExitInv

\* The jail ends with an exit code, `pot start` with the status that goes
\* with it.
LEMMA HostExit ==
  ASSUME XInv, NEW t \in Task, HostStep(t)
  PROVE  ExitInv(t)'
<1> USE DEF XInv, CInv, EInv, IInv, TypeOK, HostTypeOK
<1>1. UNCHANGED <<pluginVars, handleVars, waitVars, stopVars, rpcVars, run>>
  BY DEF HostStep, OnlyHost
<1>2. Natural(t)' => Natural(t)
  BY <1>1 DEF Natural
<1>3. CASE JailExit(t)
  <2>1. /\ start' = start /\ start[t] = "live"
        /\ jail[t] = "running" /\ jail'[t] = "stopped"
    BY <1>3 DEF JailExit, ExitInv, LaunchInv
  <2>2. LaunchInv(t)'
    BY <1>1, <2>1 DEF ExitInv, LaunchInv
  <2>3. ASSUME Natural(t)
        PROVE  NaturalInv(t)'
    <3>1. wait[t] \notin After
      BY <2>1, <2>3, SeenEnded
    <3> QED
      BY <1>1, <2>1, <2>3, <3>1
         DEF ExitInv, NaturalInv, JailInv, LearnInv, CodeInv, After, Before,
             WaitPc, Ended
  <2> QED
    BY <1>2, <2>2, <2>3 DEF ExitInv
<1>4. CASE StartEnd(t)
  <2>1. /\ UNCHANGED <<jail, lastRun>> /\ start[t] = "live" /\ jail[t] # "running"
        /\ start'[t] \in Ended
        /\ jail[t] = "stopped" => start'[t] = StatusOf(lastRun[t])
    BY <1>4 DEF StartEnd
  <2>2. LaunchInv(t)'
    BY <1>1, <2>1 DEF ExitInv, LaunchInv, Ended
  <2>3. ASSUME Natural(t)
        PROVE  NaturalInv(t)'
    <3>1. wait[t] \notin After
      BY <2>1, <2>3, SeenEnded
    <3>2. jail[t] = "stopped"
      BY <2>1, <2>3 DEF ExitInv, NaturalInv, JailInv
    <3> QED
      BY <1>1, <2>1, <2>3, <3>1, <3>2
         DEF ExitInv, NaturalInv, JailInv, LearnInv, CodeInv, After, Before,
             WaitPc, Ended
  <2> QED
    BY <1>2, <2>2, <2>3 DEF ExitInv
<1> QED
  BY <1>3, <1>4 DEF HostStep

\* Calls of the client: only StopTask makes a difference.
LEMMA ClientExit ==
  ASSUME XInv, NEW t \in Task, ClientCall(t), ~Die
  PROVE  ExitInv(t)'
<1> USE DEF XInv, CInv, EInv, IInv, TypeOK, HostTypeOK
<1>1. /\ UNCHANGED <<hostVars, handleVars, waitVars, run, mistaken, unread>>
      /\ \/ UNCHANGED <<rpc, stop, asked, known>>
         \/ UNCHANGED <<stop, asked, known>> /\ rpc'[t] \in {"probe", "delete"}
         \/ UNCHANGED <<stop, asked, known>> /\ rpc'[t] = "recover" /\ known[t] = "started"
         \/ /\ UNCHANGED <<rpc, stop, asked>> /\ rpc[t] = "idle"
            /\ known[t] = "started" /\ known'[t] = "refused"
         \/ UNCHANGED <<rpc, known>> /\ asked'[t]
  <2>1. ASSUME NEW force \in BOOLEAN, DestroyTask(t, force)
        PROVE  /\ UNCHANGED <<hostVars, handleVars, waitVars, run, mistaken, unread>>
               /\ UNCHANGED <<stop, asked, known>> /\ rpc'[t] = "delete"
    BY <2>1 DEF DestroyTask, Goto
  <2>2. CASE StartTask(t)
    <3>1. Goto(t, "idle", "probe") /\ OnlyRpc /\ UNCHANGED hostVars
      BY <2>2 DEF StartTask, Panic
    <3> QED
      BY <3>1 DEF OnlyRpc, Goto
  <2>5. CASE RecoverTask(t)
    BY <2>5 DEF RecoverTask, Goto
  <2>3. CASE StopTask(t)
    BY <2>3 DEF StopTask
  <2>4. CASE WaitTask(t) \/ CancelWait(t)
    BY <2>4 DEF WaitTask, CancelWait, OnlyWatch
  <2> QED
    BY <2>1, <2>2, <2>3, <2>4, <2>5 DEF ClientCall
<1>2. rpc'[t] # rpc[t] => rpc[t] = "idle"
  BY DEF ClientCall, StartTask, Panic, RecoverTask, DestroyTask, StopTask,
         WaitTask, CancelWait, OnlyWatch, Goto
<1>3. LaunchInv(t)'
  BY <1>1, <1>2 DEF ExitInv, LaunchInv, RecoverPc
<1>4. ASSUME Natural(t)'
      PROVE  NaturalInv(t)'
  BY <1>1, <1>4 DEF Natural, ExitInv, NaturalInv, JailInv, LearnInv, CodeInv,
                    TrueCode, ExcusedCode, Taken
<1> QED
  BY <1>3, <1>4 DEF ExitInv

\* StartTask up to the configuration of the jail, for a task without handle.
LEMMA PrepareExit ==
  ASSUME XInv, NEW t \in Task,
         \/ StartProbe(t) \/ StartExists(t) \/ StartCreate(t)
         \/ StartConfigure(t)
  PROVE  ExitInv(t)'
<1> USE DEF XInv, CInv, EInv, IInv, TypeOK, HostTypeOK
<1>1. rpc[t] \in StartPc \ {"register", "cleanup"} /\ rpc[t] # "adopt"
  BY DEF StartProbe, StartExists, StartCreate, StartConfigure, Goto, StartPc
<1>2. known[t] = "fresh" /\ procState[t] = "none" /\ wait[t] = "off" /\ ~child[t]
  BY <1>1, NoHandle DEF MarkInv, ExitInv, LaunchInv
<1>3. UNCHANGED <<handleVars, waitVars, stopVars, known, run, start, lastRun>>
  BY DEF StartProbe, StartExists, StartCreate, StartConfigure, OnlyRpc,
         PotPrepare, PotConfigure
<1>4. \/ /\ rpc'[t] = "adopt" /\ start[t] = "live"
         /\ UNCHANGED <<jail, mistaken>>
      \/ /\ rpc'[t] = "exists" /\ (mistaken' <=> mistaken \/ start[t] = "live")
         /\ jail' = jail
      \/ /\ rpc'[t] \in {"create", "configure", "start", "cleanup"}
         /\ rpc[t] # "probe"
         /\ jail'[t] \in {"bare", "ready", jail[t]}
         /\ mistaken' = mistaken
  <2>1. CASE StartProbe(t)
    BY <2>1 DEF StartProbe, Goto, AliveReply, Alive
  <2>2. CASE ~StartProbe(t)
    BY <2>2 DEF StartExists, StartCreate, StartConfigure, OnlyRpc, Goto,
                PotPrepare, PotConfigure
  <2> QED
    BY <2>1, <2>2
<1>5. rpc[t] # "probe" => start[t] # "live" \/ mistaken
  BY <1>1 DEF StartPc, ExitInv, LaunchInv
<1>6. LaunchInv(t)'
  BY <1>1, <1>2, <1>3, <1>4, <1>5 DEF ExitInv, LaunchInv, RecoverPc
<1>7. ASSUME Natural(t)'
      PROVE  NaturalInv(t)'
  <2>1. NaturalInv(t)
    BY <1>3, <1>4, <1>7 DEF Natural, ExitInv
  <2> QED
    BY <2>1, <1>2, <1>3, <1>4, <1>5, <1>7
       DEF Natural, NaturalInv, JailInv, LearnInv, CodeInv, Taken, Before,
           TrueCode, ExcusedCode
<1> QED
  BY <1>6, <1>7 DEF ExitInv

\* The `pot start` of a natural task becomes its live one, and a child.
LEMMA LaunchExit ==
  ASSUME XInv, NEW t \in Task, StartContainer(t)
  PROVE  ExitInv(t)'
<1> USE DEF XInv, CInv, EInv, IInv, TypeOK, HostTypeOK
<1>1. rpc[t] = "start" /\ (start[t] # "live" \/ mistaken)
  BY DEF StartContainer, Goto, ExitInv, LaunchInv
<1>2. known[t] = "fresh" /\ procState[t] = "none" /\ wait[t] = "off"
  BY <1>1, NoHandle DEF MarkInv, StartPc
<1>3. UNCHANGED <<pluginVars, procState, exitCode, waitVars, stopVars, known, run>>
  BY DEF StartContainer, OnlyRpc
<1>4. \/ rpc'[t] = "cleanup" /\ UNCHANGED <<hostVars, child>>
      \/ /\ rpc'[t] = "register" /\ ~child'[t] /\ jail[t] = "running"
         /\ UNCHANGED hostVars
      \/ /\ rpc'[t] = "register" /\ child'[t] /\ jail'[t] = "running"
         /\ start'[t] = "live"
  <2>1. CASE jail[t] = "running"
    BY <2>1 DEF StartContainer, OnlyRpc, Goto, PotStart
  <2>2. CASE jail[t] # "running"
    <3>1. \/ rpc'[t] = "cleanup" /\ UNCHANGED <<hostVars, child>>
          \/ /\ rpc'[t] = "register"
             /\ child' = [child EXCEPT ![t] = TRUE]
             /\ jail' = [jail EXCEPT ![t] = "running"]
             /\ start' = [start EXCEPT ![t] = "live"]
      BY <2>2 DEF StartContainer, OnlyRpc, Goto, PotStart
    <3> QED
      BY <3>1
  <2> QED
    BY <2>1, <2>2
<1>5. LaunchInv(t)'
  BY <1>1, <1>2, <1>3, <1>4 DEF ExitInv, LaunchInv, RecoverPc
<1>6. ASSUME Natural(t)'
      PROVE  NaturalInv(t)'
  <2>1. NaturalInv(t) /\ jail[t] # "running"
    BY <1>1, <1>3, <1>6 DEF Natural, ExitInv, LaunchInv
  <2> QED
    BY <2>1, <1>2, <1>3, <1>4
       DEF NaturalInv, JailInv, LearnInv, CodeInv, Taken, Before, Ended,
           TrueCode, ExcusedCode
<1> QED
  BY <1>5, <1>6 DEF ExitInv

\* The waiter of a new handle has learnt nothing.
LEMMA RegisterExit ==
  ASSUME XInv, NEW t \in Task, StartRegister(t) \/ RecoverRegister(t)
  PROVE  ExitInv(t)'
<1> USE DEF XInv, CInv, EInv, IInv, TypeOK, HostTypeOK
<1>1. /\ rpc[t] \in Taken
      /\ UNCHANGED <<hostVars, pluginVars, child, stopVars>>
  BY DEF StartRegister, RecoverRegister, NewHandle, OnlyRpc, Goto, Taken
<1>2. /\ procState[t] = "none" /\ wait[t] = "off" /\ run[t] = "off"
      /\ known[t] # "gone"
      /\ rpc[t] = "adopt" => known[t] = "fresh"
  BY <1>1, NoHandle
     DEF Taken, StartPc, RecoverPc, MarkInv, ExitInv, LaunchInv
<1>3. \/ /\ rpc'[t] \in {"cleanup", "reCleanup"}
         /\ rpc[t] = "reRegister" <=> rpc'[t] = "reCleanup"
         /\ UNCHANGED <<procState, exitCode, wait, run, known, err>>
      \/ /\ rpc'[t] = "idle" /\ procState'[t] = "running" /\ known'[t] = "started"
         /\ \/ /\ rpc[t] = "register" /\ wait'[t] = "get" /\ run'[t] = "alloc"
            \/ /\ rpc[t] = "adopt" /\ wait'[t] = "get" /\ run'[t] = "off"
               /\ exitCode'[t] = Nil
            \/ rpc[t] = "reRegister" /\ wait'[t] = "poll"
  BY DEF StartRegister, RecoverRegister, NewHandle, OnlyRpc, Goto
<1>4. LaunchInv(t)'
  BY <1>1, <1>2, <1>3 DEF ExitInv, LaunchInv, Taken, RecoverPc
<1>5. ASSUME Natural(t)'
      PROVE  NaturalInv(t)'
  <2>1. NaturalInv(t)
    BY <1>1, <1>2, <1>5 DEF Natural, ExitInv
  <2>2. JailInv(t)'
    BY <2>1, <1>1, <1>2, <1>3 DEF NaturalInv, JailInv, Taken
  <2>3. rpc[t] = "adopt" => ~child[t]
    BY <1>2 DEF ExitInv, LaunchInv
  <2>4. LearnInv(t)' /\ CodeInv(t)'
    BY <2>1, <2>3, <1>1, <1>2, <1>3
       DEF NaturalInv, LearnInv, CodeInv, Before
  <2> QED
    BY <2>2, <2>4 DEF NaturalInv
<1> QED
  BY <1>4, <1>5 DEF ExitInv

\* A call that ends with a failure, or with the deletion of the handle: the
\* task is nobody's, or its handle lives on in the waiter.
LEMMA GiveUpExit ==
  ASSUME XInv, NEW t \in Task,
         \/ StartCleanup(t) \/ RecoverCleanup(t) \/ DestroyDelete(t)
         \/ RecoverProbe(t)
  PROVE  ExitInv(t)'
<1> USE DEF XInv, CInv, EInv, IInv, TypeOK, HostTypeOK
<1>1. CASE StartCleanup(t) \/ RecoverCleanup(t)
  <2>1. /\ rpc[t] \in {"cleanup", "reCleanup"} /\ rpc'[t] = "idle"
        /\ known'[t] = "gone" /\ jail'[t] \in {"absent", jail[t]}
        /\ UNCHANGED <<start, lastRun, pluginVars, handleVars, waitVars,
                       stopVars, run>>
    BY <1>1 DEF StartCleanup, RecoverCleanup, Goto, PotDestroy
  <2>2. procState[t] = "none"
    BY <2>1, NoHandle DEF StartPc, RecoverPc
  <2>3. LaunchInv(t)' /\ ~Natural(t)'
    BY <2>1, <2>2 DEF ExitInv, LaunchInv, RecoverPc, Natural
  <2> QED
    BY <2>3 DEF ExitInv
<1>2. CASE DestroyDelete(t)
  <2>1. /\ rpc[t] = "delete" /\ rpc'[t] = "idle" /\ known'[t] = "gone"
        /\ UNCHANGED <<hostVars, pluginVars, procState, exitCode, child,
                       waitVars, stopVars, run>>
    BY <1>2 DEF DestroyDelete, Goto
  <2>2. LaunchInv(t)'
    BY <2>1 DEF ExitInv, LaunchInv, RecoverPc
  <2>3. ASSUME Natural(t)'
        PROVE  NaturalInv(t)'
    BY <2>1, <2>3 DEF Natural, ExitInv, NaturalInv, JailInv, LearnInv, CodeInv,
                      TrueCode, ExcusedCode, Taken
  <2> QED
    BY <2>2, <2>3 DEF ExitInv
<1>3. CASE RecoverProbe(t)
  <2>1. /\ rpc[t] = "recover"
        /\ UNCHANGED <<hostVars, procState, exitCode, child, waitVars, stopVars,
                       run>>
        /\ \/ rpc'[t] = "reRegister" /\ start[t] = "live"
              /\ UNCHANGED <<known, mistaken>>
           \/ rpc'[t] = "idle" /\ known'[t] = "gone" /\ (mistaken => mistaken')
    BY <1>3 DEF RecoverProbe, Goto, AliveReply, Alive
  <2>2. procState[t] = "none" /\ wait[t] = "off"
    BY <2>1, NoHandle DEF RecoverPc
  <2>3. LaunchInv(t)'
    BY <2>1 DEF ExitInv, LaunchInv, RecoverPc
  <2>4. ASSUME Natural(t)'
        PROVE  NaturalInv(t)'
    <3>1. /\ rpc'[t] = "reRegister" /\ start[t] = "live"
          /\ NaturalInv(t)
      BY <2>1, <2>2, <2>4 DEF Natural, ExitInv
    <3> QED
      BY <2>1, <2>2, <3>1 DEF NaturalInv, JailInv, LearnInv, CodeInv, Before,
                              Ended
  <2> QED
    BY <2>3, <2>4 DEF ExitInv
<1> QED
  BY <1>1, <1>2, <1>3

\* run() belongs to a child whose waiter has not got its status.
LEMMA RunExit ==
  ASSUME XInv, NEW t \in Task, RunStep(t)
  PROVE  ExitInv(t)'
<1> USE DEF XInv, CInv, EInv, IInv, TypeOK, HostTypeOK
<1>1. /\ UNCHANGED <<hostVars, pluginVars, child, waitVars, stopVars, rpcVars>>
      /\ \/ run[t] = "alloc" /\ run'[t] = "mark" /\ procState' = procState
         \/ run[t] = "mark" /\ run'[t] = "code" /\ exitCode' = exitCode
            /\ procState'[t] = "running"
         \/ run[t] = "code" /\ run'[t] = "done" /\ procState' = procState
            /\ exitCode'[t] \in {0} \cup StatsCode
  <2>1. CASE RunAlloc(t)
    BY <2>1 DEF RunAlloc, OnlyRun
  <2>2. CASE RunMark(t)
    BY <2>2 DEF RunMark, OnlyRun
  <2>3. CASE RunCode(t)
    BY <2>3 DEF RunCode, OnlyRun
  <2> QED
    BY <2>1, <2>2, <2>3 DEF RunStep
<1>2. wait[t] \in Before /\ procState[t] # "none"
  <2>1. run[t] \in {"alloc", "mark", "code"}
    BY <1>1
  <2> QED
    BY <2>1, NoHandle DEF RunInv
<1>3. LaunchInv(t)'
  BY <1>1 DEF ExitInv, LaunchInv
<1>4. ASSUME Natural(t)'
      PROVE  NaturalInv(t)'
  <2>1. NaturalInv(t)
    BY <1>1, <1>2, <1>4 DEF Natural, ExitInv
  <2>2. child[t]
    BY <2>1, <1>1, <1>2 DEF NaturalInv, LearnInv
  <2> QED
    BY <2>1, <2>2, <1>1, <1>2 DEF NaturalInv, JailInv, LearnInv, CodeInv, Before
<1> QED
  BY <1>3, <1>4 DEF ExitInv

\* Only a task that was asked to stop is destroyed by StopTask; handleWait
\* changes nothing that matters here.
LEMMA StopWatchExit ==
  ASSUME XInv, NEW t \in Task, StopStep(t) \/ WatchStep(t)
  PROVE  ExitInv(t)'
<1> USE DEF XInv, CInv, EInv, IInv, TypeOK, HostTypeOK
<1>1. CASE StopStep(t)
  <2>1. /\ UNCHANGED <<start, lastRun, pluginVars, child, rpcVars, asked>>
        /\ jail'[t] \in {"absent", jail[t]}
        /\ stop[t] # "idle"
    BY <1>1 DEF StopStep, StopClaim, StopDestroy, PotDestroy
  <2>2. asked[t]
    BY <2>1 DEF ExitInv, LaunchInv
  <2> QED
    BY <2>1, <2>2 DEF ExitInv, LaunchInv, Natural
<1>2. CASE WatchStep(t)
  <2>1. UNCHANGED <<pluginVars, hostVars, handleVars, waitVars, stopVars,
                    rpcVars, run>>
    BY <1>2 DEF WatchStep, WatchTick, WatchSend, WatchReturn, OnlyWatch
  <2> QED
    BY <2>1 DEF ExitInv, LaunchInv, Natural, NaturalInv, JailInv, LearnInv,
                CodeInv, TrueCode, ExcusedCode
<1> QED
  BY <1>1, <1>2

\* potWait up to the mark: what Cmd.Wait returns is true, or too early.
LEMMA WaitReturnsExit ==
  ASSUME XInv, NEW t \in Task, WaitGet(t) \/ WaitReturns(t), "lateRun" \notin Faults
  PROVE  ExitInv(t)'
<1> USE DEF XInv, CInv, EInv, IInv, TypeOK, HostTypeOK
<1>1. /\ UNCHANGED <<hostVars, handleVars, stopVars, rpcVars, run>>
      /\ mistaken => mistaken'
  BY DEF WaitGet, WaitReturns, OnlyWait
<1>2. LaunchInv(t)'
  BY <1>1 DEF ExitInv, LaunchInv
<1>3. ASSUME Natural(t)'
      PROVE  NaturalInv(t)'
  <2>1. NaturalInv(t)
    BY <1>1, <1>3 DEF Natural, ExitInv
  <2>2. CASE WaitGet(t)
    BY <1>1, <2>1, <2>2
       DEF WaitGet, WaitGoto, NaturalInv, JailInv, LearnInv, CodeInv, TrueCode,
           ExcusedCode, Before
  <2>3. CASE WaitReturns(t)
    <3>1. /\ wait[t] = "wait" /\ wait'[t] = "mark"
          /\ IF child[t] THEN err'[t] = start[t] ELSE err'[t] = "err"
      BY <2>3 DEF WaitReturns, WaitGoto
    <3> QED
      BY <1>1, <2>1, <3>1
         DEF NaturalInv, JailInv, LearnInv, CodeInv, TrueCode, ExcusedCode, Before
  <2> QED
    BY <2>2, <2>3
<1> QED
  BY <1>2, <1>3 DEF ExitInv

\* The mark, and what the status of a child says about the exit code.
LEMMA WaitMarkExit ==
  ASSUME XInv, NEW t \in Task, WaitMark(t) \/ WaitFail(t), ~Die
  PROVE  ExitInv(t)'
<1> USE DEF XInv, CInv, EInv, IInv, TypeOK, HostTypeOK
<1>1. /\ UNCHANGED <<hostVars, pluginVars, child, err, stopVars, rpcVars, run>>
      /\ \/ /\ wait[t] = "mark" /\ exitCode' = exitCode
            /\ wait'[t] = IF err[t] = "ok" THEN "claim" ELSE "fail"
         \/ /\ wait[t] = "fail" /\ exitCode'[t] = 255 /\ exitCode[t] # Nil
            /\ wait'[t] = IF err[t] = "app" THEN "query" ELSE "claim"
  BY DEF WaitMark, WaitFail, WaitGoto, OnlyWait, Panic, defaultFailedCode
<1>2. LaunchInv(t)'
  BY <1>1 DEF ExitInv, LaunchInv
<1>3. ASSUME Natural(t)'
      PROVE  NaturalInv(t)'
  <2>1. Natural(t) /\ NaturalInv(t) /\ wait[t] \in {"mark", "fail"}
    <3>1. procState[t] # "none"
      BY <1>1, NoHandle
    <3> QED
      BY <1>1, <1>3, <3>1 DEF Natural, ExitInv
  <2>2. run[t] \in {"off", "done"}
    BY <2>1, SeenEnded DEF After, Before, WaitPc
  <2>3. JailInv(t)'
    BY <1>1, <2>1, NoHandle DEF NaturalInv, JailInv
  <2>4. CASE child[t]
    <3>1. /\ err[t] = start[t] /\ start[t] = StatusOf(lastRun[t])
          /\ wait[t] = "mark" => exitCode[t] \in {0} \cup StatsCode
          /\ wait[t] = "fail" => err[t] # "ok"
      BY <2>1, <2>2, <2>4 DEF NaturalInv, LearnInv, JailInv
    <3>2. /\ start[t] = "ok" <=> lastRun[t] = 0
          /\ start[t] = "err" <=> lastRun[t] = NoRun
      BY <3>1, StatusTells
    <3>3. TrueCode(t)' = IF lastRun[t] = NoRun THEN 255 ELSE lastRun[t]
      BY <1>1 DEF TrueCode, defaultFailedCode
    <3>4. LearnInv(t)'
      BY <1>1, <2>1, <2>2, <2>4, <3>1
         DEF NaturalInv, LearnInv, Before, defaultFailedCode
    <3>5. CodeInv(t)'
      <4>1. ExcusedCode(t)' = ExcusedCode(t)
        BY <1>1 DEF ExcusedCode
      <4>2. CASE wait[t] = "mark" /\ err[t] = "ok"
        BY <1>1, <2>4, <3>1, <3>2, <3>3, <4>1, <4>2
           DEF CodeInv, ExcusedCode, NoRun
      <4>3. CASE ~(wait[t] = "mark" /\ err[t] = "ok")
        BY <1>1, <3>1, <3>2, <3>3, <4>3 DEF CodeInv, NoRun, Ended
      <4> QED
        BY <4>2, <4>3
    <3> QED
      BY <2>3, <3>4, <3>5 DEF NaturalInv
  <2>5. CASE ~child[t]
    <3>1. err[t] = "err" /\ exitCode[t] = Nil /\ run[t] = "off"
      BY <2>1, <2>5 DEF NaturalInv, LearnInv
    <3>2. wait[t] = "mark" /\ wait'[t] = "fail" /\ exitCode' = exitCode
      BY <1>1, <3>1
    <3> QED
      BY <1>1, <2>1, <2>3, <2>5, <3>1, <3>2
         DEF NaturalInv, LearnInv, CodeInv, Before
  <2> QED
    BY <2>4, <2>5
<1> QED
  BY <1>2, <1>3 DEF ExitInv

\* The poll loop ends for a task that has ended, or by mistake.
LEMMA PollExit ==
  ASSUME XInv, NEW t \in Task, PollEnds(t) \/ RecoverMark(t), ~Die
  PROVE  ExitInv(t)'
<1> USE DEF XInv, CInv, EInv, IInv, TypeOK, HostTypeOK
<1>1. /\ UNCHANGED <<hostVars, store, exitCode, child, err, stopVars, rpcVars, run>>
      /\ mistaken => mistaken'
      /\ wait[t] \in {"poll", "reMark"} /\ wait'[t] \in {"reMark", "reQuery"}
  BY DEF PollEnds, RecoverMark, WaitGoto, OnlyWait, Panic
<1>2. procState[t] # "none"
  BY <1>1, NoHandle
<1>3. LaunchInv(t)'
  BY <1>1 DEF ExitInv, LaunchInv
<1>4. ASSUME Natural(t)'
      PROVE  NaturalInv(t)'
  <2>1. NaturalInv(t)
    BY <1>1, <1>2, <1>4 DEF Natural, ExitInv
  <2> QED
    BY <1>1, <1>2, <2>1 DEF NaturalInv, JailInv, LearnInv, CodeInv, Before
<1> QED
  BY <1>3, <1>4 DEF ExitInv

\* last-run-stats is asked while the jail is there, and has stopped.
LEMMA QueryExit ==
  ASSUME XInv, NEW t \in Task, WaitQuery(t) \/ RecoverQuery(t)
  PROVE  ExitInv(t)'
<1> USE DEF XInv, CInv, EInv, IInv, TypeOK, HostTypeOK
<1>1. /\ UNCHANGED <<hostVars, mistaken, procState, child, err, stopVars,
                     rpcVars, run>>
      /\ wait[t] \in {"query", "reQuery"} /\ wait'[t] = "claim"
      /\ \E c \in LastRunReply(t) :
           /\ exitCode'[t] = IF c # NoRun THEN c
                             ELSE IF wait[t] = "query" THEN exitCode[t] ELSE 255
           /\ c = NoRun /\ lastRun[t] # NoRun => unread'[t]
  <2> USE DEF WaitGoto, defaultFailedCode
  <2>1. /\ UNCHANGED <<hostVars, mistaken, procState, child, err, stopVars,
                       rpcVars, run>>
        /\ wait[t] \in {"query", "reQuery"} /\ wait'[t] = "claim"
    BY DEF WaitQuery, RecoverQuery
  <2>2. PICK c \in LastRunReply(t) :
          /\ exitCode' = [exitCode EXCEPT ![t] =
               IF c # NoRun THEN c
               ELSE IF wait[t] = "query" THEN exitCode[t] ELSE 255]
          /\ unread' = [unread EXCEPT ![t] =
                          unread[t] \/ (c = NoRun /\ lastRun[t] # NoRun)]
    <3>1. CASE WaitQuery(t)
      BY <3>1 DEF WaitQuery
    <3>2. CASE RecoverQuery(t)
      BY <3>2 DEF RecoverQuery
    <3> QED
      BY <3>1, <3>2
  <2>3. unread'[t] = (unread[t] \/ (c = NoRun /\ lastRun[t] # NoRun))
    BY <2>2, Zenon
  <2>4. exitCode'[t] = IF c # NoRun THEN c
                       ELSE IF wait[t] = "query" THEN exitCode[t] ELSE 255
    BY <2>2
  <2> QED
    BY <2>1, <2>3, <2>4
<1>2. procState[t] # "none"
  BY <1>1, NoHandle
<1>3. LaunchInv(t)'
  BY <1>1 DEF ExitInv, LaunchInv
<1>4. ASSUME Natural(t)'
      PROVE  NaturalInv(t)'
  <2>1. Natural(t) /\ NaturalInv(t)
    BY <1>1, <1>4 DEF Natural, ExitInv
  <2>2. jail[t] = "stopped"
    <3>1. jail[t] # "running"
      BY <1>1, <2>1, SeenEnded DEF After, Before, WaitPc
    <3> QED
      BY <1>1, <1>2, <2>1, <3>1 DEF NaturalInv, JailInv
  <2>3. wait[t] = "query" => lastRun[t] # NoRun
    <3>1. wait[t] = "query" => StatusOf(lastRun[t]) = "app"
      BY <2>1 DEF NaturalInv, LearnInv, JailInv, Ended
    <3> QED
      BY <3>1, StatusTells
  <2>4. LastRunReply(t) \subseteq {lastRun[t], NoRun}
    BY <2>2 DEF LastRunReply
  <2>5. CodeInv(t)'
    <3>1. wait[t] = "query" => exitCode[t] = 255
      BY <2>1 DEF NaturalInv, LearnInv, defaultFailedCode
    <3> QED
      BY <1>1, <2>3, <2>4, <3>1
         DEF CodeInv, TrueCode, ExcusedCode, defaultFailedCode
  <2> QED
    BY <1>1, <1>2, <2>1, <2>5 DEF NaturalInv, JailInv, LearnInv, Before
<1> QED
  BY <1>3, <1>4 DEF ExitInv

\* From the claim on the exit code stays, and the jail may go.
LEMMA ClaimExit ==
  ASSUME XInv, NEW t \in Task, WaitClaim(t) \/ WaitDestroy(t)
  PROVE  ExitInv(t)'
<1> USE DEF XInv, CInv, EInv, IInv, TypeOK, HostTypeOK
<1>1. /\ UNCHANGED <<start, lastRun, pluginVars, procState, exitCode, child, err,
                     stopVars, rpcVars, run>>
      /\ jail'[t] \in {"absent", jail[t]}
      /\ wait[t] \in {"claim", "destroy"} /\ wait'[t] \in {"done", "destroy"}
  BY DEF WaitClaim, WaitDestroy, WaitGoto, PotDestroy
<1>2. procState[t] # "none" /\ rpc[t] \notin Taken
  BY <1>1, NoHandle DEF StartPc, RecoverPc, Taken
<1>3. LaunchInv(t)'
  BY <1>1 DEF ExitInv, LaunchInv
<1>4. ASSUME Natural(t)'
      PROVE  NaturalInv(t)'
  <2>1. Natural(t) /\ NaturalInv(t)
    BY <1>1, <1>4 DEF Natural, ExitInv
  <2>2. start[t] # "live"
    BY <1>1, <2>1, SeenEnded DEF After, Before, WaitPc
  <2> QED
    BY <1>1, <1>2, <2>1, <2>2
       DEF NaturalInv, JailInv, LearnInv, CodeInv, Before, TrueCode, ExcusedCode, Taken
<1> QED
  BY <1>3, <1>4 DEF ExitInv

-----------------------------------------------------------------------------

LEMMA TaskStepExit ==
  ASSUME XInv, "lateRun" \notin Faults, NEW t \in Task, TaskStep(t), ~Die,
         NEW s \in Task
  PROVE  ExitInv(s)'
<1>1. CASE s # t
  BY <1>1, TaskStepLocal, Untouched DEF XInv, CInv, EInv, IInv
<1>2. CASE s = t
  <2>1. CASE HostStep(t) \/ ClientCall(t)
    BY <1>2, <2>1, HostExit, ClientExit
  <2>2. CASE RpcStep(t)
    BY <1>2, <2>2, PrepareExit, LaunchExit, RegisterExit, GiveUpExit DEF RpcStep
  <2>3. CASE RunStep(t) \/ StopStep(t) \/ WatchStep(t)
    BY <1>2, <2>3, RunExit, StopWatchExit
  <2>4. CASE WaitStep(t)
    BY <1>2, <2>4, WaitReturnsExit, WaitMarkExit, PollExit, QueryExit, ClaimExit
       DEF WaitStep, OrphanReturns, Panic
  <2> QED
    BY <2>1, <2>2, <2>3, <2>4 DEF TaskStep, NoProcess, Panic
<1> QED
  BY <1>1, <1>2

LEMMA NextExit == "lateRun" \notin Faults /\ XInv /\ [Next]_vars => XInv'
<1> SUFFICES ASSUME "lateRun" \notin Faults, XInv, [Next]_vars
             PROVE  XInv'
  OBVIOUS
<1>1. CInv'
  BY NextRun DEF XInv
<1>2. ASSUME NEW s \in Task
      PROVE  ExitInv(s)'
  <2>1. CASE Die
    BY <2>1, DieExit
  <2>2. CASE Restart \/ Shutdown \/ UNCHANGED vars
    BY <2>2, Untouched DEF Restart, Shutdown, vars, TaskUnchanged
  <2>3. ASSUME NEW t \in Task, TaskStep(t), ~Die
        PROVE  ExitInv(s)'
    BY <2>3, TaskStepExit
  <2> QED
    BY <2>1, <2>2, <2>3 DEF Next, Crash
<1> QED
  BY <1>1, <1>2 DEF XInv

LEMMA InitExit == Init => XInv
  BY InitMark DEF Init, HostInit, All, XInv, CInv, RunInv, ExitInv, LaunchInv,
                  NaturalInv, JailInv, LearnInv, CodeInv, Before, Taken, Ended,
                  RecoverPc

\* As long as run() is not overtaken by the end of its `pot start`, the exit
\* code in a handle whose exit is dealt with is the one of the program, unless
\* the task was stopped or the driver mistook it for ended, last-run-stats has
\* kept the code, or a statistics command has left another one for a program
\* that ended with 0: for children, adopted and recovered tasks, through
\* crashes, panics, failing commands, failing probes and Shutdown.
THEOREM ExitIsTrue == "lateRun" \notin Faults => (Spec => []TruthfulExit)
<1>1. XInv => TruthfulExit
  BY DEF XInv, ExitInv, Natural, NaturalInv, CodeInv, TruthfulExit
<1>2. ASSUME "lateRun" \notin Faults
      PROVE  Spec => []TruthfulExit
  <2>1. XInv /\ [Next]_vars => XInv'
    BY <1>2, NextExit
  <2> QED
    BY <1>1, <2>1, InitExit, PTL DEF Spec
<1> QED
  BY <1>2
=============================================================================

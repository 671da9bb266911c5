------------------------------ MODULE PotHost ------------------------------
(***************************************************************************)
(* The FreeBSD host as the driver sees it: for every task a jail, managed  *)
(* by the `pot` command, and the `pot start` process that stays alive as   *)
(* long as the jail runs.  Nothing here is under src/; the operations are  *)
(* modelled from how driver/pot.go calls them and interprets their exit    *)
(* status.                                                                 *)
(*                                                                         *)
(* A jail is "absent", "bare" (made by `pot prepare`), "ready" (all the    *)
(* configuration commands of createContainer have run), "running" or       *)
(* "stopped".  A `pot start` process is "none", "live", or ended with      *)
(* status "ok" (0), "app" (125: the enclosed program failed) or "err"      *)
(* (any other failure).                                                    *)
(***************************************************************************)
EXTENDS Integers

CONSTANTS
  Task,     \* task IDs; the name of the jail is a function of the ID
  AppCode,  \* non-zero exit codes of the enclosed program
  Faults    \* which failures of the environment are considered

(***************************************************************************)
(* "crash"    the plugin process is killed at any point                    *)
(* "shutdown" Driver.Shutdown cancels the context of the driver            *)
(* "destroy"  `pot destroy` fails and leaves the jail as it was            *)
(* "encode"   SetDriverState fails while the handle is built               *)
(* "lateRun"  `pot start` may end before the goroutine h.run() is done     *)
(* "probe"    pgrep may miss a live `pot start`, and `pot ls | grep` an    *)
(*            existing jail: they fail, or they find more than one match   *)
(* "stats"    `pot last-run-stats` fails, or its output is no JSON         *)
(* "decode"   RecoverTask cannot read the handle it is given               *)
(* "config"   a copy, mount or attribute entry of the job has no colon     *)
(* "fork"     `pot` cannot be executed, for want of a process or a file    *)
(***************************************************************************)
AllFaults == {"crash", "shutdown", "destroy", "encode", "lateRun",
              "probe", "stats", "decode", "config", "fork"}

ASSUME HostAssumption ==
  /\ AppCode \subseteq 1..255
  /\ Faults \subseteq AllFaults

VARIABLES
  jail,    \* state of the jail of a task
  start,   \* state of its latest `pot start` process
  lastRun  \* exit code of the enclosed program in the latest run, or NoRun

hostVars == <<jail, start, lastRun>>

NoRun == -1             \* the enclosed program has not run to an end
Ended == {"ok", "app", "err"}
Code  == {0} \cup AppCode

HostTypeOK ==
  /\ jail \in [Task -> {"absent", "bare", "ready", "running", "stopped"}]
  /\ start \in [Task -> {"none", "live"} \cup Ended]
  /\ lastRun \in [Task -> Code \cup {NoRun}]

HostInit ==
  /\ jail = [t \in Task |-> "absent"]
  /\ start = [t \in Task |-> "none"]
  /\ lastRun = [t \in Task |-> NoRun]

-----------------------------------------------------------------------------
(* What happens on the host by itself.                                     *)

\* The enclosed program ends, or (NoRun) `pot start` gives the jail up.
JailExit(t) ==
  /\ jail[t] = "running"
  /\ jail' = [jail EXCEPT ![t] = "stopped"]
  /\ \E c \in Code \cup {NoRun} : lastRun' = [lastRun EXCEPT ![t] = c]
  /\ UNCHANGED start

StatusOf(c) == IF c = 0 THEN "ok" ELSE IF c = NoRun THEN "err" ELSE "app"

\* `pot start` ends after its jail: with the status of a jail that stopped by
\* itself, with any status when the jail was destroyed under it.
StartEnd(t) ==
  /\ start[t] = "live"
  /\ jail[t] # "running"
  /\ \E s \in Ended : /\ jail[t] = "stopped" => s = StatusOf(lastRun[t])
                      /\ start' = [start EXCEPT ![t] = s]
  /\ UNCHANGED <<jail, lastRun>>

-----------------------------------------------------------------------------
(* The pot commands the driver runs.                                       *)

\* `pot prepare`: on failure it may or may not leave something behind; a
\* jail that exists makes it fail and stays as it is.
PotPrepare(t, ok) ==
  /\ \/ jail[t] = "absent" /\ jail' = [jail EXCEPT ![t] = "bare"]
     \/ ~ok /\ UNCHANGED jail
  /\ UNCHANGED <<start, lastRun>>

\* set-attribute, copy-in, mount-in, set-env, set-hosts and set-rss, all done.
PotConfigure(t) ==
  /\ jail' = [jail EXCEPT ![t] = "ready"]
  /\ UNCHANGED <<start, lastRun>>

\* A jail that runs already is left to the `pot start` that runs it; the new
\* one fails at once.
PotStart(t) ==
  IF jail[t] = "running" THEN UNCHANGED hostVars ELSE
    /\ jail' = [jail EXCEPT ![t] = "running"]
    /\ start' = [start EXCEPT ![t] = "live"]
    /\ lastRun' = [lastRun EXCEPT ![t] = NoRun]

\* `pot destroy -F` stops the jail and removes it.
PotDestroy(t) ==
  /\ \/ jail' = [jail EXCEPT ![t] = "absent"]
     \/ "destroy" \in Faults /\ UNCHANGED jail
  /\ UNCHANGED <<start, lastRun>>

\* What `pgrep -f "pot start <jail>"` can make the driver believe.
Alive(t) == start[t] = "live"
AliveReply(t) == {Alive(t)} \cup IF "probe" \in Faults THEN {FALSE} ELSE {}

\* What `pot ls -q | grep <jail>` can make the driver believe.
Exists(t) == jail[t] # "absent"
ExistsReply(t) == {Exists(t)} \cup IF "probe" \in Faults THEN {FALSE} ELSE {}

\* What `pot last-run-stats` can answer; NoRun stands for a failed command.
LastRunReply(t) ==
  CASE jail[t] = "stopped" ->
         {lastRun[t]} \cup IF "stats" \in Faults THEN {NoRun} ELSE {}
    [] jail[t] = "running" -> Code \cup {NoRun}
    [] OTHER               -> {NoRun}
=============================================================================

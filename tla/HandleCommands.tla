--------------------------- MODULE HandleCommands ---------------------------
(***************************************************************************)
(* The pot commands that run beside the life of one task: the streams of   *)
(* TaskStats, whose goroutines handleStats share the syexec of the handle  *)
(* and take no lock for it, and an ExecTask call, which has a syexec of    *)
(* its own.  (What run() makes of a code that is left in the handle is     *)
(* StatsCode in PotDriver.)  A stream ends with the context of its call;   *)
(* Driver.ctx is not watched.                                              *)
(***************************************************************************)
EXTENDS Integers

CONSTANT Call  \* TaskStats calls for the task

VARIABLES
  code,      \* syexec.exitCode of the handle
  failed,    \* a statistics command has failed (history)
  stat,      \* where a handleStats goroutine is
  cancelled, \* the context of its call is cancelled
  reply,     \* what its latest statistics command ended with
  json,      \* the output of that command is the JSON of potStats
  exec,      \* where the ExecTask call is
  waiting,   \* its command waits for the end of its stdin
  execCode   \* syexec.exitCode of the call, and its answer

statVars == <<stat, cancelled, reply, json>>
execVars == <<exec, waiting, execCode>>
handleVars == <<code, failed, statVars, execVars>>

Codes  == {0, 1, 255}  \* success, failure of a command, defaultFailedCode
StatPc == {"off", "select", "command", "check", "send", "sleep", "done"}

HandleTypeOK ==
  /\ code \in Codes
  /\ failed \in BOOLEAN
  /\ stat \in [Call -> StatPc]
  /\ cancelled \in [Call -> BOOLEAN]
  /\ reply \in [Call -> Codes]
  /\ json \in [Call -> BOOLEAN]
  /\ exec \in {"idle", "wait", "done"}
  /\ waiting \in BOOLEAN
  /\ execCode \in Codes

HandleInit ==
  /\ code = 0 /\ failed = FALSE
  /\ stat = [c \in Call |-> "off"]
  /\ cancelled = [c \in Call |-> FALSE]
  /\ reply = [c \in Call |-> 0]
  /\ json = [c \in Call |-> TRUE]
  /\ exec = "idle" /\ waiting = FALSE /\ execCode = 0

-----------------------------------------------------------------------------
(* TaskStats                                                               *)

StatGoto(c, from, to) == stat[c] = from /\ stat' = [stat EXCEPT ![c] = to]

OnlyStat == UNCHANGED <<code, failed, cancelled, reply, json, execVars>>

TaskStats(c) == StatGoto(c, "off", "select") /\ OnlyStat

Cancel(c) ==
  /\ stat[c] # "off"
  /\ cancelled' = [cancelled EXCEPT ![c] = TRUE]
  /\ UNCHANGED <<code, failed, stat, reply, json, execVars>>

StatTick(c) == StatGoto(c, "select", "command") /\ OnlyStat

\* containerStats up to its write of the exit code: any status, and any output.
StatCommand(c) ==
  /\ StatGoto(c, "command", "check")
  /\ \E s \in Codes :
       /\ reply' = [reply EXCEPT ![c] = s]
       /\ code' = s
       /\ failed' = (failed \/ s # 0)
  /\ \E ok \in BOOLEAN : json' = [json EXCEPT ![c] = ok]
  /\ UNCHANGED <<cancelled, execVars>>

\* containerStats reads the exit code again, which another call may have
\* overwritten by now, and then the output of its own command.
StatCheck(c) ==
  /\ StatGoto(c, "check", IF code = 0 /\ json[c] THEN "send" ELSE "sleep")
  /\ OnlyStat

\* The reader of a stream receives until its context is cancelled.
StatSend(c) ==
  /\ ~cancelled[c]
  /\ StatGoto(c, "send", "select")
  /\ OnlyStat

\* (Mutant: the send does not watch the context.)
StatReturnUnsent(c) ==
  /\ \/ stat[c] = "select" /\ cancelled[c]
     \/ stat[c] = "sleep"
  /\ stat' = [stat EXCEPT ![c] = "done"]
  /\ OnlyStat

StatReturn(c) ==
  /\ \/ stat[c] \in {"select", "send"} /\ cancelled[c]
     \/ stat[c] = "sleep"
  /\ stat' = [stat EXCEPT ![c] = "done"]
  /\ OnlyStat

-----------------------------------------------------------------------------
(* ExecTask                                                                *)

OnlyExec == UNCHANGED <<code, failed, statVars>>

\* An empty command, a pipe or a process that cannot be made are errors.
ExecTask ==
  /\ exec = "idle"
  /\ \/ exec' = "wait" /\ waiting' \in BOOLEAN
     \/ exec' = "done" /\ UNCHANGED waiting
  /\ UNCHANGED execCode
  /\ OnlyExec

\* (Mutant: execInContainer works on the syexec of the handle.)
ExecWaitShared ==
  /\ exec = "wait"
  /\ ~waiting
  /\ exec' = "done"
  /\ \E s \in Codes : code' = s /\ execCode' = s
  /\ UNCHANGED <<failed, statVars, waiting>>

\* (Mutant: the raw wait status is taken for the exit status.)
ExecWaitRaw ==
  /\ exec = "wait"
  /\ ~waiting
  /\ exec' = "done"
  /\ \E s \in Codes : execCode' = s * 256
  /\ UNCHANGED waiting
  /\ OnlyExec

\* The command ends, Cmd.Wait with it, and the call answers.  Its stdin is a
\* pipe that is only closed afterwards, and its timeout is not looked at.
ExecWait ==
  /\ exec = "wait"
  /\ ~waiting
  /\ exec' = "done"
  /\ execCode' \in Codes
  /\ UNCHANGED waiting
  /\ OnlyExec

-----------------------------------------------------------------------------
StatStep(c) ==
  \/ StatTick(c)
  \/ StatCommand(c)
  \/ StatCheck(c)
  \/ StatSend(c)
  \/ StatReturn(c)

HandleNext ==
  \/ \E c \in Call : TaskStats(c) \/ Cancel(c) \/ StatStep(c)
  \/ ExecTask
  \/ ExecWait

-----------------------------------------------------------------------------
\* A stream sends what a failed command has printed only when there is another
\* stream of the task, the command of which may have overwritten the exit code:
\* an ExecTask beside it cannot do so.
LoneSampleIsOwn ==
  \A c \in Call :
    stat[c] = "send" /\ reply[c] # 0 =>
      \E d \in Call \ {c} : stat[d] # "off"

\* A stream ends when its call is cancelled, its command has printed no JSON,
\* or a statistics command for the task has failed, which need not be its own;
\* never because of an ExecTask.
StreamEndsForCause ==
  [][\A c \in Call :
       StatReturn(c) => cancelled[c] \/ failed \/ ~json[c]]_handleVars

\* A cancelled stream is closed.
StatsEnd == \A c \in Call : cancelled[c] ~> stat[c] = "done"
=============================================================================

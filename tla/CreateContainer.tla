-------------------------- MODULE CreateContainer --------------------------
(***************************************************************************)
(* StartTask up to a started jail, command by command: prepareContainer    *)
(* (module Prepare), the probes, createContainer, startContainer and the   *)
(* way out through destroyContainer, with a plugin that may die in between *)
(* and a client that then calls StartTask again.                           *)
(*                                                                         *)
(* PotDriver has the same steps with the configuration of the jail as one  *)
(* of them; ImplementsStartTask says that this module implements it.       *)
(***************************************************************************)
EXTENDS PotHost, Prepare

CONSTANT Jobs  \* the configurations a task may have

ASSUME CreateAssumption == "crash" \in Faults

\* Lists of the configuration, an entry of which has its parts as strings.
ASSUME JobAssumption ==
  \A j \in Jobs :
    {j.attributes, j.copy, j.mount, j.mountReadOnly} \subseteq Seq(Seq(STRING))

VARIABLES
  up,       \* the plugin process lives
  job,      \* configuration of a task
  mistaken, \* a live `pot start` was taken for an ended one (history)
  child,    \* `pot start` has started the jail: it is the live one
  rpc,      \* where StartTask is
  queue,    \* createContainer: the commands it has left to run
  applied,  \* what the commands have made true of the jail
  skipped,  \* what createContainer has given up to make true of the jail
  cut,      \* the plugin has died while the jail was incomplete (history)
  known     \* the client: "fresh", or "gone" after an error

createVars == <<job, queue, applied, skipped, cut>>
startVars  == <<mistaken, child>>
vars == <<hostVars, createVars, startVars, up, rpc, known>>

StartPc == {"probe", "exists", "create", "configure", "start", "cleanup",
            "register", "adopt"}

\* The value of an entry is what follows its first colon.
Each(kind, entries) == {Fact(kind, e[1], Tail(e)) : e \in ToSet(entries)}

NetworkMode(j) == IF j.network = "" THEN "public-bridge" ELSE j.network

\* What a job asks for: after the parameters and defaults of README.md, the
\* syntax in the comments of TaskConfig, and the directories of every task.
Asked(j) ==
  {Fact("image", j.image, <<>>), Fact("memory", j.memory, <<>>),
   Fact("network", NetworkMode(j), <<>>)}
    \cup {Fact("command", c, j.args) : c \in {j.command} \ {""}}
    \cup {Fact("export", j.ports[p], <<HostPort(j, p)>>) :
            p \in {p \in DOMAIN j.ports : NetworkMode(j) # "host"}}
    \cup Each("attribute", j.attributes)
    \cup Each("copy", j.copy)
    \cup Each("mount", j.mount \o <<<<"local", "/local">>,
                                    <<"secrets", "/secrets">>>>)
    \cup Each("mountReadOnly", j.mountReadOnly)
    \cup {Fact("env", n, <<j.env[n]>>) : n \in DOMAIN j.env}
    \cup {Fact("host", h, <<>>) : h \in ToSet(j.hosts)}

\* Where the driver does less: it names no network for a job that names
\* neither a network nor a port, and cuts the values of attributes and mounts
\* at a second colon.
Given(j) ==
  LET unnamed == j.network = "" /\ j.ports = <<>>
      Cut(f)  == IF f.kind \in {"attribute", "mount", "mountReadOnly"}
                 THEN Fact(f.kind, f.key, <<Head(f.value)>>)
                 ELSE f
  IN  {Cut(f) : f \in {f \in Asked(j) : f.kind = "network" => ~unnamed}}

Accepted(j) == ~Refused(j) /\ ~Malformed(j)
Facts       == UNION {Given(j) : j \in {j \in Jobs : Accepted(j)}}

TypeOK ==
  /\ HostTypeOK
  /\ up \in BOOLEAN
  /\ mistaken \in BOOLEAN
  /\ child \in [Task -> BOOLEAN]
  /\ job \in [Task -> Jobs]
  /\ rpc \in [Task -> StartPc \cup {"idle"}]
  /\ known \in [Task -> {"fresh", "gone"}]
  /\ cut \in [Task -> BOOLEAN]
  /\ \A t \in Task : applied[t] \cup skipped[t] \subseteq Facts
  /\ \A t \in Task : (queue[t] # <<>>) <=> rpc[t] = "configure"

All(v) == [t \in Task |-> v]

Init ==
  /\ HostInit
  /\ up = TRUE
  /\ mistaken = FALSE
  /\ child = All(FALSE)
  /\ job \in [Task -> Jobs]
  /\ rpc = All("idle")
  /\ queue = All(<<>>)
  /\ applied = All({})
  /\ skipped = All({})
  /\ cut = All(FALSE)
  /\ known = All("fresh")

-----------------------------------------------------------------------------
(* Death and restart of the plugin process.                                *)

Die ==
  /\ up' = FALSE
  /\ rpc' = All("idle")
  /\ queue' = All(<<>>)
  /\ child' = All(FALSE)
  /\ cut' = [t \in Task |-> cut[t] \/ jail[t] = "bare"]
  /\ UNCHANGED <<hostVars, job, applied, skipped, mistaken, known>>

Crash == up /\ Die

\* A panic in an RPC ends the process.
Panic == Die

Restart ==
  /\ ~up
  /\ up' = TRUE
  /\ UNCHANGED <<hostVars, createVars, startVars, rpc, known>>

-----------------------------------------------------------------------------
(* StartTask                                                               *)

Goto(t, from, to) == rpc[t] = from /\ rpc' = [rpc EXCEPT ![t] = to]

\* An error of prepareContainer ends the call before it has changed anything.
StartTask(t) ==
  /\ up
  /\ known[t] = "fresh"
  /\ rpc[t] = "idle"
  /\ ~Refused(job[t])
  /\ \/ /\ ~Malformed(job[t])
        /\ Goto(t, "idle", "probe")
        /\ UNCHANGED <<hostVars, createVars, startVars, up, known>>
     \/ Malformed(job[t]) /\ Panic

StartProbe(t) ==
  /\ \E alive \in AliveReply(t) :
       /\ Goto(t, "probe", IF alive THEN "adopt" ELSE "exists")
       /\ mistaken' = (mistaken \/ (Alive(t) /\ ~alive))
  /\ UNCHANGED <<hostVars, createVars, child, up, known>>

StartExists(t) ==
  /\ \E exists \in ExistsReply(t) :
       Goto(t, "exists", IF exists THEN "start" ELSE "create")
  /\ UNCHANGED <<hostVars, createVars, startVars, up, known>>

\* What a command of createContainer makes true, and whether it is one that
\* goes on when `sh` cannot be run.
Lax(fact)     == [facts |-> {fact}, lax |-> TRUE]
Strict(facts) == [facts |-> facts, lax |-> FALSE]

\* (Mutant: the read-only mounts are forgotten.)
CommandsNoReadOnly(j) ==
  [i \in DOMAIN (argvAttributes(j) \o argvCopy(j) \o argvMount(j)) |->
     Lax((argvAttributes(j) \o argvCopy(j) \o argvMount(j))[i])]
  \o <<Strict(argvEnv(j)), Strict(argvExtraHosts(j)), Strict({argvMem(j)})>>

Commands(j) ==
  LET each == argvAttributes(j) \o argvCopy(j) \o argvMount(j)
                \o argvMountReadOnly(j)
  IN  [i \in DOMAIN each |-> Lax(each[i])]
        \o <<Strict(argvEnv(j)), Strict(argvExtraHosts(j)),
             Strict({argvMem(j)})>>

\* `pot prepare`, with all its options, or with no effect but a bare jail, if
\* there was none.
StartCreate(t) ==
  /\ \/ /\ Goto(t, "create", "configure")
        /\ PotPrepare(t, TRUE)
        /\ queue' = [queue EXCEPT ![t] = Commands(job[t])]
        /\ applied' = [applied EXCEPT ![t] = argvCreate(job[t])]
     \/ /\ Goto(t, "create", "cleanup")
        /\ PotPrepare(t, FALSE)
        /\ UNCHANGED <<queue, applied>>
  /\ IF Exists(t) THEN UNCHANGED <<skipped, cut>>
     ELSE /\ skipped' = [skipped EXCEPT ![t] = {}]
          /\ cut' = [cut EXCEPT ![t] = FALSE]
  /\ UNCHANGED <<job, startVars, up, known>>

\* On to the next command; after the last one the jail is ready.
Advance(t) ==
  /\ queue' = [queue EXCEPT ![t] = Tail(@)]
  /\ IF Len(queue[t]) = 1
     THEN rpc' = [rpc EXCEPT ![t] = "start"] /\ PotConfigure(t)
     ELSE UNCHANGED <<rpc, hostVars>>

CommandDone(t) ==
  /\ rpc[t] = "configure"
  /\ Advance(t)
  /\ applied' = [applied EXCEPT ![t] = @ \cup Head(queue[t]).facts]
  /\ UNCHANGED <<job, skipped, cut, startVars, up, known>>

\* (Mutant: the error is returned on the spot.)
CommandFailsReturns(t) ==
  /\ Goto(t, "configure", "idle")
  /\ queue' = [queue EXCEPT ![t] = <<>>]
  /\ UNCHANGED <<hostVars, job, applied, skipped, cut, startVars, up, known>>

CommandFails(t) ==
  /\ Goto(t, "configure", "cleanup")
  /\ queue' = [queue EXCEPT ![t] = <<>>]
  /\ UNCHANGED <<hostVars, job, applied, skipped, cut, startVars, up, known>>

\* `sh` itself cannot be run: only logged for attributes, copies and mounts.
CommandSkipped(t) ==
  /\ "fork" \in Faults
  /\ rpc[t] = "configure"
  /\ Head(queue[t]).lax
  /\ Advance(t)
  /\ skipped' = [skipped EXCEPT ![t] = @ \cup Head(queue[t]).facts]
  /\ UNCHANGED <<job, applied, cut, startVars, up, known>>

\* The error of cmd.Start is not looked at: without a process there is a nil
\* pointer.
StartContainer(t) ==
  \/ /\ Goto(t, "start", "register")
     /\ PotStart(t)
     /\ child' = [child EXCEPT ![t] = jail[t] # "running"]
     /\ UNCHANGED <<createVars, mistaken, up, known>>
  \/ /\ Goto(t, "start", "cleanup")
     /\ UNCHANGED <<hostVars, createVars, startVars, up, known>>
  \/ /\ "fork" \in Faults
     /\ rpc[t] = "start"
     /\ Panic

\* (Mutant: the error goes back without destroyContainer.)
StartCleanupNone(t) ==
  /\ Goto(t, "cleanup", "idle")
  /\ known' = [known EXCEPT ![t] = "gone"]
  /\ UNCHANGED <<hostVars, createVars, startVars, up>>

\* destroyContainer(cfg, nil), and the error goes back to the client.
StartCleanup(t) ==
  \/ /\ Goto(t, "cleanup", "idle")
     /\ PotDestroy(t)
     /\ known' = [known EXCEPT ![t] = "gone"]
     /\ UNCHANGED <<createVars, startVars, up>>
  \/ /\ "fork" \in Faults
     /\ rpc[t] = "cleanup"
     /\ Panic

-----------------------------------------------------------------------------
HostStep(t) ==
  /\ JailExit(t) \/ StartEnd(t)
  /\ UNCHANGED <<createVars, startVars, up, rpc, known>>

RpcStep(t) ==
  \/ StartProbe(t)
  \/ StartExists(t)
  \/ StartCreate(t)
  \/ CommandDone(t)
  \/ CommandFails(t)
  \/ CommandSkipped(t)
  \/ StartContainer(t)
  \/ StartCleanup(t)

Next ==
  \/ Crash
  \/ Restart
  \/ \E t \in Task : HostStep(t) \/ StartTask(t) \/ RpcStep(t)

Spec == Init /\ [][Next]_vars

-----------------------------------------------------------------------------
(* Properties                                                              *)

\* The jail that runs has everything its job asks for, as far as the driver
\* ever gives it, less the attributes, copies and mounts whose command could
\* not be run at all - unless a plugin has died over its creation: then the
\* retried StartTask finds a jail and starts it as it is.
RunsAsAsked ==
  \A t \in Task :
    jail[t] = "running" =>
      \/ cut[t]
      \/ applied[t] \cup skipped[t] = Given(job[t])

\* An error of StartTask means that there is no jail, as long as `pot destroy`
\* works: whatever command has failed, what the others have made is removed.
ErrorMeansNoJail ==
  \A t \in Task :
    known[t] = "gone" /\ "destroy" \notin Faults => jail[t] = "absent"

\* StartTask as PotDriver has it, with a panic as one of its crashes.
Driver ==
  INSTANCE PotDriver WITH
    StatsCode <- {},
    ctxDone <- FALSE, panicked <- FALSE, hasty <- FALSE, unread <- All(FALSE),
    store <- All(FALSE), procState <- All("none"), exitCode <- All(-1),
    calledDestroy <- All(FALSE), destroys <- All(0),
    run <- All("off"), wait <- All("off"), err <- All("ok"),
    stop <- All("idle"), watch <- All("off"), listening <- All(FALSE),
    asked <- All(FALSE), result <- All(-2)

ImplementsStartTask == Driver!Spec
=============================================================================

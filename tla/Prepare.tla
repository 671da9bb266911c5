------------------------------ MODULE Prepare ------------------------------
(***************************************************************************)
(* driver/prepare.go: what prepareContainer makes of the configuration of  *)
(* a task.  A pot command is the fact it makes true of the jail: its kind, *)
(* what it is about, and a value.                                          *)
(*                                                                         *)
(* A job is a record                                                       *)
(*   image, command, network : a name, "" when the job does not say        *)
(*   args, hosts             : sequences of names                          *)
(*   ports, env              : functions from a name to a value            *)
(*   copy, mount, mountReadOnly, attributes : sequences of entries, an     *)
(*                             entry being its parts between the colons    *)
(*   memory                  : the limit in MB                             *)
(***************************************************************************)
EXTENDS Sequences, SequencesExt

Fact(kind, key, value) == [kind |-> kind, key |-> key, value |-> value]

\* The port of the host that Nomad gives the task for a name of port_map: ""
\* if the environment has none.
HostPort(job, name) ==
  LET var == "NOMAD_HOST_PORT_" \o name
  IN  IF var \in DOMAIN job.env THEN job.env[var] ELSE ""

-----------------------------------------------------------------------------
(* prepareContainer.  It returns an error for arguments without a command,  *)
(* and dies of an index out of range on an entry without a colon.           *)

Refused(job) == job.args # <<>> /\ job.command = ""

Entries(job) ==
  ToSet(job.copy) \cup ToSet(job.mount) \cup ToSet(job.mountReadOnly)
    \cup ToSet(job.attributes)

Malformed(job) == ~Refused(job) /\ \E entry \in Entries(job) : Len(entry) < 2

argvCommand(job) ==
  IF job.command = "" THEN {}
  ELSE {Fact("command", job.command, job.args)}

\* (The address of a bridged jail, `-i auto`, is left out.)
argvNetwork(job) ==
  IF job.network # "" THEN {Fact("network", job.network, <<>>)}
  ELSE IF job.ports # <<>> THEN {Fact("network", "public-bridge", <<>>)}
  ELSE {}

argvExport(job) ==
  IF job.network = "host" THEN {}
  ELSE {Fact("export", job.ports[name], <<HostPort(job, name)>>) :
          name \in DOMAIN job.ports}

\* The options of `pot prepare`.
argvCreate(job) ==
  {Fact("image", job.image, <<>>)}
    \cup argvCommand(job) \cup argvNetwork(job) \cup argvExport(job)

\* Split keeps the second part of an entry and drops the others.
EachEntry(kind, entries) ==
  [i \in 1..Len(entries) |-> Fact(kind, entries[i][1], <<entries[i][2]>>)]

argvAttributes(job) == EachEntry("attribute", job.attributes)

\* (Mutant: Split takes the place of SplitN.)
argvCopySplit(job) == EachEntry("copy", job.copy)

\* SplitN(file, ":", 2) keeps what follows a second colon.
argvCopy(job) ==
  [i \in 1..Len(job.copy) |->
     Fact("copy", job.copy[i][1], Tail(job.copy[i]))]

argvMount(job) ==
  <<Fact("mount", "local", <<"/local">>),
    Fact("mount", "secrets", <<"/secrets">>)>>
    \o EachEntry("mount", job.mount)

argvMountReadOnly(job) == EachEntry("mountReadOnly", job.mountReadOnly)

\* One command for all variables, and one for all hosts; an empty command line
\* when there are none.
argvEnv(job) == {Fact("env", name, <<job.env[name]>>) : name \in DOMAIN job.env}

argvExtraHosts(job) == {Fact("host", host, <<>>) : host \in ToSet(job.hosts)}

argvMem(job) == Fact("memory", job.memory, <<>>)
=============================================================================

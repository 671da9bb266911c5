# Verification of nomad-pot-driver

TLA+ models of the Pot task driver for Nomad, TLC configurations that check them
on small instances, and TLAPS proofs. The reference is the Go code: every action
is translated from the lines that `PROJECT.json` names under `map`.

## The system

The driver is a go-plugin process that a Nomad agent launches. It runs tasks as
FreeBSD jails by calling the `pot` command.

| part | state | operations | interacts with |
|---|---|---|---|
| life-cycle RPCs (`driver.go`) | `tasks`, `ctx`, `config` | StartTask, RecoverTask, WaitTask, StopTask, DestroyTask, InspectTask, SignalTask, ExecTask, Shutdown | handles, container commands, goroutines |
| task handle (`handle.go`) | `procState`, `exitResult`, `calledDestroy`, `stateLock`, a copy of `syexec` | `run`, `TaskStatus`, `IsRunning`, `stats` | written by `run`, `potWait`, `recoverWait`, `StopTask`, read by `handleWait` |
| task store (`state.go`) | map from task ID to handle under a lock | Set, Get, Delete | all RPCs and waiters |
| container commands (`pot.go`) | jails on the host, a `pot start` process per running jail | createContainer, startContainer, destroyContainer, probes, last-run-stats, stats, signal, exec | host |
| waiters (`driver.go`) | a goroutine per handle | `potWait` (child process), `recoverWait` (polls with pgrep) | handle, store, host |
| watchers (`driver.go`) | a goroutine per WaitTask call | `handleWait` (polls the handle each second) | handle, the agent |
| exec streaming (`exec_utils.go`, `pty_unix.go`) | pipes or a pty, `errCh`, `sendLock`, a wait group | `runNoTTY`, `runTTY`, `handleStdin`, `handleStdout`, `handleStderr` | command, gRPC stream |
| command lines (`prepare.go`) | none | `prepareContainer`, `prepareDestroy`, ... | argument lists of `pot` |
| fingerprint (`driver.go`) | timer, two contexts, `config` | `handleFingerprint`, SetConfig | agent |
| statistics (`handle.go`, `pot.go`) | timer, the handle's `syexec` | `handleStats`, `containerStats` | agent, handle |

What is hard, and what should hold:

* **One jail, several destroyers.** The waiter of a task and any number of
  StopTask calls run `pot destroy` behind one compare-and-swap. It must run at
  most once per handle, and whoever wins must really run it.
* **A jail must not be forgotten** by a StartTask that fails halfway, a plugin
  that restarts, or a waiter that leaves.
* **The exit of a task crosses three goroutines** (`run`, `potWait`,
  `handleWait`) that do not agree on a lock. It should be reported once it has
  happened, not before, and with the code of the program.
* **Crash and recovery.** The jail outlives the plugin. RecoverTask, or a
  StartTask that finds a live jail, has to rebuild a handle for a process that
  is not a child any more.
* **Exec sessions** have up to seven goroutines, two layers of pipes, a mutex, a
  bounded channel and a wait group; output must be complete and the exit result
  last, and the session must end.
* **Creating a jail is a dozen commands**, any of which may fail or not run at all,
  in a plugin that may die between two of them. What runs should be what the job
  asks for, and an error should leave nothing behind.
* **Statistics share the exit code of the handle** with `run()` and with each other,
  without a lock. What one call leaves in it should not pass for the result of another.
* **The fingerprint** crosses a channel whose reader may have gone, while SetConfig
  changes what it should say.

## Modules

| module | models |
|---|---|
| `PotHost` | the host, as `pot.go` uses it: jails, `pot start` processes, probes, last-run-stats. External, apart from the probes |
| `PotDriver` | the life-cycle RPCs, the handle, the store, `run`, `potWait`, `recoverWait`, `handleWait`, the death and restart of the plugin, Shutdown; its properties and fairness |
| `TaskContract` | what a client may conclude from the state and the result of a task (abstract); `PotDriver` implements it |
| `MCPotDriver` | `PotDriver` for TLC |
| `PotDriverProofs` | the inductive invariant of `PotDriver` that the next three build on: types, one destroyer, supervision |
| `ContractProofs` | results, running orphans, and the refinement of `TaskContract` |
| `SafetyProofs` | DestroyTask, leaks, mistakes, and the causes of nil pointers |
| `ExitProofs` | the exit code a handle ends up with |
| `Prepare` | `prepareContainer`: the facts each command line makes true of the jail, as operators on a job |
| `CreateContainer` | StartTask command by command: prepare, configuration, start, the way out; implements the StartTask of `PotDriver` |
| `MCCreateContainer` | six jobs for it |
| `CreateProofs` | its inductive invariant and the proofs for any jobs, the refinement of `PotDriver` among them |
| `ExecContract` | what an exec session promises (abstract) |
| `ExecStream` | `runNoTTY` and `runTTY` with all their goroutines; implements `ExecContract` |
| `ExecStreamProofs` | its inductive invariant and the proofs, the refinement among them |
| `Fingerprint` | SetConfig, Shutdown, a Fingerprint call, `handleFingerprint` and its reader |
| `HandleCommands` | TaskStats streams (`handleStats`, `containerStats`) on one handle, beside an ExecTask call |
| `Services` | the two together, and their fairness; `part` chooses the one that works |
| `MCServices` | `Services` for TLC |
| `ServicesProofs` | proofs about it |

`PotDriver` extends `PotHost`: a step that runs a `pot` command changes the host
and the driver together, at the moment the command takes effect. `ExecStream` is
independent of both: an exec session reads a handle and changes nothing of it.
`CreateContainer` extends `PotHost` and `Prepare`, and instantiates `PotDriver` to
say that it refines it. `HandleCommands` has the writers of `syexec.exitCode` of a
handle; what `run()` copies from it, when a statistics command that failed was faster, is
the constant `StatsCode` of `PotDriver` (`RunCode`).

### PotDriver: state and steps

Each variable is a function over task IDs and stands for a field or a program
counter: `procState`, `exitCode` (`exitResult`, `Nil` for the nil pointer),
`calledDestroy`, `store`, `rpc` (StartTask, RecoverTask or DestroyTask under way),
`run`, `wait` (the waiter), `stop` (StopTask), `watch` and `listening` (`handleWait`
and its caller). `asked`, `result`, `destroys`, `hasty`, `mistaken` and `unread` are
history.

A step is what one thread does between two points at which another can see or
change the state. The statements of StartTask up to a `pot` command are one step
with it. The writes of `potWait` and `recoverWait` to the handle, which the code
makes without `stateLock`, are a step each; the critical sections of `run()` are
split, and `StateLockFree` makes the readers that do take the lock wait.

| code | actions |
|---|---|
| StartTask | `StartTask`, `StartProbe`, `StartExists`, `StartCreate`, `StartConfigure`, `StartContainer`, `StartRegister`, `StartCleanup` |
| RecoverTask | `RecoverTask`, `RecoverProbe`, `RecoverRegister`, `RecoverCleanup` |
| DestroyTask | `DestroyTask`, `DestroyDelete` |
| run() | `RunAlloc`, `RunMark`, `RunCode` |
| potWait | `WaitGet`, `WaitReturns`, `WaitMark`, `WaitFail`, `WaitQuery`, `WaitClaim`, `WaitDestroy`, `OrphanReturns` (the handle was deleted: nil dereference) |
| recoverWait | `PollEnds`, `RecoverMark`, `RecoverQuery`, `WaitClaim`, `WaitDestroy` |
| StopTask | `StopTask`, `StopClaim`, `StopDestroy` |
| WaitTask, handleWait | `WaitTask`, `WatchTick`, `WatchSend`, `WatchReturn`, `CancelWait` |
| process | `Crash`, `Panic` (`NoProcess`: a `pot` that cannot be executed), `Restart`, `Shutdown` |

The client is a Nomad agent. A task ID contains the invocation, so it is started
once; StartTask is repeated only when the plugin died before it answered, and
RecoverTask is called only for an ID whose handle the agent has. Calls that launch
or forget a task are made one after the other, StopTask and WaitTask beside them.
After a RecoverTask that returns an error the client gives the ID up: `known` is "gone",
or "refused" if the error came before anybody looked at the jail.

The history variable `hasty` records that the client
destroyed a task before it had its result; `mistaken` that the driver took a live
`pot start` for an ended one: a probe that missed it, a `Cmd.Wait` on a process that is
not a child, or a `recoverWait` that Shutdown has ended; `unread` that last-run-stats gave
no code to a waiter although the program has left one. Properties that must fail then name
them, so that it is visible which way they can fail and that there is no other.

The faults of the environment are switched on by `Faults`:

| fault | what happens |
|---|---|
| `crash` | the plugin is killed at any point |
| `shutdown` | Driver.Shutdown cancels the context |
| `destroy` | `pot destroy` fails and leaves the jail |
| `encode` | SetDriverState fails |
| `lateRun` | `pot start` may end before the scheduler has run `go h.run()` |
| `probe` | pgrep misses a live `pot start` and `pot ls`, `grep` an existing jail: they fail, or their output is not the one line the code expects |
| `stats` | last-run-stats fails or its output is no JSON |
| `decode` | RecoverTask cannot read the handle it is given, or prepareContainer refuses its config |
| `config` | an entry of the job has no colon: prepareContainer panics |
| `fork` | `pot` cannot be executed: startContainer, destroyContainer and last-run-stats panic on a nil `Process` |

`pot prepare`, the configuration commands and the opening of the output writers may
always fail.

### CreateContainer: state and steps

`Prepare` translates an entry of the configuration into a fact about the jail (its
kind, what it is about, a value) instead of a piece of a command line, and keeps what
tells them apart: SplitN keeps what follows a second colon of a copy, Split drops it
for mounts and attributes; a port is exported with the address the environment gives;
arguments without a command are an error, an entry without a colon a panic. `queue` is
what createContainer has left to run. Each command ends in one of three ways: done,
failed (the error goes through `StartCleanup`), or, for the three kinds of commands
whose code only looks at an `ExitError`, not run and only logged (`CommandSkipped`).
`Asked` is the reference: what the parameters and defaults of `README.md` and the syntax
in the comments of `TaskConfig` ask for. The driver passes on less of it, always in the
same two ways, and `Given` is what is left: it names no network for a job that names
neither a network nor a port, although `README.md:111` promises `public-bridge` (it
leaves the choice to `pot prepare`; prepare.go:58), and it drops what
follows a second colon in attributes and mounts, while it keeps it in copies. `cut` records
that a plugin died while the jail was incomplete.

### Fingerprint and HandleCommands: state and steps

`at` and `stat` are the program counters of `handleFingerprint` and of a `handleStats`
goroutine for each call. A send on an unbuffered channel is one step with its reader.
`containerStats` is two steps around the point at which other goroutines see its write
to `code`, the `exitCode` of the handle's `syexec`: `StatCommand` writes it,
`StatCheck` reads it again, and then the output (`json`: is it the JSON of a sample?); a
failed command may print anything. An ExecTask call has a `syexec` of its own (`execCode`).
`waiting` is a command that waits for the end of its stdin, which only comes after
`Cmd.Wait`: such a call does not return, whatever its timeout.

### ExecStream: state and steps

`Tty` selects `runTTY` or `runNoTTY`. Pieces of output are counted, one per Read of
the sending goroutine, so a stream is three counters: written (`made`), waiting in
the OS pipe or pty (`buffer`), sent (`delivered`). `copy` and `copyIn` are the
goroutines that `exec.Cmd` starts for an `io.Reader` or `io.Writer` that is not a
file; `Cmd.Wait` returns only after them, as its documentation says. `CopyWrite` and
`WriteInput` are the rendezvous of an `io.Pipe`. `main` is the function itself.
A step of `SendOutput` is a `stream.Send` together with the release of the lock.
`forced` covers the consecutive Close calls behind `processWait`.

Assumed of the pty: what is buffered is read before the end of file, and a master
closed by its owner fails the next Read with an error that is neither EOF nor EIO.
A Read under way at that moment may still return a piece.

## Runs

| run | instance | shows |
|---|---|---|
| `driver_faults` | all faults but `lateRun`; any client | `TypeOK`; `SingleDestroy`: one `pot destroy` per handle; `Supervised`: a jail behind a handle has somebody left to destroy it; `TruthfulExit`: once the waiter is through, the handle holds the program's exit code, for recovered tasks too, except where that could not be read or is not asked for; `ResultMeansEnded`: no result before `pot start` has ended; `NilHasCause`: waiters meet nil pointers for the named causes only; `KeepsTaskContract` (it implements `TaskContract`); `DestroyRespectsRunning`: DestroyTask without force forgets no live task, unless it was mistaken for an ended one |
| `driver_client` | all faults but a crash and a failing destroy; any client | `NoMistake`: a plugin that has not panicked takes no live task for an ended one, not even with a pgrep that misses it; `ResultMeansEnded`; `NoLeak`: no jail without somebody responsible, also after a failed start; `NoRunningOrphan`: over panics and restarts too, a running jail is given up only by a refused handle, a hasty client, or a mistake |
| `driver_live` | crash, Shutdown; fair | `Reaped`, `StopTakesEffect`, `Reported` |
| `create_container` | crash, probes that miss, commands that fail or cannot be run; six jobs | `TypeOK`; `RunsAsAsked`: a running jail has all its job asks for, as far as the driver passes it on and less what was skipped, unless its creation was cut; `ErrorMeansNoJail`; `ImplementsStartTask` (it implements `PotDriver`) |
| `services` | two statistics streams and an ExecTask, or a fingerprint stream; fair | `TypeOK`; `StaleOnce`, `Follows`, `FingerprintEnds`; `LoneSampleIsOwn`: a stream sends what a failed command has printed only beside another stream; `StreamEndsForCause`, `StatsEnd` |
| `exec_pipes` | no terminal, client may close, leave or misbehave; fair | `TypeOK`, `OneSender`, `ErrorsFit`, `NilMeansComplete`, `KeepsContract` (it implements `ExecContract`), `EndsOnceClosed` |
| `exec_tty` | terminal, client may close stdin or leave; fair | `OutputComplete`: the exit result is behind all output unless the client closed stdin; `Ends` |

Runs that refute what a comment or message of the code says (their properties are
`ResultIsFinal`, `RunningNotDestroyed`, `Reported`, `WaitEnds`, `AllOutput`, in this
order):

| run | says | does |
|---|---|---|
| `early_result` | `driver.go:556` WaitTask waits for completion | a tick between lines 533 and 544 delivers exit code 0 for a failed program |
| `adopted_destroy` | `driver.go:625` a running task cannot be destroyed | a task adopted after a crash is marked exited while it runs, and DestroyTask forgets it |
| `late_run` | `driver.go:556` | `run()` scheduled after `potWait` has marked a short task exited sets it back to running; WaitTask never answers |
| `exec_pipes_hang` | `exec_utils.go:36` processWait blocks until the command terminates | it blocks until the client also ends stdin |
| `exec_tty_loss` | `exec_utils.go:80` all output is awaited | closing stdin closes the pty that output is read from |

The faults of a run are chosen so that its properties can hold: with a failing
`pot destroy` a jail does stay (`Reaped`, `NoLeak`, `NoRunningOrphan`), a crash may leave
one (`NoLeak`), and after a crash the driver may mistake an adopted task (`NoMistake`),
which is what `adopted_destroy` shows; `DestroyRespectsRunning` is what remains of
`RunningNotDestroyed` then: there is no other way to forget a live task. With `lateRun`,
`run()` brings an exited task back to running and may overwrite its code, so that
`Reported` breaks (`late_run`), `KeepsTaskContract` and `TruthfulExit` with it; it is in the
runs of the others. The theorems say for each safety property under which faults it holds;
most hold under all of them.

### Bounds

`PotDriver` needs no bound on steps or counters: `destroys` is bounded by the code,
and crashes and restarts repeat states. One task is enough because tasks share
only the life of the process and `ctx`; every thread that touches a handle is
there, with one StopTask and one WaitTask in flight at a time (a second StopTask
behaves like the first one repeated, which is there; a goroutine `handleWait` whose
caller has left has no effect). One non-zero exit code of a program is told apart from 0,
255 and a code left by a statistics command (`StatsCode`); `driver_live` has none, since
its properties do not look at codes (all ways `pot start` ends are there).

`ExecStream`: `PipeSize` 1 makes the command and the copying goroutines wait for
each other; two pieces per stream (four with a terminal) put one in each place
between command and client; two inputs let handleStdin block in a write after a
first one has gone through. `MaxOut` and `MaxIn` bound the model, not the code; the
safety properties are proved without them.

`CreateContainer`: the six jobs differ in what the code tells apart: no network, the
default for a job with ports, a mode of its own, the host's; every kind of entry, with
two and three parts; no variables and no hosts; an entry without a colon, and
arguments without a command. `services`: two streams are enough for one to overwrite
the other's code between its command and its test; three codes tell success, the
failure of a command and `defaultFailedCode`; `Many` = 2 fingerprints since SetConfig
tell the first, which may be stale, from the rest.

### Fairness

Weak fairness of each goroutine and of each RPC under way: the Go scheduler runs
what can run, and `pot` commands return. `pot start` ends once its jail has ended.
Nothing is assumed of the client, of the program in a jail, of crashes, restarts or
Shutdown; in `ExecStream` nothing of the command, the client or `handleStdin`, which
waits for the client. In `services` the steps that leave a select for a cancelled
context have strong fairness: a tick that is ready at the same time competes with
them each round, and Go chooses at random between the ready cases. A reader that has
not left receives. Liveness properties end in `~up` where a plugin that is dead
owes nothing.

## Proofs

Every safety property that a passing run checks, and every refinement, is a theorem for
every value of the constants. The proofs use no assumption but `HostAssumption`,
`CreateAssumption` and `ExecAssumption`, which say what values the constants have, and
`JobAssumption`: the lists of a configuration are sequences whose entries are sequences
of strings. A theorem about some faults only has the others in its hypothesis.

`PotDriverProofs`, for every set of tasks, every set of exit codes and every
combination of faults:

* `TypeCorrect`: `Spec => []TypeOK`
* `DestroyedOnce`: `Spec => []SingleDestroy`
* `AlwaysSupervised`: `Spec => []Supervised`

Neither property is inductive. `IInv` adds three parts for every task.

* `HandleInv`: without a handle no goroutine, claim or stored entry exists, and a
  call that is building a handle finds none. Hence a new handle never resets the
  flags of one that a waiter or StopTask still holds. Its inductive core is that the
  client asks for a start only with a fresh ID and for a recovery only when the
  store has no entry, and that an entry leaves the store only when the client gives
  the ID up or the plugin dies.
* `ClaimInv`: whoever is about to run `pot destroy` has set `calledDestroy`, is alone
  and finds the count at 0.
* `DutyInv`: a claimed jail is gone, about to be destroyed, or survived a failed
  destroy; a waiter only leaves claimed jails.

Each preservation lemma has one step per action; a death of the plugin (`Crash`, or a
panic of a goroutine) is the lemma `DieInv`, which needs no hypothesis.

`ContractProofs` builds on it:

* `ResultsMeanEnded`: `Spec => []ResultMeansEnded`, for all faults. `MarkInv` ties the
  mark `exited`, and a `handleWait` that is about to send, to a waiter whose wait is
  over, rather than to `procState`, which a late `run()` may set back; `EndInv` says
  that a wait that is over means an ended `pot start`, which is never started again,
  because StartTask works on IDs that have told nothing.
* `NeverGivenUp`: `"destroy" \notin Faults => (Spec => []NoRunningOrphan)`. `KeepInv`:
  a running jail has a live `pot start`, and a client that is not hasty deletes a
  handle only with its result, which by `EndInv` means that it has ended. The error
  returns of RecoverTask are in the model: the one after a probe is a mistake if the jail
  was live, the earlier ones are the "refused" that the property names.
* `Refines`: `"lateRun" \notin Faults => (Spec => KeepsTaskContract)`. `RunInv`: `run()`
  is done before the waiter marks the exit, so the mark is never taken back.
  `ContractEffect` says what each step does to the two variables of the contract.
  With `lateRun` it does not hold (run `late_run`).

`ExecStreamProofs`, for any amount of output and input and any `PipeSize`:
`TypeCorrect`, `SendsExclude` (`OneSender`), `RoomForErrors` (`ErrorsFit`) and
`ReportsComplete` (`OutputComplete`) with and without a terminal, `NilComplete`
(`NilMeansComplete`) and `Refines` (`KeepsContract`) without one. The invariant counts:
`Pieces` says that what the command has written is with the client, in the pipe, in the
copying goroutine or with the sender, unless the stream has failed or the terminal was
closed; `Errors` that errCh holds at most one error for each goroutine that is done
with one; `Phases` what the program counters say of each other. `Told` keeps what was
told complete, also when errors come in after the return.

`SafetyProofs`, on top of the invariants above:

* `ForgetsOnlyEnded`: `Spec => DestroyRespectsRunning`, for all faults. DestroyTask tests
  `procState`; `MarkInv` and `EndInv` say that the mark means an ended `pot start`.
* `NothingLeaks`: `{"crash", "destroy"} \cap Faults = {} => (Spec => []NoLeak)`. `LeakInv`:
  a jail belongs to a StartTask under way or to a handle; `Supervised` does the rest.
* `NeverMistaken`: `"crash" \notin Faults => (Spec => []NoMistake)`. `FInv` describes the
  first plugin process: no RecoverTask gets past its test, every waiter waits for a child
  of its own, and before a start there is no live `pot start` that a probe could miss. So
  the probes that lie, which this theorem allows, have nothing to lie about.
* `NilsHaveCauses`: `Spec => []NilHasCause`, for all faults. A waiter that still has to look
  up its handle finds it, since a client that is not hasty deletes it only with a result,
  which comes from a waiter that is past that point or from a mistake; and a child's waiter
  finds no `exitResult` only while `run()` is still to make it.

`ExitProofs`: `ExitIsTrue`: `"lateRun" \notin Faults => (Spec => []TruthfulExit)`. The
property compares a field of a handle with the history of a jail, possibly two plugin
processes and a recovery later. `ExitInv` has, for a task that nobody stopped, mistook or
gave up: `JailInv` (the jail stays until the exit is dealt with, so that last-run-stats can
be asked; an ended `pot start` has the status of the last run; where the answer was lost,
`unread` says so), `LearnInv` (what potWait
got from `Cmd.Wait`: the truth about a child, nothing about an adopted task, which has no
`exitResult` either) and `CodeInv`, the property. `ExcusedCode` has the two ways a handle
ends up with another code: 255 after a last-run-stats that gave none, and what a statistics
command left before `run()` (handle.go:74) for a child that ended with 0, since nobody asks
for the code of such a child. `LaunchInv` is about every task: who takes
a task over has seen its `pot start`, and StartTask starts none beside a live one.

`CreateProofs`, for any tasks and any jobs: `TypeCorrect`, `JailAsAsked` (`RunsAsAsked`),
`ErrorLeavesNoJail` (`ErrorMeansNoJail`) and `CommandsImplementDriver`
(`ImplementsStartTask`). `Left(q)` is what the commands of a queue will make true; lemmas
say what it is of a concatenation, of a tail and of the commands for a list of entries,
`GivenByCommands` that the command lines of a job and its `Given`, which is derived from
the documentation, are the same facts, and `CommandsOfJob` that what `pot prepare` does and
what is left add up to it. The
invariant `CreateInv` keeps that sum while commands move from `queue` to `applied` or
`skipped` (`AskedInv`), knows from where StartTask came (`CallInv`: it configures a jail it has
made, and starts only where there is one, though a probe that missed may have it try so
beside a live one), and what an error
means (`ErrorInv`). In the refinement a command is a stutter, the last one the
configuration step of `PotDriver`, and each panic a crash of a plugin that was alive.

`ServicesProofs`: `TypeCorrect`; `OneStaleFingerprint` (`StaleOnce`); for any number of
streams `LoneSamplesAreOwn` (`LoneSampleIsOwn`) and the action property
`StreamsEndForCause`. `OwnInv`: as long as no other stream has been opened, the code a
stream is about to test is that of its own command; each nonzero code and each stream that
sleeps has its cause.

Only model-checked: liveness (`Reaped`, `StopTakesEffect`, `Reported`, `EndsOnceClosed`,
`Ends`, `Follows`, `FingerprintEnds`, `StatsEnd`), which is out of reach of the prover with
its `ENABLED`, and the runs that refute something. No model has a recursive definition.

## Not modelled

* SignalTask runs one command on a `syexec` of its own and returns its status;
  InspectTask returns `TaskStatus`, whose state `TaskContract` is about; TaskEvents
  hands out the channel of a library to which the driver never sends. None of them
  changes state of the driver. Nothing calls `taskHandle.shutdown`.
* The timeout of ExecTask: its context is made and not used, and nothing in the
  repository says what should happen.
* Quoting in the command lines, and the order of the keys of a map, which Go leaves
  open.
* The numbers in a statistics sample, the captured output of ExecTask, the wording of
  errors. A panic of `containerStats` when no process can be made at all is a `crash` at
  this point. A `pot start` that is killed by a signal has the status -1 in the code and is
  an "err" like any other here.
* How long opening the output FIFOs of a task may block.
* The go-plugin server around `main`, which is a library's.

## Plan

Done: the life cycle with its faults and its contract, exec sessions with theirs, the
creation of a jail command by command, fingerprints, statistics and ExecTask, and a proof
of every safety property and refinement that the runs check.

Left: `HandleCommands` over the handle of `PotDriver` in the place of `StatsCode`, so that a
failing statistics command reaches a WaitTask step by step, with the proof that it
implements both.

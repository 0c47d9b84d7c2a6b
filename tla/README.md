# offckb in TLA+

offckb is a command-line tool that runs a local CKB development chain: it starts
and supervises the CKB node, its miner, an RPC proxy and optional Fiber nodes
(FNNs), in the foreground or as daemons, and manages the directory they live
in.  There is no server and no database: *the state the commands share is made
of files, pids and ports*, and any two commands can run at the same time.  That
is where the program is hard, and what this project models.

Paths such as `src/src/cmd/node.ts` name files of the repository.

## Inventory

| Component | Source | State | Operations | Hard behaviour | What makes it correct |
|---|---|---|---|---|---|
| Environment lock | `fiber/env-lock.ts` | the lock file; `heldLocks` | `acquireEnvLock`, `releaseEnvLock` | commands race on one path; holders crash; pids are reused | one holder; a lock is broken only when its holder is dead; leftovers never block |
| Daemon PID file | `util/daemon.ts` | `daemon.pid` | `readPidFile`, `reservePidFile`, `writePidFile`, `cleanupPidFile`, `verifyDaemonIdentity` | create, fill, rewrite and unlink by path are separate steps | the file of a running daemon is found and is its own |
| Node daemon | `cmd/node.ts` `startDaemon`, `failDaemonStartup`, `stopNode` | PID file, detached manager, RPC and proxy ports | start, fail, stop | launchers and stoppers share no lock; launchers are killed; SIGTERM/SIGKILL time limits; other nodes answer on the port | no second daemon; a stop that succeeds has ended it or sent SIGKILL; a start that fails leaves nothing, or says so; every command ends |
| Node supervisor | `cmd/node.ts` `runNodeDevnet`; `fiber/manager.ts`; `util/shutdown.ts` | child processes, signal and exit handlers, the shared shutdown promise, `runtime.json` | startup flow, `runShutdownOnce`, `stopFiberNodes`, signal handlers | exit events, signals and broken pipes in any order with the flow | the components stand and fall as one service; no orphan, no record left behind |
| Fiber environment | `cmd/fiber.ts`, `fiber/daemon.ts`, `fiber/clean.ts`, `cmd/clean.ts`, `fiber/runtime.ts`, `fiber/store-lock.ts` | environment lock, fiber PID file, `runtime.json`, FNN stores | `fiber start`, `fiber start --daemon`, `fiber stop`, `clean`, `fiber clean` | managers killed while they start; records checked before a prompt and used after it | a running FNN never loses its store; only a manager that is gone loses its records |
| Devnet fork | `devnet/fork.ts`, `util/fork-safety.ts`, `cmd/node.ts` (first run) | the devnet directory, `fork.json` | `forkDevnet`, `clearForkFirstRunWhenNodeUp`, `validateMainnetForkSigning` | destructive replace, roll-back, crash half way, flags cleared by the wrong node, a boundary that is stale when used | no half-forked devnet; the first run happens with its flags; no copied cell is spent; a fork has no peers |
| Log streaming | `devnet/log-subscription.ts`, `devnet/log-file.ts`, `cmd/logs.ts` | socket, retry timer; offset, partial line, inode | subscribe, retry, close; tail, follow | late errors, close during retry; rotation, truncation between polls, short reads | at most one report, none after close; no line lost, torn or twice |
| Proxy events | `tools/rpc-proxy.ts`, `tools/proxy-events.ts` | `proxy.log`, its archive, the cached size | `event`, rollover | renames fail half way, crashes, the directory is removed | events keep their order, none between others is lost, the archive survives |
| Config editor | `devnet/config-editor.ts`, `cmd/devnet-config.ts`, `tui/*` | two documents, the dialog, the dirty flag | edit, add, insert, move, delete, select, `--set`, quit, save | long sequences of dialogs; two files saved one after the other, over what others wrote | what is saved is valid; no edit is dropped without asking |
| Chain initialisation | `node/init-chain.ts` | the devnet directory | `initChainIfNeeded`, `migrateLegacyDevnetRpcConfig` | crash half way, older configurations, older binaries | what is missing is repaired; what the user has is kept, where the text is one that the migration understands |
| Installation | `node/install.ts`, `fiber/install.ts`, `tools/ckb-debugger-install.ts`, `tools/ckb-tui.ts` | archives, install paths, backups, the shim | check, download, verify, unpack, publish, restore | two installers at once, copies across file systems, kills | no half or unverified binary is taken for installed; the user's files are kept |
| Fiber configuration | `fiber/nodes-yml.ts`, `fiber/accounts.ts`, `fiber/config-gen.ts` | `nodes.yml`, keys | ensure, generate | growth and repair of the node list | ids, ports and accounts stay distinct |
| Deployment | `deploy/*`, `cmd/deploy.ts` | code cells, migration records, `scripts.json` | deploy, upgrade, record | a run that fails half way, a crash between two records, a new chain, a clock set back | an upgrade keeps its type id and consumes its own cell |
| UDT commands | `sdk/ckb.ts`, `cmd/udt.ts` | the cells of a token | issue, transfer, destroy, balance | commands that select the same cells; limits of scans and amounts | tokens are conserved; reported balances are true |
| Templates, debugger, settings, command line, plain CKB transfers | `templates/*`, `cmd/*`, `cfg/*`, `cli.ts`, `sdk/ckb.ts` | none of their own, or configuration | | | not modelled: external libraries, text generation, printing |

How they interact: every command that mutates the Fiber side of the environment
takes the environment lock; `node --daemon`, `node stop` and `fiber start
--daemon` do **not**, they coordinate through PID files alone.  A manager keeps
its FNNs visible to others through `runtime.json`, which others trust only while
the manager's pid is alive.  `node stop`, `fiber stop` and the clean commands
decide from these records whom they may signal and what they may delete.
`node`, `devnet fork` and `devnet config` share the devnet directory with no lock
at all: `devnet fork` looks once for a running devnet, the others do not look.
The proxy inside a manager writes a log that `logs` follows from another
process.  Installers, deployments and token commands share a path, a chain and
the records beside it with others of their kind.

## Modules

| Module | What it is |
|---|---|
| `TryLock` | abstract: what a non-blocking lock with crashing holders promises |
| `EnvLock` | `env-lock.ts`, one step per file-system call |
| `EnvLockProofs` | theorems about `EnvLock` |
| `PidFile` | the PID file of a daemon and the operations on it |
| `NodeDaemon` | `node --daemon` and `node stop`: launchers, stoppers, managers, pids, the RPC port |
| `NodeDaemonProofs` | theorems about `NodeDaemon` |
| `NodeSupervisor` | one manager, its children, its event loop |
| `NodeSupervisorProofs` | theorems about `NodeSupervisor` |
| `FiberEnv` | the Fiber commands between processes, on the lock `TryLock` |
| `FiberEnvProofs` | theorems about `FiberEnv` |
| `DevnetFiles` | the files of the devnet directory and the operators of `init-chain.ts` and `fork.ts` on them |
| `FirstRun` | `offckb node` on that directory: initialisation, the first run of a fork |
| `ForkDevnet` | `devnet fork`, and the commands that sign on a fork |
| `ConfigEditor` | the operations of `DevnetConfigEditor` on its documents, as operators |
| `ConfigTui` | a session of `devnet config`: dialogs, `--set`, quit, save |
| `DevnetDir` | `FirstRun`, `ForkDevnet` and `ConfigTui` on one directory |
| `DevnetDirProofs` | theorems about `DevnetDir` |
| `LogSubscription` | the client of CKB's log subscription |
| `ProxyLog` | the proxy's event log with its rollover |
| `LogFollow` | `logs --follow`, the reader of that log |
| `StreamProofs` | proofs about `LogSubscription`, `ProxyLog` and `LogFollow` |
| `ToolInstall` | the installers of `ckb-debugger` and `ckb-tui` |
| `PackageInstall` | the installation of a CKB and of an FNN release |
| `InstallProofs` | proofs about `ToolInstall` and `PackageInstall` |
| `Deployment` | `deploy`: code cells and migration records |
| `UdtCells` | the UDT commands on the cells of a token |
| `Companions` | the last seven machines in one specification |
| `CompanionsProofs` | proofs about `Deployment` and `UdtCells`, and the theorems about `Companions` |
| `MC*` | instances for TLC |

### EnvLock

`pc[p]` is the place of command `p` in `acquireEnvLock` or `releaseEnvLock`;
`lockFile` is the inode at the path, named by the command that created it;
`recorded` holds the inodes whose content is a readable record.  A write goes
through a descriptor, so it may reach an inode that is no longer at the path.
`pidLive` is what `kill(pid, 0)` finds: a pid stays live when another process
gets it (`RecyclePid`).  Every call can fail where the code has a path for it.

* `MutualExclusion` is what the comment on `acquireEnvLock` says, and it does
  not hold (`env_lock_exclusion`): the file exists before its record, and a file
  without a record is taken for a leftover.
* `ExclusiveUnlessStolen` says precisely when it fails: two owners at a time
  only after an acquirer removed the file of a live owner.
* `SerialUseIsExclusive`: no such theft, and exclusion, while acquisitions do
  not overlap; then the file implements `TryLock` (`TryLockPromise`).
* `LeftoverNeedsCrash`, `LostNeedsRace`: leftovers and lost acquisitions have
  the causes the code intends; `AcquireEnds`: nobody waits.

Bounds: three commands, each of which acquires once.  Three are needed for the
double break of one stale lock (a leftover's owner and two breakers).

### NodeDaemon

One daemon per launcher.  A manager is *booting* (its exit handlers are not
installed), *serving*, *stopping* (before `runShutdownOnce` unlinks the PID
file), *ending*, or *killed*: sent SIGKILL, so that it runs no code any more, but
not removed by the kernel yet, with its pid and ports.  `Terminated` is what a
signal to the process group does in each.  `otherNode` is a node that answers on the ports without a manager.  The
identity check passes only for a live manager of ours and may fail even then
(it fails closed).  A failing start waits for the end of a killed manager, and
keeps the PID file if it does not come (`AbortConfirms`); `stopNode` does not
wait (`StopKills`), so `StopEndsManager` says of a stop that succeeds that the
manager is dead *or killed*, and that no PID file names it again.  The history variables `overlapped` and `mishap` mark the
runs in which two commands were at work at once, a launcher was killed or a
manager was not recognised; the `Quiet...` properties are about the others.
`RunningDaemonRecorded` without `Quiet` is false: two launchers that judge the
same stale file remove each other's reservation, and a stopper removes whatever
is at the path when its wait is over.  No document promises more, so it is
recorded here and as a hazard, not as a finding.

Bounds: two launchers and one stopper for safety, one and one for liveness; one
pid is reused at a time.  Fairness: a command that runs goes on, and its waits
have time limits; a manager comes up or gives up.  Nothing is assumed of
crashes, foreign nodes, or of when commands are started.

### NodeSupervisor

A step is one turn of the manager's event loop, or something a child or the
user does between two turns.  A dead child is in `unseen` until its exit event
is dispatched; what the event does depends on the handlers installed then.
`stops[w]` are the calls of `stopFiberNodes` by the startup flow, by the
startup signal handler and by the shared shutdown.  Fairness: the event loop
runs, waits have time limits, a child that got SIGTERM ends (or is killed after
the grace period, where the code does so).

`FailureEndsService` and `CleanExit` say that a failure that is *seen* ends the
service cleanly.  One failure is excepted: when the first write of
`runtime.json` fails, nothing stops the FNNs that were just spawned
(`RuntimeWriteFails`); CKB and the miner are signalled, and the manager stays
for as long as the FNNs that it has forgotten (`FnnsForgotten`).  `NoHalfDeadService`, the comment in the code, says it of every
failure, and does not hold with `--fiber` (`node_supervisor_halfdead`): the exit
handlers are installed after the Fiber startup, which may take minutes.

Bounds: two FNNs (one for the violation).  There is no other bound.

### FiberEnv

The commands `fiber start`, `fiber start --daemon`, `node --fiber`, `fiber stop`,
`clean` and `fiber clean` as processes.  `mpc`, `lpc`, `spc` and `cpc` say where
a manager, a launcher, a stop and a clean are; `fnn[m]` stands for all FNNs of
the manager `m`: *spawned*, *open* (the store is open, its lock held, the ports
bound) or *dead*.  `runtime` is `runtime.json`, `phase` the environment lock.
A manager without a launcher is a foreground `fiber start` or a `node --fiber`,
which may be a daemon of its own (`nodeDaemon`).

`Signalled` is what SIGTERM does to a manager: without a handler it ends; with
one the signal is `pending` until the event loop sees it; a signal that is
pending when the handlers of the startup are removed is lost; a second one ends
the teardown, as the handlers are installed with `once`.  The eleven minutes in
which a "starting" record is left alone are over when its launcher is no longer
at work.

* `ManagedStoreKept`: the doc of `assertFiberFullyStopped` says that a running
  FNN never watches its store disappear.  It holds unless the manager was
  killed, or could not write its record, before its FNN had opened the store:
  then neither the record, nor the PID file, nor the store lock shows the FNN.
* `OneEnvironment`: two sets of FNNs live together only after such a death.
* `SupervisorRecorded`: a manager that supervises is named in `runtime.json`,
  unless a stop removed the file by path (`lost`).
* `StoppedIsDead`: a stop that succeeds has confirmed that its manager is gone.
* `FailedStartIsKnown`: a failed daemon start leaves nothing unknown.  A start
  fails in three ways: it undoes itself (*failed*); it says that its manager is
  still running (*preserved*); or the last write of the PID file throws, outside
  the `try` that would undo the start (*broken*, `daemon.ts:151`), and manager and
  FNNs live on.  In every case a manager that supervises is named by
  `runtime.json`, where `fiber stop` and the clean commands look, unless `lost`.
* `FailureStopsFnns` is the comment on `startFiberEnvironment`, and does not
  hold (`fiber_env_failure`): the first write of `runtime.json` stands outside
  the `try` that stops the FNNs.  A `fiber start` that fails there does not even
  end, as the FNNs keep its event loop alive; it is at *stray*, without handlers.

The second check of `fiber clean`, after its prompt, is in the model; with the
lock held over the prompt it never finds anything that the first did not, but
for what happens outside the lock: the launcher of a daemon.

Bounds: one command of each kind, of which at most `MaxCommands` = 3 are begun;
with three commands every pair of them meets in the presence of a third.  The
FNNs of one manager are one, so the order in which they die is left to
`NodeSupervisor`.  A store that was removed under an open FNN still counts as
held; the code would not see its lock file any more.  Every wait in these
commands has a time limit and no command waits for the lock, so each ends step
by step; liveness is not stated for this module.

### DevnetDir

`dir` is the devnet directory: the two TOML files, reduced to the keys that the
program reads, repairs or validates; the spec (*bundled*, *imported* by `ckb
init`, or *patched*); the chain (`data`, and `stored`, the spec in its
database); `fork.json`.  `Missing` and `Broken` stand for a file or key that is
not there and a file that does not parse.

* `FirstRun`: `boot` goes through `initChainIfNeeded` a file at a time, with the
  migration's read and write of `ckb.toml` as two steps and files that a crash
  leaves cut off, because they are written in place; then the
  refusal of an old binary, the spawn with the first-run flags, the wait for an
  answer, the two questions of `clearForkFirstRunWhenNodeUp`, and the miner.
  `other` is a node of the same or of a different chain on the RPC port.
  Signals and exit handlers are left to `NodeSupervisor`.
* `ForkDevnet`: `fork` goes from the preflight, whose answers are free, to
  `writeForkState`; its check, the removal and the copy are steps of their own, so
  that a node may open its database in between, under the copy (*mixed*) or before
  the removal.  Every step after the removal may fail, which rolls back, or
  be killed, which does not.  `sign` is a command that reads the boundary and
  sends later.
* `ConfigEditor` is a library of pure operators: an operation returns the set of
  documents it may lead to, empty when it throws.  `ConfigTui` is the session
  around them: one dialog at a time, answers, the dirty flag, the save of two
  files, and `--set`.

The commands take no lock, so `gaps` records what their guards did not cover, and
each property names the gaps it excepts, in its comment and in its formula:
*unlisted* (the owner of a port cannot be determined), *crash* (a command was
killed half way), *overlap* (a fork ran beside a node that its check did not
see), *stale* (what a command had read was replaced before it was used), *peers* (the
user saved a change of the network keys), *misfit* (a start migrated a
`ckb.toml` that the migration is not made for), *torn* (a file was cut off by a
crash).  A gap is noted by the step that makes it, not by the state that may lead
to it, and every exception is needed: without any one of them TLC finds the
property violated on the same instance.

The editor lists every key, so it reaches the ones that isolate a fork
(`network.bootnodes`, `whitelist_only`, `max_outbound_peers`; together the path
`<<"isolated">>`), and `validateBeforeSave` checks none of them.  `ForkIsolated`
therefore speaks of what boots, migrations and other edits do to a fork.  The
session that saves such a change notes *peers*.

* `ForkAllOrNothing`, `FirstRunFlagged`, `SignedInputsLocal`, `ForkIsolated`:
  what a fork promises over any number of steps of the others.
* `BootRepairs`: what is there when CKB is spawned.
* `ConfigStaysValid`, `EditsTracked`: no sequence of edits, saves, migrations and
  forks makes a valid configuration invalid, and none drops edits unasked.  Valid
  (`ValidCkb`) is what CKB takes; an empty `rpc.modules` is among it, and only the
  editor refuses it.

Three things that the model shows of the code, and that no property promises away:

* The migration edits the text of `ckb.toml`, not its values, so the model keeps
  of the text what the patches depend on: `layout` is *plain*, *tail* (the list of
  modules ends in a comma on its one line; or, in several lines, its last entry has no
  comma and a comment behind it or stands on the first line) or *bracket*
  (there is a `]` in a comment within the list), and `tcp` may be *odd* (no text, or an
  empty one).  `addTerminalModule` appends `, "Terminal"` to an empty
  list or to a *tail*, and `enableTcpListenAddress` adds a second
  `tcp_listen_address` to an *odd* one and a line in the middle of a *bracket*;
  each makes a file that is no TOML, and the next start of CKB fails, although the
  comment of the migration says that a start must never break over it.  All
  of these are valid TOML before (*misfit*).  A
  save of the editor writes the parsed document, which is *plain* again (`Parsed`).
* `stopNode` and `fiber stop` differ: only the second makes sure of its SIGKILL.
* The key handler of `s` does not catch what `save()` throws, so a session with
  invalid documents ends with its edits (`SaveAndExit`, *threw*).

Bounds: the commands of a behaviour, `actors`, are chosen at its start - each
alone, and the pairs and triples that meet in the code - on the directories
that matter to them, `InitialDirs`.  Two boots (a second one after a crash or a
fork), one fork (two beside an editor, so that a stale save meets a newer fork),
one session with three edits alone and one beside others; chains of three
blocks, which tell copied, boundary and own cells apart; arrays of two items.

### Companions

Seven machines that share no state with the rest, or only a directory that they
find or do not find.  `part` is the one that moves, so a run explores the sum
and not the product of their states; `ProxyLog` and `LogFollow` move together.

* `LogSubscription`: the callbacks of connections (*connecting*, *open*,
  *broken*, *destroyed*, *gone*), the retry timer and `close()`.  An error that
  was queued before `destroy()` still comes.  `GivesUpOnce`: reported once, never
  after success or close, and never forgotten before.  Bound: three attempts.
* `ProxyLog`: the events of a request or response body, and a rollover as six
  file-system calls, with failing renames and appends, crashes, and a directory
  that is removed under it.  `EventsKept`: what the files hold is an unbroken end
  of what was appended, and the archive is dropped only when it was replaced -
  unless it was left at `.1.bak`, by a crash or a restore that failed (*stranded*).
* `LogFollow`: `fs.watchFile` and its callback, bytes within lines, short reads.
  A new file may get the inode of a removed one.  `ShownOnce` excepts a file that
  is replaced between a stat and its use (`raced`), which the program cannot see.
  Bounds of both: lines of two bytes, files of two lines, six events (three
  generations of the file, and a rollover after a crash in one), two faults, four
  inodes.
* `ToolInstall`: `publishExtractedBinary` and the way back, by two processes,
  with and without a rename across file systems, over nothing, a directory of
  the user's, an older binary or a foreign one.  `ToolsWhole` says that no
  partial copy is ever at the install path, that the directory is never deleted,
  that `ckb-tui` keeps a previous binary, and that a foreign shim is left alone.
  That a failed install restores the directory is not among them: another
  installer may have published meanwhile, and then it stays aside.  Bound: two
  failing calls, kills or repeated runs.
* `PackageInstall`: the trees of CKB and FNN releases; CKB's archive and its
  unpacked files have one name for all processes.  `PackagesUsable` speaks of
  commands that do not install at once, and excepts a corrupted CKB archive,
  which has no digest.  Bounds: two processes, three installs, two kills.
* `Deployment`: the transaction of each binary, its commit, then the records.
  `UpgradeKeepsTypeId` is unconditional for what a cell replaces (`Lineage`); that
  one cell of a contract is live and newest in the records excepts contracts with
  an unrecorded or a plain cell, a clock set back and, for `scripts.json`, a crash
  and a new chain.  Bounds: two binaries, two keys, three transactions in
  three runs.
* `UdtCells`: cells of SUDT and XUDT, commands that read, build and send later, a
  chain that accepts only live inputs and covered outputs.  `TokensConserved`
  compares cells and reported balances with what the successful commands add up
  to.  The inputs of a transfer are what the library collects: the cells up to the
  one that reaches the amount, or one more.  Bounds: two owners, two commands at once, three in all, amounts up to two
  (`MaxAmount` stands for 2^128 - 1, so a change can overflow), two input and two
  scanned cells, three initial sets of cells.

No liveness is stated for these: the retries are finite, and everything else is
a command that ends when its calls do.

## Runs

| Run | Shows |
|---|---|
| `env_lock` | safety and termination of the lock for three commands with crashes at every step |
| `env_lock_serial` | the lock file implements `TryLock` while acquisitions do not overlap |
| `env_lock_exclusion` | counterexample to mutual exclusion |
| `node_daemon` | safety of start and stop, two launchers and a stopper |
| `node_daemon_live` | every start and stop ends; "starting" ends unless the launcher was killed |
| `node_daemon_starting` | counterexample: "starting" for ever |
| `node_supervisor` | safety and liveness of one manager |
| `node_supervisor_halfdead` | counterexample: a dead component goes unnoticed |
| `fiber_env` | safety of the Fiber commands, any three of four together |
| `fiber_env_failure` | counterexample: a failed startup leaves its FNNs |
| `devnet_dir` | safety of the commands that share the devnet directory |
| `companions` | safety of the streams, the installers, the deployments and the tokens |

Deadlock is not checked: commands end, and then nothing happens.

## Proofs

`EnvLockProofs` proves for any set of commands, from `NoneAssumption` alone:

* `TypeCorrect`, `ExclusionUnlessStolen`, `LeftoverLocks`, `TwoAttemptsSuffice`,
  `SerialExclusion`: the safety invariants of the runs;
* `SerialImplementsTryLock`: `SerialSpec => TryLockPromise`.

The inductive invariant ties the program counter to the file: a command that
owns the lock created the inode it owns, the path leads to that inode unless
`stolen`, a record exists exactly for the owners past the write, and a live
owner's pid is live.  It is needed because exclusion by itself says nothing
about a command between its probe and its unlink.  Without overlapping
acquisitions, the command that probes is alone, so what it read is still true
when it unlinks; that is the serial part of the invariant, and what the
refinement proof uses for each step.

`NodeDaemonProofs` proves for any launchers and stoppers, from `PidAssumption`
(the pids of this session are told apart from an older one's):

* `DaemonTyped`, `StopKeepsPromise`, `FailedStartIsClean`: type correctness and
  the promises of a stop that succeeds (`StopEndsManager`) and of a start that
  fails.  `Lifecycle` says that a pid that a record, a stopper or a launcher holds
  is one of a manager that was spawned, and that only the pid of a dead manager is
  reused; `Established` says what a command has seen when it cleans up, that a
  dead manager stays dead and a killed one never runs again.
* `QuietFileKept`, `QuietNoDuplicate`, `QuietAnswerIsOwn`: the PID file, the
  single daemon and the readiness answer while one command is at work at a time.
  `QuietInv` makes this inductive: there is one worker (`SingleWorker`), the
  file names every manager that may yet serve (`ManagersRecorded`), and what the
  worker has read of the file is still so (`LaunchersKnow`, `StoppersKnow`); a
  record that it judged stale is stale when it removes the file.

`NodeSupervisorProofs` proves for any set of FNNs, from `FnnsAssumption` (the
FNNs are not named like the other components):

* `SupervisorTyped`, `ExitIsClean`, `CleanupIsAwaited`, `TeardownSurvivesPipe`.
  The invariant `Structure` says what exists before the FNNs are started
  (`BeforeFnns`), at which stage each teardown may run (`TeardownStages`), and
  what the shared one has done: nothing is left without its SIGTERM once it has
  begun, and no record and no FNN when it is done (`TeardownWork`).  The lemma
  `SharedTeardown` says what a call of `runShutdownOnce` changes, whoever makes
  it and whether or not it is the first.

`FiberEnvProofs` proves for any number of daemons, foreground starts, stops and
cleans, and any `MaxCommands`, from `CommandAssumption` (a process runs one
command, and no process is called like a marker):

* `FiberTyped`, `StopIsConfirmed`, `FailedStartLeavesARecord`, `SupervisorIsNamed`,
  `CleanSparesStores`, `EnvironmentIsSingle`: every safety invariant of the run.

`EnvInv` begins with the lock: a command that works holds it, a manager from its
preparation until it supervises (`Holding`).  `FnnsFollow`, `TargetsKnown` and
`ChildKnown` tie the FNNs, the target of a stop and the child of a launcher to
where their command is.  The rest is about facts that are *read and used later*.
A command that found `runtime.json` stale and still holds the lock knows that
whoever supervises lost its record (`StaleSeen`), because nobody can have begun to
supervise since; so a manager that supervises is named or `lost` (`Named`), and two
are never both named.  A clean that has looked for open stores knows that those it
finds later belong to managers that nothing leads to (`StoresSeen`).  None of the
three is implied by the lock alone: managers go on after they release it.

`DevnetDirProofs` proves for any `actors`, any directories to start from that are
the user's or a completed fork's, any number of boots, forks and sessions and any
length of the chain: `DirTyped`, `ForkIsAllOrNothing`, `FlagsStay`,
`NoCopiedInput`, `ForkHasNoPeers`, `BootKeepsAndRepairs`, `ConfigValid` and
`EditsAreTracked`, all invariants of the run.  The assumptions are
`MarkerAssumption` (*missing* and *broken* are no contents of a file),
`TipAssumption` (a chain has room for a genesis block and one of each side) and
`FoundAssumption`, which says what a directory may be before the first command:
nothing, files that the template or the user wrote and that CKB takes, in any
layout, or a fork that was completed; anything less orderly is reached from there by a crash.

`DirInv` holds up to the gaps that a behaviour has noted, as the properties do.
While no fork has met a starting node (`Beside`), a fork is alone with the directory
from its removal to its record, and each step knows what the steps before it have
left (`Progress`).  A node that has answered has put its own spec into the database
(`Flagged`); the boundary that is recorded is not below what was copied, and what a
signing command has read of it is still so (`Bounded`); what the node and the editor
have read of `ckb.toml` and will write back has no peers, keeps what the user has and
is valid (`Isolated`, `Repaired`, `ValidFiles`, `ValidDocs`); and the dialogs know that
edits make the session dirty (`Session`).  The lemmas before it say what each operation of
the editor returns, so that the steps need not open them again.

`StreamProofs` and `InstallProofs` hold the invariants of the parts of `Companions`;
`CompanionsProofs` has those of `Deployment` and `UdtCells` and puts them together: a step of a part
is a step or a stutter of each other part (`StepOfParts`), the proxy's log and its
follower apart, whose invariants are proved side by side (`PartsInv`).

* `SubscriptionGivesUpOnce` (`StreamProofs`), for any number of attempts, from
  `MaxAttemptsAssumption`.  `GivesUpOnce` says little of a single connection.
  `SubInv` adds that only the connection of the last attempt can be at work, and
  that it is then the current one, with no retry pending (`OneAtWork`); that attempts
  to come have no connection and only `close()` destroys one (`ConnsOrdered`); and
  that a pending retry means that an attempt is left (`TimerMeansRetry`).
* `ProxyEventsAreKept`, for any cap, length of a line and number of events and faults,
  from `SizeAssumption` (a line has at least its newline).  `LogInv`: the lines ascend
  through archive and log (`Ascending`), they are the end of what was written and what
  is queued is newer (`Unbroken`), and each step of a rollover knows which files are
  there (`Rolling`).
* `FollowerShowsOnce`, for any `--tail` (`TailAssumption`: the option is a count), and
  any read that returns fewer bytes than asked for.  A file is known by its first
  line, which no later file has (`Seen`), although its inode number may come back; a stat
  stays true of the file it is of (`StatsTrue`); and of the followed file the lines up to
  the offset were shown, those after it are newer than all that were (`FollowsFile`).
  The last one carries the proof: "no line twice" alone does not say what a read shows.
* `ToolsStayWhole` (`InstallProofs`), for any installers and any number of faults, with
  no assumption.  The user's directory is at one place, the install path or one
  backup (`OnePlace`).  A process that is about to publish or rename holds a whole
  binary, which it downloaded or staged (`Holds`).  Where there was no directory,
  nobody moves anything aside (`OnlyForDirectories`), so `ckb-tui` replaces a previous
  binary by a rename alone; and what removes a broken binary is the debugger, which
  never removes a directory.
* `InstallsStaySafe`: `ToolsWhole` and `PackagesUsable`, for any processes, installs and
  kills.  An FNN is unpacked only once verified (`Verified`), and a command that installs
  alone leaves behind each step what the next one starts from (`Left`, `Alone`).
* `UpgradesKeepTypeIds`, for any binaries, keys and number of runs, from
  `BinariesAssumption` (the files of one folder have different names, which is where
  `listBinaryFilesInFolder` takes them from).  `DeployInv`: a record names a cell of its
  contract with its type id, and the newest record can be told (`RecordsTrue`); the
  run at work has sent the last cells and recorded none of them (`RunKnows`); only a new
  chain erases cells (`Chained`); so the newest record of a contract is of its one cell
  (`OneCell`), and `scripts.json` names no cell that was replaced (`ScriptsKnown`).
* `TokensAreConserved`, for any owners, processes, amounts and limits on cells, from
  `IssuerAssumption` (the issuer is an owner), `LimitsAssumption` (amounts and scans have
  a limit) and `CellsAssumption` (what was there before are cells).  `HoldingsTrue`
  alone is not inductive: it says nothing of what is about to be sent.  `UdtInv` adds that
  the inputs of a pending transaction are cells of its kind and sender, or spent by now,
  and that its outputs balance them as long as all are live (`TxKnows`, `Balanced`); a
  commit then moves what was booked (`BookedIsPaid`), and nothing if an input is gone.
  The sums are the library's folds over sets.  What such a fold is for every finite set
  (`SumsAdd`, `SumMinus`) is proved without its induction theorems, from the least
  cardinality at which it would fail (`LeastNatural`).

The bounds of the runs on numbers of commands, faults and events (`MaxCommands`,
`MaxFaults`, `MaxEvents` and the like) are constants of the modules, guards that only
stop a behaviour earlier; no theorem assumes anything of them but, where stated, that
they are numbers.

Left to TLC:

* liveness and `ENABLED`, which are out of the prover's reach: `AcquireEnds`,
  `CommandsEnd` and their like in the runs of the lock, the daemon and the supervisor;
* the four counterexamples, which are behaviours and not theorems.

## Plan

Done: every component with a protocol of its own, as listed above; every safety
invariant of the passing runs is a theorem.  Next, in this order:

1. Action properties beside the invariants, from the same inductive invariants: what a
   replaced code cell and a record of `Deployment` may become, what a boot may change of
   a fork.
2. The lock of the file system under `FiberEnv`: `SerialSpec` in place of `TryLock`, so
   that what overlapping acquisitions do to the Fiber commands is stated as well.

## Not modelled

* Drawing, navigation, search and help of the configuration editor: they change
  no document.
* `nodes.yml`, the keys and the generated configuration of the FNNs: written
  under the environment lock by one command, and parsed again before each use.
* Transfers and deposits of plain CKB, capacity, fees and signatures: built and
  balanced by an external library, with no state of the program's own.
* `settings.json`: read with defaults, written whole by one command.
* Project templates, the debugger's wrappers, system-script tables, conversions
  to JSON and TOML, command-line parsing, printing: text.
* Filters of `logs`, which select lines; `deployment.toml`, which is written only.
* Windows paths of the same operations, where they differ.
* A pid that is used again within the 30 s tolerance of the identity check by
  another command of this program: the model lets a reused pid fail the check.

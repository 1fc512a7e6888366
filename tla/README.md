# A TLA+ development for Electrosphere

Electrosphere is a daemon that gives a harness short-lived runtimes (Docker
containers or Firecracker microVMs) and keeps the workspace of a *durable*
thread as a chain of content-addressed commits. This directory models the parts
of it whose correctness depends on the order of events, checks small instances
with TLC and proves the invariants behind them with TLAPS. Paths below are
relative to the repository root; `turn-service.ts` stands for
`src/domain/turn-service.ts`, and so on.

## 1. Inventory

| component | state it keeps | operations | talks to |
|---|---|---|---|
| TurnService (`domain/turn-service.ts`) | lease map and counts, lease waiters, start and finish promises, `closing` | `start`, `acquire`/`release`, `finish`, `failTurn`, `fork`, `close` | Repository rows, SandboxService, SessionManager |
| SandboxService (`domain/sandbox-service.ts`) | none but the canonical empty commit | `createTurnRuntime`, `commitTurnRuntime`, `deleteTurnRuntime`, `ensureThreadWorkspace`, `getTurnHandle`, `close` | Repository, backends, CFS store |
| SessionManager (`domain/session-manager.ts`) | session map, closing instances, one queue per session | `exec`, `poll`, `write`, `kill`, `abandon`, `reap`, `reapExpired`, `closeInstance`, `close` | backends, instance rows |
| RecoveryManager (`domain/recovery.ts`) | none | `recover`, `gc`, `cleanupFinishedTurnRuntimes` | Repository, backends, object files |
| Repository (`storage/repository.ts`, `schema.ts`) | SQLite rows: turns, instances, operations, workspaces, refs, commits, trees, artifacts | one method per query, `publishTurnCommit` and `createThreadFork` in transactions | - |
| CFS store (`storage/cfs.ts`) | immutable tree files named by digest | `exportCfs`, `ingestCfs`, `materializeCfs` | file system |
| Artifact store (`storage/artifacts.ts`, `tar.ts`) | artifact files named by digest, grants | `putStream`, `resolve`, `open`, import and export | Repository |
| Docker and Firecracker backends (`backends/`) | transports, machines and executions in memory | `create`, `exec`, `poll`, `write`, `kill`, file calls, `snapshot`, `destroy` | Docker API, hypervisor, guest agent |
| Agent channel (`backends/agent-transport.ts`, `agent-protocol.ts`) | queue of pending responses, partly written frame | `request`, `push`, `fail`, `close` | guest agent |
| Guest agent (`agent/src/main.rs`, `file_ops.rs`, `cfs.rs`) | executions, output rings, open transfers | one handler per request | processes and files of the guest |
| MCP server and HTTP gate (`mcp/server.ts`, `daemon/http.ts`) | the lease of a request | tools, turn routes, health | everything above |
| Daemon (`daemon/index.ts`) | `stopping` | start, `stop` | everything above |

How they interact. A harness calls `start`, sends tool calls to `/mcp` and calls
`finish`. TypeScript code runs on one thread, so what interleaves are the
stretches between two `await`s of the handlers: `start` awaits the backend,
`finish` awaits the release of every lease, the end of every session, the
snapshot and the destruction of the runtime, and `stop` awaits all of these.
Handlers share the rows of the database and the maps of TurnService; a crash
keeps the first and loses the second, while containers and machines run on.

What is hard, and what makes each part correct:

* *Turns and heads.* At most one turn of a thread is active; a durable turn
  publishes exactly one commit on the head it started from, at the instant it
  becomes FINISHED; a failed turn publishes none.
* *Leases.* A runtime exists until the tool calls in it have ended; a snapshot is
  what the workspace holds once nobody writes it.
* *Runtimes.* A runtime that exists is recorded somewhere it will be destroyed from.
* *Crash, recovery, shutdown.* No turn is left without a continuation; a final
  state is final; recovery and shutdown settle.
* *Sessions.* A running command is never lost from the map, whatever is evicted,
  expired or abandoned; closing an instance leaves it quiet and READY; a call ends.
  (Cursor and output windows: planned.)
* *Objects and artifacts.* An object is complete when it is visible; collection
  never removes what is reachable; what a snapshot stored is extracted as it was; a
  failed upload harms no other.
* *Agent channel and file tools.* An answer goes to its request, frames do not
  interleave; a tool changes a file at once or not at all and leaves no temporary file;
  pages put together are what was asked for.

`PROJECT.json` lists every component with what is modelled of it, and every
hazard at the line where it bites.

## 2. Modules

* `ThreadHistory` is the abstract specification: what the daemon promises about
  threads and turns. A turn is new, active, done or failed; a durable turn that
  becomes done appends one tree to the history of its thread in the same step; a
  fork starts with a prefix of its source. It knows no runtime, no lease, no crash.
* `TurnLifecycle` is the detailed one: TurnService, SandboxService,
  RecoveryManager, the rows they write, the daemon's phases, and as much of
  SessionManager and of the backends as a turn depends on.
* `MCTurnLifecycle` gives TLC the model values and the thread of each turn.
* `TurnLifecycleProofs` holds the theorems about it that concern turns and heads,
  `TurnRuntimeProofs` those that concern runtimes, leases and shutdown.
* `Sessions` is SessionManager with the execution calls of the backends and the part
  of the guest agent that runs commands: what happens inside a turn between its start
  and its snapshot. `MCSessions` gives TLC its model values, `SessionsProofs` holds its
  theorems.

* `ObjectStore` is what lies below the rows of a turn: object files, staging and instance
  directories, the rows of trees and commits, and `gc()`. `Archives` is the content of an
  object: the two writers of a CFS archive, `extractCfs` entry by entry, and the tar
  archive Docker restores from. `ArtifactStore` is `putStream` with several uploads of one
  content. `MCStorage` puts the three side by side; `ObjectStoreProofs`,
  `ArchivesProofs` and `ArtifactStoreProofs` hold their theorems.
* `AtomicFiles` is the abstract specification of the file tools: each call changes the
  files in one step or not at all, a write makes its directories before. `FileTransfers` is the detailed one: the file client
  of the daemon, the frame channel and the file service of the agent. `Paging` is the
  answers that come in pages. `MCFiles` puts the two side by side; `FileTransfersProofs`
  and `PagingProofs` hold their theorems.

`ObjectStore` refines the parts of `TurnLifecycle` that touch files and is silent on
leases and sessions. `Archives` justifies that `ObjectStore` treats a tree as one value
that is either restored or refused. `FileTransfers` shows what the single step of a tool
call in `TurnLifecycle` (`ToolWrite`) rests on, and `ArtifactStore` shares with it only
the file an export reads.

`TurnLifecycle` sees one shell per runtime and assumes that `closeInstance` ends it or
rejects; `Sessions` has every call, session and command and shows what that
assumption rests on (`CloseQuiesces`, and `FinishEnds` under `DrainingSpec`). In turn
`Sessions` takes from `TurnLifecycle` that `finish` waits for the leases of the turn.

### State and code

| variables | in the code |
|---|---|
| `state`, `bound`, `expected` | `turns.state`, `turns.instance_id`, `turns.expected_head` |
| `inst`, `base`, `handle` | `instances.state`, `.base_commit`, `.backend_handle` |
| `operation`, `workspaces`, `refs` | `operations.status`, `thread_workspaces`, `refs.head_commit` of `main` |
| `runtimes`, `content` | containers and machines that exist, and their `/workspace` |
| `refused` | the containers whose last DELETE Docker refused (history) |
| `tracked` | the map of the backend of this process |
| `leases` | `leaseCounts` |
| `shell` | the command of a runtime: `active` if SessionManager knows it, `stray` if it runs unknown to any session |
| `startPc`, `finishPc`, `aborting`, `snap` | the `await` at which `startCreated` or `finishOpen` of the turn stands, whether it is in `failTurn`, and its captured tree |
| `phase`, `queue`, `waiting` | where `recover()` or `stop()` stands, what its loop has yet to visit, and the finish it awaits |

A turn runs `startCreated` once and with a fresh instance id, so an instance is
named by its turn; a thread owns at most one workspace, so a workspace is named
by its thread. A commit is addressed by its tree and its parent: it is the
sequence of the trees of its history, and the canonical empty commit is `<<>>`.

Each action is one synchronous stretch of one handler, from an `await` to the
next, with every row it writes. `start` up to its first `await` is `Start`; its
continuation is `Provision`, `RuntimeCreated`, `RecordHandle`, `OpenTurn`, or
`StartRefused` and `CreateFails`. `finish` is `Finish`, then `LeasesDrained`,
`SessionsClosed` or `SessionsStuck`, `BeginCommit`, `SnapshotTaken` or
`SnapshotFails`, `Publish` (one transaction), `BeginDelete`, `RuntimeDestroyed`,
and `DeleteDone` or `DeleteFails`; `failTurn` joins at `BeginDelete` with the turn
in `aborting`. `recover()` is `Boot`, `CleanupFinished`/`CleanupFails` per turn,
`ListInterrupted`, `Interrupt`/`InterruptFails` per instance and `Recovered`.
`stop()` is `Close`, `StartsSettled`, `CloseFinish` per turn, `FinishesSettled`,
`CloseSweep`, `CloseService`, the cleanup of `gc()`, and `Exit`. `Crash` may come
between any two of them. The constant `Faults` names the external failures an
instance allows: `preflight` (the backend is unavailable or the base tree cannot be
materialized), `create`, `kill`, `snapshot`, `destroy` (it rejects), `delete`
(Docker refuses a DELETE and `destroy()` resolves all the same) and `remove` (the
removal of the instance directory rejects). What `destroy()` leaves behind depends on the
backend, and `Destroy` has the three cases: Docker never rejects and swallows a refused
DELETE (`docker.ts:521`); Firecracker ends the machine before the removal of its jail can
reject, and does nothing for a machine that is not in its map (`firecracker.ts:561-573`);
a backend may also reject and leave the runtime, which is what the recovery is written for
and what the fake backend of the tests does (`test/fake-backend.ts:203`). `Rejecting` names
the turns with such a backend.

In `Sessions` a session, its execution and its command are named by the call of
`exec` that made them:

| variables | in the code |
|---|---|
| `op`, `sid`, `pc` | a shell call: its action, its session, and the `await` at which it stands |
| `sessions`, `active`, `expired` | the keys of the session map, `Session.active`, and whether `expiresAt` is past |
| `queue` | the calls chained on `Session.tail`, the running one first |
| `reaping`, `closing` | the sessions `reapExpired` is killing, `closingInstances` |
| `closePc`, `toClose`, `ending`, `killed`, `failures` | where `finish` and `closeInstance` stand and the local variables of the loop |
| `inst` | `instances.state` |
| `recorded` | `record.state` of an execution in the backend is RUNNING |
| `proc` | the command in the guest: `up`; `orphan` when its shell has ended and a process it left holds the output; `ended` |
| `stuck` | the execution on whose pipes the agent waits, in `join_drains` or `write_all` |
| `broken`, `full` | the connection to the agent is lost, the disk is full |

`exec` is `Exec`, one of `ExecStarts`, `ExecRefused`, `ExecFails` and `ExecLost`, then
`Polled` and maybe `Abandon`. `poll`, `write` and `kill` are `Call` up to the `await` of
`serial`, `Run` when the call before has released, `Killed` or `Written`, then `Polled`
and maybe `Abandon`. `closeInstance` is `BeginClose`, per session `CloseNext`,
`CloseKilled` and `ClosePolled` (twice if need be), and `CloseEnds`. The channel keeps
the order of requests and the agent serves one at a time, so a request takes effect
in the step that sees its answer. `WriteBlocks`, `PollJoins` and `KillJoins` are the
places where the agent stops serving.

Abstractions: which inactive session `reap` evicts is left open (the code takes the
least recently used); an expired id that leaves the map is forgotten at once; whether a
command that ended on a full disk was unsuccessful is left open; a poll of several
rounds is its last round; time-outs of commands are `CommandEnds`; the calls of
`commitTurnRuntime` after its first `await`, and failures of the destruction, are in
`TurnLifecycle` and here one step.

In `ObjectStore`, with the names of `TurnLifecycle` for turns, threads and commits:

| variables | in the code |
|---|---|
| `device` | whether `link()` from the staging directory into the object directory answers EXDEV |
| `objects` | the file of a digest: `none`, `partial` while it is copied, `whole` |
| `staged`, `dirs` | files below `staging`, directories below `instances`, by the turn that made them |
| `treeRows`, `commitRows`, `workspaces`, `refs` | `tree_objects`, `commits`, `thread_workspaces`, `refs.head_commit` |
| `inst`, `base`, `tree` | whether the instance row is there and ended, `instances.base_commit`, the digest the snapshot got |
| `pc`, `phase` | the `await` at which the turn or the daemon stands |

The start of a turn is `StartTurn`, `MakeDirectory`, `Materialize` or `StartRefused`, then
`StageRestore` and `OpenRuntime` (Docker) or `BootMachine` (Firecracker), or
`CreateRefused`; its end is `Capture` or `NothingToCommit`, `LinkObject`, `CopyObject`
where `link()` cannot do it, `PublishCommit` or `IngestFails`, and `DeleteRuntime`. `initialize()` is
`Boot` and `Initialized` or `BootFails`; `gc()` is `SweepUntracked`, `SweepFile`,
`SweepRow`, `SweepCommits`, `SweepDirectory`, one file or row at a time, and `Stopped`. The
failures of `link()` and of the copy, and the disk being full, are one failure. The modes
and times of object files are left out.

In `Archives`, `source` is the workspace, `archive` what the writer made of it, `next`,
`built` and `verdict` are the loop variable, the staging directory and the outcome of
`extractCfs`, and `writer` says who wrote it. `ExtractEntry` and `RejectEntry` are one turn of its loop. `ArchiveOf`,
`GuestAccepts`, `DaemonAccepts` and `TarRestores` are `collect` with `exportCfs`,
`export_workspace_file` and `chunks` of `tar.ts` as operators: those programs run alone.
Nodes have a kind, a mode of four (`rw`, `ro`, `suid`, and `sticky` for `rw` with that bit) and
a content or target. Modes without which the daemon could not read or enter what it extracted
are left out. `StoredPath` and `StoredTarget` are what the writers make of names and targets:
both decode them as UTF-8 (`TextOf`), and the guest takes a backslash in a name for a slash
(`Slashed`). The two are constants: functions on the names in use.

In `ArtifactStore`, `upload` is where `putStream` stands; `received` and `size` are the
chunks so far and the size the tool was told; `installed` is the variable of that name; `tmp`,
`stored` and `file` are the temporary files, the artifact files and the exported file of the
guest; `artifactRows` and `grants` are the tables; `lost` remembers which uploads a crash
interrupted. A digest is the sequence of chunks it is the digest of.

In `FileTransfers`:

| variables | in the code |
|---|---|
| `step`, `result` | the request at which a method of `AgentFileClient` stands, and what it returned |
| `channel`, `pending` | `failure` and `pending` of `AgentFrameChannel` |
| `frames`, `offset` | those of `SocketFrameWriter` |
| `wire`, `replies` | bytes of whole and partial frames towards the agent, its answers |
| `agent`, `held` | the agent process, and whether its loop stands in a request for a command (`main.rs:446`, `:657`) |
| `temps`, `litter` | `FileService.writes` with the temporary files, and the calls of which a temporary name stayed when `unlinkat` was refused |
| `files`, `dirs` | the workspace: the content of each path, and the paths whose parent directories are there |
| `editing`, `seen` | a `file_edit` between its digest check and its rename, and what the read of its caller had shown |
| `applied` | the calls that changed the workspace: history, for the refinement |

`Request`, `RequestClosed`, `Drain`, `Receive` and `ChannelFails` are `request()`,
`drain()`, `push()` and `fail()`; `GuestBegin` to `GuestRemove` are the handlers of the
agent, each of which may refuse for reasons of the file system. A frame is written in two
pieces, which is what a partial write can tell apart. The parent directories of a path count
as one, which a write makes, a command may make, and a move needs. `Discard` is the end of a
transfer without its file, whose `unlinkat` may be refused: `abort_write` reports that, after
the transfer has left the map; `file_write_commit` and `atomic_replace` ignore it. An edit
takes two steps, as a command of the turn may write between the check and the rename.
`AgentHeld` and `AgentFreed` are the loop of the agent in `join_drains` or `write_all`.

In `Paging`, `items` are the
sizes of the lines, entries or matches, `cursor`, `limit` and `ranges` the parameters of the
tool, and `ReadPage` one call; `Top` stands for the end of a missing
range and for no limit: no file has more lines. `got` keeps of each line whether its page had a
gap, that is, took something after what it left out. A caller goes on until nothing is left
out (`"end"`), or nothing comes or the cursor does not move (`"cut"`).

What a loop of the code computes over a list is defined by its result, without recursion:
the sorted listing of `collect` (`Collected`) and of a page (`Ascending`) gives each place to the
element with that many not after it, and `Skipping` is the set in which each element is taken
just if it fits with those taken before it.

Where the code has several `await`s with nothing between them that another
handler reads, they are one action: the materialization of the base tree with
`createInstance`; the snapshot with its ingestion; the catch of `create()` with the
write of FAILED in `startCreated`; the loops of `CloseSweep` and of
`SandboxService.close` over rows no other handler touches in that phase; the last
loop of `recover()`, which does not await at all. A crash inside a merged stretch
is then a crash before or after it; the rows recovery reads differ from both only
in instances that recovery writes off as LOST in either case. A crash during the
two shutdown loops leaves part of their rows unwritten, and recovery treats these
as it treats all of them after a crash before the loop.

Operators whose comment begins with "Wrong:" or "Mutant:" are altered copies of an action.
Substituting one for its action shows that a property can fail: the list is under
`mutants` in `PROJECT.json`.

## 3. What is checked

| run | instance | what it shows |
|---|---|---|
| `Turns.cfg` | durable turns `t1`, `t2` on thread `a`, durable `t3` (Firecracker) on `b`; two trees; one lease per turn; failing kill, snapshot, destroy and removal, refused DELETEs; forks; symmetry between `t1` and `t2` | heads are stable, publication is atomic, snapshots are faithful, leases protect runtimes, runtimes stay accounted for, the rows implement `ThreadHistory` |
| `Crashes.cfg` | durable `t1` (Docker) and `t2` (`Rejecting`) and an instant `t3` (Docker) on one thread; one lease; two crashes, one shutdown; failing create, kill, snapshot, destroy and removal, refused DELETEs | `LifecycleInv`; every unfinished turn has a continuation; shutdown leaves nothing; one commit per finished turn; final states are final; a handle is dropped only when the runtime is gone or Docker refused; the rows implement `ThreadHistory` across restarts |
| `Settle.cfg` | a durable `t1` (`Rejecting`), an instant `t3` (Firecracker), two leases, every fault, one shutdown and restart, under `FairSpec` | `finish()`, `stop()` and `recover()` settle |
| `LostTurn.cfg` | one durable turn, failing snapshot | violated: README "Durable" section, a crash is the only case in which a durable turn does not publish |
| `StuckStart.cfg` | one durable turn, failing preflight | violated: a failing start fails its turn |
| `VmAfterRestart.cfg` | one Firecracker turn, one crash | violated: recovery drops a handle only when the machine is gone |
| `Sessions.cfg` | three shell calls of one turn, one of them with a terminal, one session slot, breaking connection, filling disk; symmetry between the two others | running commands stay known; a closed instance is quiet and READY; late answers do not overwrite the state of the instance |
| `SessionsLive.cfg` | the same calls without lost connection or full disk, two executions in the agent, under `DrainingSpec` | shell calls return and `finish` gets through |
| `AgentHang.cfg` | one call, under `FairSpec` of `Sessions` | violated: `finish` gets through |
| `ExecSlots.cfg` | two calls, one execution in the agent | violated: the agent refuses for capacity only while something runs |
| `Storage.cfg` | `ObjectStore`: durable `t1`, `t2` on `a`, durable `t3` and instant `t4` on `b`, `t1` with Docker, two trees, one or two file systems, one crash, one stop. `Archives`: every workspace over five paths, one of them a name with a backslash, some with what is refused or is not UTF-8, every hand-made archive of at most three entries. `ArtifactStore`: two uploads on `a` and one on `b`, three contents, one replacement, one crash | heads materialize and bases are there at every instant; staging has owners; objects are kept and `gc()` is complete; snapshots restore, what validation accepts is a workspace, extraction replaces nothing; grants resolve and failed uploads leave nothing |
| `Files.cfg` | `FileTransfers`: five pairs of concurrent calls on one path (two writes of a new file in a missing directory, two edits, a write with an edit or a removal, an edit with a move), one transfer in the agent, refused removals of temporary files, one unreadable answer, one command that writes a file or holds the agent, under `CommandsLetGo`. `Paging`: every sequence of at most four items of sizes 1 to 4, pages of size 3, limits 1, 2 and 9, five lists of ranges | answers go to their calls; no transfer is left, and a temporary name only of a call that failed; the tools implement `AtomicFiles`; calls return; pages have what was asked for and lines their numbers |

Bounds. Contention needs two turns on one thread, and independence of threads a
third on another; no step involves three turns of one thread, since `OneActive`
lets only one of them be active while the previous one at most still deletes its
runtime. `MaxLeases = 2` is needed to tell the release of the last lease from the
release of one, and `Settle` has it. Two crashes give a crash during recovery and
a crash after it; one shutdown is enough because nothing remembers an earlier
one but the rows. Two trees tell a captured workspace from a changed one.
`MaxLeases`, `MaxCrashes` and `MaxStops` are the only bounds; they sit in the
guards of `Acquire`, `Crash` and `Close`.

For `Sessions`, three calls are an `exec` with two calls chained on its session, two
concurrent `exec`s with a call on one of them, or three commands of which the
eviction chooses one. One slot of `Capacity` makes every further `exec` meet the limit,
and concurrent ones exceed it. `AgentCapacity` is 3 where the refusal is not the point and
2 where it is to happen. Sessions of two instances share only the map and its limit;
the runs have one instance, the theorems any number.

For `ObjectStore`, two durable turns of one thread give a second commit on a first, and a
third on another thread shares their trees: it links an object that another turn is
copying, or that `gc()` has lost. The crash falls between any two steps, the stop before or
after it. Five paths hold a directory with an entry in it, a name the guest rewrites to that
of the entry, and two more names, which is what order, ancestors, collisions and hard links need; hand-made archives have what no writer
makes: an entry twice, below a link, before its parent. For `FileTransfers`, a pair of calls
is enough for an answer to reach the wrong one, and capacity 1 of the agent for a
transfer to be refused; the real capacity is 8. `MaxShell` bounds the files commands write and the times they hold the
agent. Sizes 1 to 4 against pages of 3 give lines that share a page, fill one, or have no room on any, and after
each of them a smaller one. Neither module of a side-by-side run restricts the other: the initial state
chooses which one moves.

Fairness. In `TurnLifecycle`, `FairSpec` assumes weak fairness of the continuations of `start` and
`finish` (a promise that can resume does), of `Release` (the `finally` of the `/mcp`
route; that every call returns is `CallsEnd` of `Sessions`) and of the
loops of `recover()` and `stop()`. Nothing is assumed of the harness, of commands in
the runtime, of crashes or of faults. Without the fairness of `Release` a tool
call that never answers blocks `finish` and shutdown for ever, which is what the code
does.

In `Sessions`, `FairSpec` assumes that every continuation runs and that the agent answers
what it can answer; commands need not end, the harness need not finish.
`DrainingSpec` adds what the code takes for granted and nothing enforces: a command
reads its input in the end, and no process keeps the output of an ended shell open for
ever. `AgentHang` shows that it is needed.

`FilesFairness` assumes that a call makes its next request, that a socket takes bytes in the
end, that the agent serves what has arrived while it stands in no request for a command (the
handlers of files are synchronous and bounded; the loop that calls them is also the one of
commands), that answers are read, and that the end of the agent ends the connection
(`fail()` on `close` or `error` of the socket). It assumes nothing of the stream an upload
reads from but that it ends or fails, which is the first of these, and nothing of faults.
`ServingSpec` adds `CommandsLetGo`, as `DrainingSpec` does for `Sessions`: a command lets go of the
agent in the end. The code does not see to that (`AgentHang`), and without it `CallsReturn` is false:
a file call waits behind the command.

What the runs leave apart. `CHECK_DEADLOCK FALSE` stands where behaviours end: turns are
used up, calls have returned. `preflight` is not among the faults of `Crashes`, since
`StuckStart` shows what it does to `WorkHasOwner`; Firecracker is not,
because of `VmAfterRestart`. `HandleDroppedOnlyWhenGone` and `RuntimesAccounted` leave out
the containers in `refused`, whose handle the code drops since nothing tells it
(`docker.ts:521`). `RuntimesAccounted` also leaves out a LOST instance of a `Rejecting`
backend: nothing but the cleanup of finished durable turns destroys it again
(`recovery.ts:16-19`). With the two backends there are, a LOST instance has no runtime left. `RuntimesAccounted` is checked without crashes: a crash
after `create()` and before the handle is recorded leaves a container no row names.
`OneCommitPerTurn` counts commits of a thread, so its run has a single thread and no
fork, and its theorem is of the behaviours without one.
`HeadsMaterialize` and the objects of `BaseIsThere` are stated for one file system: across two, a copy has
its final name before it is complete (`cfs.ts:217`), and a crash or a second turn meets it.
`GrantedResolves` leaves out an artifact whose file was made by an upload that failed
after it had linked it: it removes the file that others may have granted meanwhile (`artifacts.ts:97`).
A crash of that upload is no exception.
`SnapshotsRestore` promises the original names, and that nothing is refused, of workspaces whose names and targets the
writer keeps (`NamesKept`), and of those leaves out a directory without write permission that
holds something, for a daemon that is not root (`cfs.ts:278`). `StagingHasOwner` leaves out the archive of a
Docker restore that could not be written (`docker.ts:269-282`). `NoTransferLeft` lets a temporary name stay where the guest could not remove it: of a write or an edit
that failed, and of a removal that stopped half way (`file_ops.rs:947`, `:959`, `:1186`, `:1555`).
`FilesAreAtomic` lets the directories of a write stay when it fails (`file_ops.rs:460-481`), and a
command's content be lost under an edit that had checked its file before (`:974-1172`).
`PagesAreExact` and `NumbersAreTrue` hold of any sizes. Pages with a gap are excepted where the code
goes wrong: `file_read` repeats lines and numbers them wrong (`file_ops.rs:602-628`), `grep` loses matches
(`:1959-1968`). `NumbersAreTrue` leaves out the ranges of a file without the lowest first, from which
`lineNumbers` counts up for ever (`server.ts:217-227`): the model comes to `"stuck"` there. Each exception
is as narrow as the code allows: without it TLC finds the case.

## 4. Findings

1. `turn-service.ts:443`: a turn whose snapshot fails, or whose sessions cannot be
   closed (`:397`), is FAILED without a commit in a daemon that did not crash;
   `README.md:56` names a crash as the only such case.
2. `turn-service.ts:273`: when `createTurnRuntime` rejects before `createInstance`,
   the update that should fail the turn carries an instance id without a row; the
   foreign key refuses it, the turn stays STARTING and its thread answers
   THREAD_BUSY until a restart.
3. `firecracker.ts:561` (`test/recovery.test.ts:53` expects the opposite): after a restart `destroy()` knows no machine and resolves;
   `recovery.ts:46-50` then clears the handle of a machine that may still run.
4. `agent/src/main.rs:446`: the agent joins the readers of the output in its request
   loop. A background process that keeps the output open (`server &`) stops the poll,
   the timeout, the kill and every other request of the runtime, so `finish`
   (`README.md:52`) does not get through while it lives. `write_all` (`:657`) into the input of
   a command that does not read has the same effect.
5. `agent/src/main.rs:639`: the agent never forgets an execution, so the 65th command
   of a turn is refused for capacity although nothing runs, while SessionManager
   evicts its inactive sessions to make room.

Seen while modelling, without a run of their own:

* `recovery.ts:102`: `deleteCommit` is refused by the foreign key of an ended instance that
  started from the commit; `gc()` then throws before it removes directories.
* `docker.ts:521`: `destroy()` swallows a refused DELETE, so the handle of a container that
  still exists is dropped and nothing removes it again. The retry of a failed destruction
  (`recovery.ts:26-31`, `test/recovery.test.ts:110-117`) is reached by the removal of the
  instance directory, by Firecracker's jail and by the fake backend, never by a container.
* A start that fails before `createInstance` leaves its instance directory, which `gc()`
  does not see; a crash leaves the temporary files of uploads.
* `main.rs:325`: a frame above 1 MiB ends the agent, and the schema of an edit
  (`server.ts:61-70`) does not keep one from being made.
* `tar.ts:27`: a path or link target of more than 100 bytes is stored by a snapshot, and the Docker runtime of
  the next turn cannot be restored from it.
* `cfs.rs:74`: the guest stores a file named `a\b` as `b` in the directory `a`, so the snapshot
  restores as another tree, or is rejected when that path exists or `a` is no directory. Names
  and link targets that are not UTF-8 change too (`cfs.rs:74`, `:159`).
* `cfs.ts:254`, `:278`: the writers store a sticky bit and `extractCfs` drops it.
* `cfs.rs:150-158`: the guest refuses every symbolic link with `..`; the daemon accepts those
  that stay inside.
* `file_ops.rs:947`, `:959`, `:1186`: in Docker a command of the same user can make a directory read-only between
  two requests of a write; the removal of its temporary file is refused, and the snapshot takes
  `.electrosphere-<id>.tmp`.
* `file_ops.rs:460-481`: a write that fails or is aborted leaves the parent directories it made, and the
  snapshot takes them.
* `file_ops.rs:602-628`, `:1959-1968`: after a line that does not fit on a page, `file_read` takes
  smaller ones, gives them wrong numbers, and gives them again on the next page; `grep` goes on after the last match it took, and the
  one that did not fit is lost.
* `server.ts:217-227`: ranges with a later one first, or an empty list of them, keep `lineNumbers`, and
  with it the daemon, in a loop without an end.
* `server.ts:265`: an export of a file that is replaced by one of equal size mixes both.

## 5. What is proved

`TurnLifecycleProofs` proves, for every value of the constants that satisfies
`ConstantsAssumption` (any threads, turns, backends, trees, faults and bounds):

* `TypeCorrect`: `Spec => []TypeOK`.
* `LifecycleInvariant`: `Spec => []LifecycleInv`.
* `HeadIsStable`: `Spec => []HeadStable`.
* `RowsImplementHistory`: `Spec => ImplementsHistory`, the refinement of
  `ThreadHistory`.
* `TerminalStaysFinal`: `Spec => TerminalIsFinal`.
* `PublicationIsAtomic`: `Spec => PublicationAtomic`.
* `HistoriesCoverTurns` and `OneCommitPerFinishedTurn`: for finitely many turns, a history
  is at least as long as its thread has FINISHED durable turns, and in a behaviour without a
  fork exactly as long (`OneCommitPerTurn`).

The argument. `HeadStable` says that the head a durable turn read in `start` is the
head of its thread until the turn publishes. Two things move a head: a fork, which
writes a thread that owns no workspace, and `Publish`, which another turn of the
same thread would have to reach. So one needs that a thread has one active turn
(`OneActive`). That in turn is kept only if no continuation revives a turn that
somebody else has ended, so a start in flight must belong to a STARTING turn
(`StartOwned`), a finish to a FINISHING turn or to a published one that only
deletes its runtime (`FinishOwned`), and recovery and the sweeps of shutdown must
run when no continuation is left (`PhaseOwned`, which also says that `closeAll` still
has every OPEN turn in its list). `LifecycleInv` is the conjunction; TLC checks it
in `Crashes`, and the proof takes each action in turn. Actions that branch have a
lemma that states their two outcomes.

The refinement maps a turn's state to what a harness can tell of it (`StatusOf`).
From `LifecycleInv`, `NextSeen` shows of each action which abstract step it is: most
are not seen, `Start` is Begin, `Publish` is Publish when its compare-and-swap
matches, the end of a finish is Discard, Fail or was seen before, and the loops of
recovery and shutdown are Fail of several turns at once. That a final state is final
then holds because it does in `ThreadHistory`, and so does the count of commits: each
abstract step adds at most one FINISHED durable turn, and a commit of its thread with it.
What the count needs besides is that a fork overwrites no history, which is why a thread
with an active or FINISHED durable turn owns a workspace (`OwnersHaveWorkspace`).

`TurnRuntimeProofs` proves, from the same assumption, `LeasesProtectRuntimes`
(`LeaseProtectsRuntime`), `SnapshotsAreFaithful` (`SnapshotFaithful`) and
`CloseAlwaysLeavesNothing` (`CloseLeavesNothing`); and for daemons whose backends do not
fail in the ways the findings are about, `WorkAlwaysHasOwner` (`WorkHasOwner`, no
`preflight` fault), `HandlesOutliveRuntimes` (`HandleDroppedOnlyWhenGone`, if no process ends
while a Firecracker machine runs: `ForgetsNoMachine`) and `RuntimesStayAccounted`
(`RuntimesAccounted`, without a crash). Neither assumes anything of `destroy()`: it may reject
and Docker may refuse.

The argument. `LifecycleInv` says who owns a turn, `RuntimeInv` what the owner may rely on.
A tool call keeps its runtime because whoever takes runtimes away is past the point where
leases are awaited: `RuntimeHeld` follows the runtime from `create()` to the end of the
sessions, and `LeasesOwned` says that a lease is of an OPEN turn or of one whose finish
waits for it. A snapshot is faithful because from the end of the sessions on a write needs a
lease or an active shell, and there is neither (`WorkspaceQuiet`). That shutdown leaves
nothing is the converse: `InstancesOwned` says that a live instance has an active turn or a
finish in flight, or is on the list of recovery, so when both are gone none is left. The
conditional theorems add that a machine is in the map of its backend as long as the process
lives (`MachinesTracked`), that a finish that has destroyed its runtime finds it gone
or refused (`RuntimeGone`), and that a runtime has a handle and a live instance (`Accounted`);
an orderly end then leaves no machine to forget (`ExitForgetsNoMachine`). `DestroyRemoves` says
of `Destroy` what they all rest on.

`SessionsProofs` proves, for any calls, instances and capacities that satisfy
`SessionConstants`: `SessionsTypeCorrect` (`TypeOK`), `CommandsStayKnown` (`CommandsKnown`),
`ClosedIsQuiet` (`CloseQuiesces`) and `FinishOwnsTheState` (`FinishOwnsState`).

The argument. That a running command is in the map is easily kept by eviction, which
spares active sessions; what threatens it is `active` being cleared early, and the
record of the backend, which makes a kill skip the command. Both are written after
polls and kills, so `KillsInv` says that `kill()` polls a command that has ended, and
`RunsInv` adds to `CommandsKnown` that, once `closeInstance` is under way, a running
command is still on its list or is the one it is about to kill. That nothing is started
or revived meanwhile is `CallsInv`: a call in flight belongs to a turn whose leases
are out. `CloseInv` ties the state of an instance to the progress of its finish.
`SessionsInv` is the conjunction. Frame lemmas say which changes disturb no conjunct,
and each action has a lemma from them.

`ObjectStoreProofs` proves, for any threads, turns, trees, file systems and bounds that
satisfy `StoreAssumption`: `StoreTypeCorrect` (`StoreTypeOK`), `HeadsAlwaysMaterialize`
(`HeadsMaterialize`), `BaseIsAlwaysThere` (`BaseIsThere`), `StagingIsOwned`
(`StagingHasOwner`), `ObjectsAreAlwaysKept` (`ObjectsAreKept`) and `GcIsAlwaysComplete`
(`GcIsComplete`), all from `StoreInvariant`.

The argument. What a head reaches could be lost in three ways. A turn could publish a
commit whose object is gone: `OneDevice` says that between `LinkObject` and `PublishCommit` the
object is whole, and `Serving` that no turn is then under way during `gc()`. `gc()`
could take what a head needs: it removes trees no reachable commit has, so one needs
`RowsThere`, that every history has its rows, or reachability would stop short. A fork could
point at what was never there: its commit is in the history of its source, and the
histories of a history are histories (`HistoryOfPrefix`). The
compare-and-swap of `PublishCommit` makes the new history that of the base and one commit;
`Owned` says the thread has a workspace, so that the head counts as a root. The empty commit
is the one thing `gc()` may remove and a start may need: `EmptyThere` says
`initialize()` has restored it before the daemon serves. `StagingInv` follows staged files
through the steps of a turn, and `SweepInv` says that in the last part of `gc()` no
instance lives and every object is in some history. `StoreInv` is the conjunction; each action has a lemma that it
keeps it.

`ArtifactStoreProofs` proves, for any uploads, threads and contents, `GrantsAlwaysResolve`
(`GrantedResolves`) and `UploadsNeverLeaveAnything` (`UploadsLeaveNothing`) of
`ArtifactSpec`. The argument: only an upload that made a file removes it
(`InstalledIsSealed`), and it has failed by then, so the content of every linked upload and
every grant is there or is accounted for by that failure (`Accounted`). `ArtifactInv` adds
that the temporary file goes before the row is written.

`FileTransfersProofs` proves, for any calls that satisfy `CallsAssumption` (a call is of one
tool, its path is in the workspace, and a file is in a directory), any capacity, any cut of the stream and any number
of unreadable answers, refused removals and commands: `TransfersAreOrdered` (the invariant), `RepliesInOrder`
(`AnswersInOrder`), `NothingIsLeft` (`NoTransferLeft`) and `FilesImplementPromise`
(`FilesAreAtomic`, the refinement of `AtomicFiles`).

The argument. An answer names no request; it goes to the call that waits longest. What
must be so is that the calls wait in the order in which answers will come: first of the
answers read and not yet given, then of the edit the agent stands in, then of the frames
on the socket, in the buffer and in the writer (`Unserved`). `QueueKept` says so and that each call waits
for the step it asked for, and `Whole` that what a partial write has left of a frame is
followed by its rest. `ServiceKept` has one predicate, `Ready(c, s)`, for what the agent must
find to serve step `s` of `c`: it is true of the requests that are unserved, of the next step
of what an answer allows, and of the step at which a call rests. A call has one place at a
time, so a step disturbs `Ready` of one call. `NothingIsLeft` is `Ready` of calls that are over, with what
the invariant keeps of `litter`: a temporary name that stays is of a call that failed or cannot
return "ok" any more. In the
refinement, `Ready` gives that a call takes effect once and is told "ok" after; and that the path of an
open transfer has its directories. The check of an edit is a step of its own there, and no call comes
between it and the effect, since the agent serves one request at a time.

`ArchivesProofs` proves of `ArchiveSpec`, for any paths in an order where a directory comes before
what is in it (`PathsAssumption`), any workspaces in which entries hang from directories
(`WorkspacesAssumption`), any conversion of names that decodes to UTF-8 (`TextAssumption`) and any
archives decoded so (`HandMadeAssumption`):
`ExtractionInvariant`, `SnapshotsAlwaysRestore` (`SnapshotsRestore`), `AcceptedAlwaysWorkspace`
(`AcceptedIsWorkspace`) and `NothingIsReplaced` (`NothingReplaced`).

The argument. The staging directory is a tree whatever the archive is (`BuiltGrown`): an entry is
made only below directories that are there, and the links that were made are remembered, so
that none is followed. For an archive of a writer it holds the entries taken under their stored names
(`BuiltSame`): a path is never taken twice, so no two names have come to one, and the mode of a
hard link changes names of the same file only. Where the names were kept, that the next entry is accepted needs the order of
`collect`: what is above it, and the first name of its file, have been taken before it
(`CollectedShape`, `FirstLinkShape`); so such an archive is refused at a locked directory
only (`RejectedLocked`).

`PagingProofs` proves of `PagingSpec`, for any items, ranges, limits and size of a page that satisfy
`PagingAssumption`: `PagingInvariant`, `PagesAlwaysExact` (`PagesAreExact`) and `NumbersAlwaysTrue`
(`NumbersAreTrue`). The argument: what came is below the cursor, in order (`Follows`), and what is
wanted below the cursor came (`Complete`). A page takes from what is selected (`SkippingShape`: passing over
what does not fit ends), an initial part of it if it has no gap (`PageShape`), and the first of it if
a page has room for that. The next cursor is the least that was left out, or one past what was taken
where a tool counts every item (`NextCursorShape`): the first loses nothing and the second
repeats nothing whatever the page is, and both are the same place if the page has no gap. The numbers
`lineNumbers` counts through are then those of the lines (`AscendingBegins`), since an ascending list is
determined by its set (`AscendingUnique`); with a gap there are at least enough of them.

`ArchivesProofs` and `PagingProofs` use that a set of numbers has a least element. Induction over
numbers has an operator parameter and is out of reach; `LeastNumber` derives it from the
well-foundedness of inclusion on finite sets.

Only model-checked: the liveness properties (`FinishEnds`, `CloseEnds` and `RecoveryEnds` of
`Settle`, `CallsEnd` and `FinishEnds` of `SessionsLive`, `CallsReturn` of `Files`), which are out of the
prover's reach. Every other property of a passing run is a theorem, and where one has a
hypothesis the run makes it too.

## 6. Not modelled, and the plan

Not modelled: the content of messages, authentication and header checks, probes,
cgroups, jailer and image construction, logging; these keep no state a property
here is about. The tables `sessions` and `executions` are never written. The
configuration, the interfaces of the backends, the fake backend of the tests and the
build of the runtime image have no behaviour of their own. Walking of paths, glob and
regular expression matching, and what an edit makes of lines are computations over text
that the models take as given.

Next, in this order:

1. `OutputWindow`: the output ring of the agent (`main.rs:208`), the cursor of a session,
   and the order in which a poll tests the timeout and the exit status (`main.rs:429`).
2. `LineEdits`: which lines `file_edit` replaces, against a reference definition.
3. Theorems about them: that a reader gets every byte the ring still has, and what an edit
   leaves alone.

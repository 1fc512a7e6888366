--------------------------- MODULE TurnLifecycle ---------------------------
(***************************************************************************)
(* Turns, runtimes, thread refs and the daemon's life cycle: TurnService,  *)
(* SandboxService, RecoveryManager and the rows of Repository they write,  *)
(* with start, finish, tool calls, shutdown, crashes and restarts          *)
(* interleaved.                                                            *)
(*                                                                         *)
(* A turn runs startCreated at most once and gets a fresh instance id, so  *)
(* an instance is named by its turn.  A thread owns at most one workspace, *)
(* so a workspace is named by its thread.  A commit is content addressed   *)
(* by its tree and its parent: it is the sequence of the trees of its      *)
(* history, and <<>> is the canonical empty commit.                        *)
(***************************************************************************)
EXTENDS Naturals, Sequences, FiniteSets

CONSTANTS
  Threads,      \* thread ids the harness uses
  Turns,        \* turn requests, one per (thread id, turn id)
  ThreadOf,     \* the thread of each turn request
  Durable,      \* the turn requests with mode 'durable'; the others are 'instant'
  Firecracker,  \* the turn requests served by Firecracker
  Rejecting,    \* those served by a backend whose destroy() may reject and leave the
                \* runtime, as the fake backend of the tests; the others by Docker
  Trees,        \* workspace contents told apart
  EmptyTree,    \* the tree of an empty directory
  Faults,       \* the external failures that may happen
  MaxLeases,    \* bound: tool calls in flight at once, per turn
  MaxCrashes,   \* bound: crashes of the daemon
  MaxStops      \* bound: orderly shutdowns of the daemon

FaultKinds == {"preflight", "create", "kill", "snapshot", "destroy", "delete", "remove"}

ASSUME ConstantsAssumption ==
  /\ ThreadOf \in [Turns -> Threads]
  /\ Durable \subseteq Turns
  /\ Firecracker \subseteq Turns
  /\ Rejecting \subseteq Turns \ Firecracker
  /\ EmptyTree \in Trees
  /\ Faults \subseteq FaultKinds
  /\ MaxLeases \in Nat
  /\ MaxCrashes \in Nat
  /\ MaxStops \in Nat

VARIABLES
  \* rows of the database, which a crash keeps
  state,        \* turns.state, "NONE" while there is no row
  bound,        \* the turns whose instance_id is set
  expected,     \* turns.expected_head
  inst,         \* instances.state, "NONE" while there is no row
  base,         \* the head startCreated read, then instances.base_commit
  handle,       \* the instances whose backend_handle is set
  operation,    \* operations.status of the finish of a turn
  workspaces,   \* the threads that own a workspace
  refs,         \* refs.head_commit of the thread's 'main'
  \* outside the daemon
  runtimes,     \* containers and virtual machines that exist
  refused,      \* history: the containers whose last DELETE Docker refused
  content,      \* what /workspace of a runtime holds
  \* memory of the daemon
  tracked,      \* the runtimes this process created and still has in its map
  leases,       \* TurnService.leaseCounts
  shell,        \* the shell of the runtime and what SessionManager thinks of it
  startPc,      \* where startCreated of the turn is
  finishPc,     \* where finishOpen of the turn is
  aborting,     \* the turns whose finishOpen is in failTurn
  snap,         \* the tree the snapshot of the turn captured
  phase,        \* where the daemon itself is
  queue,        \* what the loop of that phase has yet to visit
  waiting,      \* the turn whose finish closeAll awaits
  crashes, stops

dbVars == <<state, bound, expected, inst, base, handle, operation, workspaces, refs>>
worldVars == <<runtimes, refused, content>>
callVars == <<leases, shell, startPc, finishPc, aborting, snap>>
daemonVars == <<phase, queue, waiting, crashes, stops>>
vars == <<dbVars, worldVars, tracked, callVars, daemonVars>>

----------------------------------------------------------------------------
TurnStates == {"NONE", "STARTING", "OPEN", "FINISHING", "FINISHED", "FAILED"}
InstanceStates == {"NONE", "PROVISIONING", "READY", "RUNNING", "COMMITTING",
                   "TERMINATING", "TERMINATED", "FAILED", "LOST"}
StartPcs == {"idle", "preflight", "create", "created", "opening"}
FinishPcs == {"idle", "leases", "sessions", "commit", "snapshot", "publish",
              "delete", "destroy", "record"}
Phases == {"down", "cleanup", "interrupted", "up",
           "starts", "finish", "sweep", "service", "gc"}

\* The partial unique index turns_open_thread_unique ranges over these.
Active == {"STARTING", "OPEN", "FINISHING"}
Terminal == {"FINISHED", "FAILED"}
LiveInstance == {"PROVISIONING", "READY", "RUNNING", "COMMITTING", "TERMINATING"}

\* Handlers and their continuations run; recover() runs before Bun.serve.
Alive == phase \notin {"down", "cleanup", "interrupted"}

ActiveOn(th) == {t \in Turns : ThreadOf[t] = th /\ state[t] \in Active}

\* The tree of a commit.
TreeOf(c) == IF c = <<>> THEN EmptyTree ELSE c[Len(c)]

Docker == Turns \ (Firecracker \cup Rejecting)

\* destroy() has settled for every runtime of S, for those of failed by a
\* rejection.  DockerBackend swallows a refused DELETE and never rejects.
\* FirecrackerBackend returns at once for a machine that is not in its map; of
\* one that is, it kills the process before the removal of the jail can reject.
\* Files and processes go with the runtime.
Destroy(S, failed) ==
  \E kept \in SUBSET ((S \ failed) \cap runtimes \cap Docker) :
    LET gone == S \ (kept \cup (failed \cap Rejecting) \cup (Firecracker \ tracked)) IN
    /\ kept # {} => "delete" \in Faults
    /\ failed # {} => "destroy" \in Faults
    /\ failed \subseteq Rejecting \cup (Firecracker \cap tracked)
    /\ runtimes' = runtimes \ gone
    /\ refused' = (refused \ S) \cup kept
    /\ tracked' = tracked \ S
    /\ content' = [t \in Turns |-> IF t \in gone THEN EmptyTree ELSE content[t]]
    /\ shell' = [t \in Turns |-> IF t \in gone THEN "none" ELSE shell[t]]

\* The finished durable turns whose runtime is not known to be gone.
CleanupTargets ==
  {t \in Durable : state[t] = "FINISHED" /\ t \in handle /\ inst[t] # "TERMINATED"}

TypeOK ==
  /\ state \in [Turns -> TurnStates]
  /\ bound \subseteq Turns
  /\ expected \in [Turns -> Seq(Trees)]
  /\ inst \in [Turns -> InstanceStates]
  /\ base \in [Turns -> Seq(Trees)]
  /\ handle \subseteq Turns
  /\ operation \in [Turns -> {"NONE", "RUNNING", "SUCCEEDED", "FAILED"}]
  /\ workspaces \subseteq Threads
  /\ refs \in [Threads -> Seq(Trees)]
  /\ runtimes \subseteq Turns
  /\ refused \subseteq Turns
  /\ content \in [Turns -> Trees]
  /\ tracked \subseteq Turns
  /\ leases \in [Turns -> Nat]
  /\ shell \in [Turns -> {"none", "active", "stray"}]
  /\ startPc \in [Turns -> StartPcs]
  /\ finishPc \in [Turns -> FinishPcs]
  /\ aborting \subseteq Turns
  /\ snap \in [Turns -> Trees]
  /\ phase \in Phases
  /\ queue \subseteq Turns
  /\ waiting \subseteq Turns
  /\ crashes \in Nat
  /\ stops \in Nat

\* An empty data directory and no daemon.
Init ==
  /\ state = [t \in Turns |-> "NONE"]
  /\ bound = {}
  /\ expected = [t \in Turns |-> <<>>]
  /\ inst = [t \in Turns |-> "NONE"]
  /\ base = [t \in Turns |-> <<>>]
  /\ handle = {}
  /\ operation = [t \in Turns |-> "NONE"]
  /\ workspaces = {}
  /\ refs = [th \in Threads |-> <<>>]
  /\ runtimes = {}
  /\ refused = {}
  /\ content = [t \in Turns |-> EmptyTree]
  /\ tracked = {}
  /\ leases = [t \in Turns |-> 0]
  /\ shell = [t \in Turns |-> "none"]
  /\ startPc = [t \in Turns |-> "idle"]
  /\ finishPc = [t \in Turns |-> "idle"]
  /\ aborting = {}
  /\ snap = [t \in Turns |-> EmptyTree]
  /\ phase = "down"
  /\ queue = {}
  /\ waiting = {}
  /\ crashes = 0
  /\ stops = 0

----------------------------------------------------------------------------
(* start: TurnService.start, startCreated and createTurnRuntime            *)

\* Wrong: start() without the check for an active turn of the thread.
StartBesideActive(t) ==
  /\ phase = "up"
  /\ state[t] = "NONE"
  /\ state' = [state EXCEPT ![t] = "STARTING"]
  /\ startPc' = [startPc EXCEPT ![t] = "preflight"]
  /\ workspaces' = workspaces \cup {ThreadOf[t]}
  /\ base' = [base EXCEPT ![t] = refs[ThreadOf[t]]]
  /\ UNCHANGED <<bound, expected, inst, handle, operation, refs, worldVars, tracked,
                 leases, shell, finishPc, aborting, snap, daemonVars>>

\* start() up to its first await: no turn of the thread is active, the row is
\* created, and ensureThreadWorkspace runs in the same tick for a durable turn.
Start(t) ==
  LET th == ThreadOf[t] IN
  /\ phase = "up"
  /\ state[t] = "NONE"
  /\ ActiveOn(th) = {}
  /\ state' = [state EXCEPT ![t] = "STARTING"]
  /\ startPc' = [startPc EXCEPT ![t] = "preflight"]
  /\ IF t \in Durable
     THEN /\ workspaces' = workspaces \cup {th}
          /\ base' = [base EXCEPT ![t] = refs[th]]
     ELSE UNCHANGED <<workspaces, base>>
  /\ UNCHANGED <<bound, expected, inst, handle, operation, refs, worldVars, tracked,
                 leases, shell, finishPc, aborting, snap, daemonVars>>

\* preflight() says available, the base tree is materialized, createInstance.
Provision(t) ==
  /\ Alive
  /\ startPc[t] = "preflight"
  /\ inst' = [inst EXCEPT ![t] = "PROVISIONING"]
  /\ startPc' = [startPc EXCEPT ![t] = "create"]
  /\ UNCHANGED <<state, bound, expected, base, handle, operation, workspaces, refs,
                 worldVars, tracked, leases, shell, finishPc, aborting, snap, daemonVars>>

\* createTurnRuntime throws before createInstance.  The catch of startCreated
\* then writes instance_id, which has no row to reference: the update is
\* refused with its state = 'FAILED', and the turn stays STARTING.
StartRefused(t) ==
  /\ Alive
  /\ "preflight" \in Faults
  /\ startPc[t] = "preflight"
  /\ startPc' = [startPc EXCEPT ![t] = "idle"]
  /\ UNCHANGED <<dbVars, worldVars, tracked, leases, shell, finishPc, aborting, snap, daemonVars>>

\* The backend made the container or machine and restored the base tree in it;
\* create() has not returned to the service yet.
RuntimeCreated(t) ==
  /\ Alive
  /\ startPc[t] = "create"
  /\ runtimes' = runtimes \cup {t}
  /\ tracked' = tracked \cup {t}
  /\ content' = [content EXCEPT ![t] = TreeOf(base[t])]
  /\ startPc' = [startPc EXCEPT ![t] = "created"]
  /\ UNCHANGED <<dbVars, refused, leases, shell, finishPc, aborting, snap, daemonVars>>

\* create() rejects, after it removed what it made: instance and turn FAILED.
CreateFails(t) ==
  /\ Alive
  /\ "create" \in Faults
  /\ startPc[t] \in {"create", "created"}
  /\ Destroy({t}, {})
  /\ inst' = [inst EXCEPT ![t] = "FAILED"]
  /\ state' = [state EXCEPT ![t] = "FAILED"]
  /\ bound' = bound \cup {t}
  /\ startPc' = [startPc EXCEPT ![t] = "idle"]
  /\ UNCHANGED <<expected, base, handle, operation, workspaces, refs,
                 leases, finishPc, aborting, snap, daemonVars>>

\* create() returned: the handle is recorded and the instance is READY.
RecordHandle(t) ==
  /\ Alive
  /\ startPc[t] = "created"
  /\ inst' = [inst EXCEPT ![t] = "READY"]
  /\ handle' = handle \cup {t}
  /\ startPc' = [startPc EXCEPT ![t] = "opening"]
  /\ UNCHANGED <<state, bound, expected, base, operation, workspaces, refs,
                 worldVars, tracked, leases, shell, finishPc, aborting, snap, daemonVars>>

\* startCreated binds the turn to the head it read in its first tick.
OpenTurn(t) ==
  /\ Alive
  /\ startPc[t] = "opening"
  /\ state' = [state EXCEPT ![t] = "OPEN"]
  /\ bound' = bound \cup {t}
  /\ expected' = [expected EXCEPT ![t] = base[t]]
  /\ startPc' = [startPc EXCEPT ![t] = "idle"]
  /\ UNCHANGED <<inst, base, handle, operation, workspaces, refs, worldVars, tracked,
                 leases, shell, finishPc, aborting, snap, daemonVars>>

----------------------------------------------------------------------------
(* tool calls: the lease of http.ts around handler.fetch, and the shells   *)
(* tool calls leave running                                                *)

\* Wrong: acquire() lets a call into a turn that is finishing.
AcquireWhileFinishing(t) ==
  /\ phase = "up"
  /\ state[t] \in {"OPEN", "FINISHING"}
  /\ leases[t] < MaxLeases
  /\ leases' = [leases EXCEPT ![t] = @ + 1]
  /\ UNCHANGED <<dbVars, worldVars, tracked, shell, startPc, finishPc, aborting, snap, daemonVars>>

\* acquire(): refused while closing and unless the turn is OPEN.
Acquire(t) ==
  /\ phase = "up"
  /\ state[t] = "OPEN"
  /\ t \in bound
  /\ leases[t] < MaxLeases
  /\ leases' = [leases EXCEPT ![t] = @ + 1]
  /\ UNCHANGED <<dbVars, worldVars, tracked, shell, startPc, finishPc, aborting, snap, daemonVars>>

\* Wrong: release() counts a second release of the same lease.
ReleaseTwice(t) ==
  /\ Alive
  /\ state[t] = "OPEN"
  /\ leases' = [leases EXCEPT ![t] = @ - 1]
  /\ UNCHANGED <<dbVars, worldVars, tracked, shell, startPc, finishPc, aborting, snap, daemonVars>>

\* release() in the finally of the /mcp route.
Release(t) ==
  /\ Alive
  /\ leases[t] > 0
  /\ leases' = [leases EXCEPT ![t] = @ - 1]
  /\ UNCHANGED <<dbVars, worldVars, tracked, shell, startPc, finishPc, aborting, snap, daemonVars>>

\* getTurnHandle() hands the runtime to the tool call that holds a lease.
HandleOf(t) ==
  /\ Alive
  /\ leases[t] > 0
  /\ t \in handle
  /\ inst[t] \in {"READY", "RUNNING"}

\* A file tool changes the workspace.
ToolWrite(t, tree) ==
  /\ HandleOf(t)
  /\ content' = [content EXCEPT ![t] = tree]
  /\ UNCHANGED <<dbVars, runtimes, refused, tracked, callVars, daemonVars>>

\* exec() starts a command that outlives its call.
ToolExec(t) ==
  /\ HandleOf(t)
  /\ shell[t] = "none"
  /\ shell' = [shell EXCEPT ![t] = "active"]
  /\ inst' = [inst EXCEPT ![t] = "RUNNING"]
  /\ UNCHANGED <<state, bound, expected, base, handle, operation, workspaces, refs,
                 worldVars, tracked, leases, startPc, finishPc, aborting, snap, daemonVars>>

\* exec, poll, write or kill sees the command end, by itself or killed.  It may
\* leave a process behind that no session knows of.
ShellEnded(t) ==
  /\ HandleOf(t)
  /\ shell[t] = "active"
  /\ \E left \in {"none", "stray"} : shell' = [shell EXCEPT ![t] = left]
  /\ inst' = [inst EXCEPT ![t] = "READY"]
  /\ UNCHANGED <<state, bound, expected, base, handle, operation, workspaces, refs,
                 worldVars, tracked, leases, startPc, finishPc, aborting, snap, daemonVars>>

\* abandon() after an error of poll or write: a kill that fails is ignored,
\* and the process runs on in a session nobody closes.
Abandon(t) ==
  /\ HandleOf(t)
  /\ "kill" \in Faults
  /\ shell[t] = "active"
  /\ shell' = [shell EXCEPT ![t] = "stray"]
  /\ inst' = [inst EXCEPT ![t] = "READY"]
  /\ UNCHANGED <<state, bound, expected, base, handle, operation, workspaces, refs,
                 worldVars, tracked, leases, startPc, finishPc, aborting, snap, daemonVars>>

\* reapExpired() drops a session nobody used for half an hour.
ReapExpired(t) ==
  /\ Alive
  /\ shell[t] = "active"
  /\ \E left \in {"none"} \cup (IF "kill" \in Faults THEN {"stray"} ELSE {}) :
       shell' = [shell EXCEPT ![t] = left]
  /\ UNCHANGED <<dbVars, worldVars, tracked, leases, startPc, finishPc, aborting, snap, daemonVars>>

\* A running command changes the workspace, whatever the daemon does.
ShellWrite(t, tree) ==
  /\ t \in runtimes
  /\ shell[t] # "none"
  /\ content' = [content EXCEPT ![t] = tree]
  /\ UNCHANGED <<dbVars, runtimes, refused, tracked, callVars, daemonVars>>

----------------------------------------------------------------------------
(* finish: TurnService.finish, finishOpen and failTurn                     *)

\* The synchronous part of finish() on an OPEN turn.
FinishRow(t) ==
  /\ state' = [state EXCEPT ![t] = "FINISHING"]
  /\ finishPc' = [finishPc EXCEPT ![t] = "leases"]

\* The harness asks to finish the turn.  finish() does not look at closing.
Finish(t) ==
  /\ Alive
  /\ state[t] = "OPEN"
  /\ FinishRow(t)
  /\ UNCHANGED <<bound, expected, inst, base, handle, operation, workspaces, refs, worldVars,
                 tracked, leases, shell, startPc, aborting, snap, daemonVars>>

\* Wrong: finishOpen() does not wait for the tool calls in flight.
LeasesIgnored(t) ==
  /\ Alive
  /\ finishPc[t] = "leases"
  /\ finishPc' = [finishPc EXCEPT ![t] = "sessions"]
  /\ UNCHANGED <<dbVars, worldVars, tracked, leases, shell, startPc, aborting, snap, daemonVars>>

\* Wrong: finishOpen() waits for running commands as well as for tool calls.
ShellsAwaited(t) ==
  /\ leases[t] = 0 /\ shell[t] = "none"
  /\ LeasesIgnored(t)

\* waitForLeases() resolves once no tool call of the turn is in flight.
LeasesDrained(t) ==
  /\ Alive
  /\ finishPc[t] = "leases"
  /\ leases[t] = 0
  /\ finishPc' = [finishPc EXCEPT ![t] = "sessions"]
  /\ UNCHANGED <<dbVars, worldVars, tracked, leases, shell, startPc, aborting, snap, daemonVars>>

\* closeInstance() killed every active session of the instance.
SessionsClosed(t) ==
  /\ Alive
  /\ finishPc[t] = "sessions"
  /\ shell' = [shell EXCEPT ![t] = IF @ = "active" THEN "none" ELSE @]
  /\ inst' = [inst EXCEPT ![t] = IF @ = "RUNNING" THEN "READY" ELSE @]
  /\ finishPc' = [finishPc EXCEPT ![t] = IF t \in Durable THEN "commit" ELSE "delete"]
  /\ UNCHANGED <<state, bound, expected, base, handle, operation, workspaces, refs,
                 worldVars, tracked, leases, startPc, aborting, snap, daemonVars>>

\* The finish of t goes on in failTurn.
FailTurn(t) ==
  /\ aborting' = aborting \cup {t}
  /\ finishPc' = [finishPc EXCEPT ![t] = "delete"]

\* Wrong: a turn whose sessions cannot be closed is failed with its runtime left.
StuckWithoutDelete(t) ==
  /\ Alive
  /\ "kill" \in Faults
  /\ finishPc[t] = "sessions"
  /\ shell[t] = "active"
  /\ inst' = [inst EXCEPT ![t] = "LOST"]
  /\ state' = [state EXCEPT ![t] = "FAILED"]
  /\ finishPc' = [finishPc EXCEPT ![t] = "idle"]
  /\ UNCHANGED <<bound, expected, base, handle, operation, workspaces, refs, worldVars,
                 tracked, leases, shell, startPc, aborting, snap, daemonVars>>

\* closeInstance() could not bring a session to a terminal state.
SessionsStuck(t) ==
  /\ Alive
  /\ "kill" \in Faults
  /\ finishPc[t] = "sessions"
  /\ shell[t] = "active"
  /\ FailTurn(t)
  /\ UNCHANGED <<dbVars, worldVars, tracked, leases, shell, startPc, snap, daemonVars>>

\* commitTurnRuntime up to its first await: the binding checks, the operation
\* row, COMMITTING.
BeginCommit(t) ==
  /\ Alive
  /\ finishPc[t] = "commit"
  /\ IF t \in handle /\ base[t] = expected[t] /\ inst[t] = "READY" /\ ThreadOf[t] \in workspaces
     THEN /\ operation' = [operation EXCEPT ![t] = "RUNNING"]
          /\ inst' = [inst EXCEPT ![t] = "COMMITTING"]
          /\ finishPc' = [finishPc EXCEPT ![t] = "snapshot"]
          /\ UNCHANGED aborting
     ELSE FailTurn(t) /\ UNCHANGED <<operation, inst>>
  /\ UNCHANGED <<state, bound, expected, base, handle, workspaces, refs,
                 worldVars, tracked, leases, shell, startPc, snap, daemonVars>>

\* The guest agent captured the workspace and the tree was stored.
SnapshotTaken(t) ==
  /\ Alive
  /\ finishPc[t] = "snapshot"
  /\ snap' = [snap EXCEPT ![t] = content[t]]
  /\ finishPc' = [finishPc EXCEPT ![t] = "publish"]
  /\ UNCHANGED <<dbVars, worldVars, tracked, leases, shell, startPc, aborting, daemonVars>>

\* The catch of commitTurnRuntime.
CommitFails(t) ==
  /\ operation' = [operation EXCEPT ![t] = "FAILED"]
  /\ inst' = [inst EXCEPT ![t] = IF @ = "COMMITTING" THEN "READY" ELSE @]
  /\ FailTurn(t)
  /\ UNCHANGED <<state, refs>>

\* snapshot(), its validation or the ingestion of its tree fails.
SnapshotFails(t) ==
  /\ Alive
  /\ "snapshot" \in Faults
  /\ finishPc[t] = "snapshot"
  /\ CommitFails(t)
  /\ UNCHANGED <<bound, expected, base, handle, workspaces, worldVars,
                 tracked, leases, shell, startPc, snap, daemonVars>>

\* Wrong: the turn is marked FINISHED although its ref was not moved.
PublishWithoutRef(t) ==
  /\ Alive
  /\ finishPc[t] = "publish"
  /\ state' = [state EXCEPT ![t] = "FINISHED"]
  /\ inst' = [inst EXCEPT ![t] = "READY"]
  /\ finishPc' = [finishPc EXCEPT ![t] = "delete"]
  /\ UNCHANGED <<bound, expected, base, handle, operation, workspaces, refs, worldVars,
                 tracked, leases, shell, startPc, aborting, snap, daemonVars>>

\* publishTurnCommit, one transaction: the ref moves by compare-and-swap and the
\* turn, instance and operation rows follow, or nothing changes.
Publish(t) ==
  LET th == ThreadOf[t] IN
  /\ Alive
  /\ finishPc[t] = "publish"
  /\ IF th \in workspaces /\ refs[th] = expected[t] /\ state[t] = "FINISHING" /\ t \in bound
     THEN /\ refs' = [refs EXCEPT ![th] = Append(expected[t], snap[t])]
          /\ state' = [state EXCEPT ![t] = "FINISHED"]
          /\ inst' = [inst EXCEPT ![t] = "READY"]
          /\ operation' = [operation EXCEPT ![t] = "SUCCEEDED"]
          /\ finishPc' = [finishPc EXCEPT ![t] = "delete"]
          /\ UNCHANGED aborting
     ELSE CommitFails(t)
  /\ snap' = [snap EXCEPT ![t] = EmptyTree]
  /\ UNCHANGED <<bound, expected, base, handle, workspaces, worldVars,
                 tracked, leases, shell, startPc, daemonVars>>

\* deleteTurnRuntime up to its first await.
BeginDelete(t) ==
  /\ Alive
  /\ finishPc[t] = "delete"
  /\ inst' = [inst EXCEPT ![t] = IF @ = "TERMINATED" THEN @ ELSE "TERMINATING"]
  /\ finishPc' = [finishPc EXCEPT ![t] = IF inst[t] = "TERMINATED" THEN "record" ELSE "destroy"]
  /\ UNCHANGED <<state, bound, expected, base, handle, operation, workspaces, refs,
                 worldVars, tracked, leases, shell, startPc, aborting, snap, daemonVars>>

\* destroy() resolved.
RuntimeDestroyed(t) ==
  /\ Alive
  /\ finishPc[t] = "destroy"
  /\ Destroy({t}, {})
  /\ finishPc' = [finishPc EXCEPT ![t] = "record"]
  /\ UNCHANGED <<dbVars, leases, startPc, aborting, snap, daemonVars>>

\* The instance directory is removed, the instance is TERMINATED and the turn
\* gets its final state; publishTurnCommit already gave it to a durable turn.
DeleteDone(t) ==
  /\ Alive
  /\ finishPc[t] = "record"
  /\ inst' = [inst EXCEPT ![t] = "TERMINATED"]
  /\ handle' = handle \ {t}
  /\ state' = [state EXCEPT ![t] = IF t \in aborting THEN "FAILED" ELSE "FINISHED"]
  /\ finishPc' = [finishPc EXCEPT ![t] = "idle"]
  /\ aborting' = aborting \ {t}
  /\ UNCHANGED <<bound, expected, base, operation, workspaces, refs,
                 worldVars, tracked, leases, shell, startPc, snap, daemonVars>>

\* destroy() of a runtime, or then the removal of its instance directory, rejects.
DeleteRejects(t) ==
  \/ /\ finishPc[t] = "destroy"
     /\ Destroy({t}, {t})
  \/ /\ finishPc[t] = "record"
     /\ "remove" \in Faults
     /\ UNCHANGED <<worldVars, tracked, shell>>

\* Wrong: the cleanup error of a published turn fails the turn.
CleanupErrorFailsTurn(t) ==
  /\ Alive
  /\ DeleteRejects(t)
  /\ inst' = [inst EXCEPT ![t] = "LOST"]
  /\ state' = [state EXCEPT ![t] = "FAILED"]
  /\ finishPc' = [finishPc EXCEPT ![t] = "idle"]
  /\ aborting' = aborting \ {t}
  /\ UNCHANGED <<bound, expected, base, handle, operation, workspaces, refs,
                 leases, startPc, snap, daemonVars>>

\* deleteTurnRuntime rejects: the instance is LOST and keeps its handle.  An
\* instant turn fails; a durable one has already published, unless it was failing.
DeleteFails(t) ==
  /\ Alive
  /\ DeleteRejects(t)
  /\ inst' = [inst EXCEPT ![t] = "LOST"]
  /\ state' = [state EXCEPT ![t] = IF t \in Durable /\ t \notin aborting THEN @ ELSE "FAILED"]
  /\ finishPc' = [finishPc EXCEPT ![t] = "idle"]
  /\ aborting' = aborting \ {t}
  /\ UNCHANGED <<bound, expected, base, handle, operation, workspaces, refs,
                 leases, startPc, snap, daemonVars>>

----------------------------------------------------------------------------
(* fork                                                                    *)

\* Wrong: a fork onto a thread that already owns a workspace.
ForkOver(src, dst) ==
  /\ phase = "up"
  /\ src # dst
  /\ ActiveOn(src) = {}
  /\ src \in workspaces
  /\ refs' = [refs EXCEPT ![dst] = refs[src]]
  /\ workspaces' = workspaces \cup {dst}
  /\ UNCHANGED <<state, bound, expected, inst, base, handle, operation,
                 worldVars, tracked, callVars, daemonVars>>

\* TurnService.fork runs in one tick: the destination's ref starts at the head
\* of the source or at a commit of its history.
Fork(src, dst) ==
  /\ phase = "up"
  /\ src # dst
  /\ ActiveOn(src) = {}
  /\ src \in workspaces
  /\ dst \notin workspaces
  /\ \E n \in 0 .. Len(refs[src]) : refs' = [refs EXCEPT ![dst] = SubSeq(refs[src], 1, n)]
  /\ workspaces' = workspaces \cup {dst}
  /\ UNCHANGED <<state, bound, expected, inst, base, handle, operation,
                 worldVars, tracked, callVars, daemonVars>>

----------------------------------------------------------------------------
(* the daemon: crash, recovery, shutdown                                   *)

\* What does not outlive the process.  A command keeps running in its runtime,
\* unknown to any later session.
ForgetMemory ==
  /\ tracked' = {}
  /\ leases' = [t \in Turns |-> 0]
  /\ shell' = [t \in Turns |-> IF shell[t] = "active" THEN "stray" ELSE shell[t]]
  /\ startPc' = [t \in Turns |-> "idle"]
  /\ finishPc' = [t \in Turns |-> "idle"]
  /\ aborting' = {}
  /\ queue' = {}
  /\ waiting' = {}
  /\ UNCHANGED snap

Crash ==
  /\ phase # "down"
  /\ crashes < MaxCrashes
  /\ crashes' = crashes + 1
  /\ phase' = "down"
  /\ ForgetMemory
  /\ UNCHANGED <<dbVars, worldVars, stops>>

\* startDaemon up to recover()'s first loop: RUNNING operations are deleted.
Boot ==
  /\ phase = "down"
  /\ phase' = "cleanup"
  /\ operation' = [t \in Turns |-> IF operation[t] = "RUNNING" THEN "NONE" ELSE operation[t]]
  /\ queue' = CleanupTargets
  /\ UNCHANGED <<state, bound, expected, inst, base, handle, workspaces, refs, worldVars,
                 tracked, callVars, waiting, crashes, stops>>

\* cleanupFinishedTurnRuntimes, called by recover() and by gc().
CleanupFinished(t) ==
  /\ phase \in {"cleanup", "gc"}
  /\ t \in queue
  /\ Destroy({t}, {})
  /\ inst' = [inst EXCEPT ![t] = "TERMINATED"]
  /\ handle' = handle \ {t}
  /\ queue' = queue \ {t}
  /\ UNCHANGED <<state, bound, expected, base, operation, workspaces, refs, leases,
                 startPc, finishPc, aborting, snap, phase, waiting, crashes, stops>>

CleanupFails(t) ==
  /\ phase \in {"cleanup", "gc"}
  /\ t \in queue
  /\ Destroy({t}, {t})
  /\ inst' = [inst EXCEPT ![t] = "LOST"]
  /\ queue' = queue \ {t}
  /\ UNCHANGED <<state, bound, expected, base, handle, operation, workspaces, refs, leases,
                 startPc, finishPc, aborting, snap, phase, waiting, crashes, stops>>

\* Wrong: recover() insists that every finished runtime is gone first.
AwaitCleanup ==
  /\ phase = "cleanup"
  /\ CleanupTargets = {}
  /\ phase' = "interrupted"
  /\ queue' = {t \in Turns : inst[t] \in LiveInstance}
  /\ UNCHANGED <<dbVars, worldVars, tracked, callVars, waiting, crashes, stops>>

\* recover() lists the instances it interrupted.
ListInterrupted ==
  /\ phase = "cleanup"
  /\ queue = {}
  /\ phase' = "interrupted"
  /\ queue' = {t \in Turns : inst[t] \in LiveInstance}
  /\ UNCHANGED <<dbVars, worldVars, tracked, callVars, waiting, crashes, stops>>

\* The body of that loop: only an instance whose handle was recorded can be
\* destroyed; every one becomes LOST.
Interrupt(t) ==
  /\ phase = "interrupted"
  /\ t \in queue
  /\ IF t \in handle THEN Destroy({t}, {}) ELSE UNCHANGED <<worldVars, tracked, shell>>
  /\ inst' = [inst EXCEPT ![t] = "LOST"]
  /\ handle' = handle \ {t}
  /\ queue' = queue \ {t}
  /\ UNCHANGED <<state, bound, expected, base, operation, workspaces, refs, leases,
                 startPc, finishPc, aborting, snap, phase, waiting, crashes, stops>>

\* Wrong: the handle is dropped although destroy() rejected.
InterruptForgets(t) ==
  /\ phase = "interrupted"
  /\ t \in queue
  /\ t \in handle
  /\ Destroy({t}, {t})
  /\ inst' = [inst EXCEPT ![t] = "LOST"]
  /\ handle' = handle \ {t}
  /\ queue' = queue \ {t}
  /\ UNCHANGED <<state, bound, expected, base, operation, workspaces, refs, leases,
                 startPc, finishPc, aborting, snap, phase, waiting, crashes, stops>>

InterruptFails(t) ==
  /\ phase = "interrupted"
  /\ t \in queue
  /\ t \in handle
  /\ Destroy({t}, {t})
  /\ inst' = [inst EXCEPT ![t] = "LOST"]
  /\ queue' = queue \ {t}
  /\ UNCHANGED <<state, bound, expected, base, handle, operation, workspaces, refs, leases,
                 startPc, finishPc, aborting, snap, phase, waiting, crashes, stops>>

\* Wrong: recovery overlooks the turns that were finishing.
RecoveredButFinishing ==
  /\ phase = "interrupted"
  /\ queue = {}
  /\ state' = [t \in Turns |-> IF state[t] \in {"STARTING", "OPEN"} THEN "FAILED" ELSE state[t]]
  /\ phase' = "up"
  /\ UNCHANGED <<bound, expected, inst, base, handle, operation, workspaces, refs, worldVars,
                 tracked, callVars, queue, waiting, crashes, stops>>

\* Wrong: recovery reports the turns that were finishing as finished.
RecoveredAsFinished ==
  /\ phase = "interrupted"
  /\ queue = {}
  /\ state' = [t \in Turns |->
       IF state[t] = "FINISHING" THEN "FINISHED"
       ELSE IF state[t] \in Active THEN "FAILED" ELSE state[t]]
  /\ phase' = "up"
  /\ UNCHANGED <<bound, expected, inst, base, handle, operation, workspaces, refs, worldVars,
                 tracked, callVars, queue, waiting, crashes, stops>>

\* The last loop of recover() fails the interrupted turns; the server starts.
Recovered ==
  /\ phase = "interrupted"
  /\ queue = {}
  /\ state' = [t \in Turns |-> IF state[t] \in Active THEN "FAILED" ELSE state[t]]
  /\ phase' = "up"
  /\ UNCHANGED <<bound, expected, inst, base, handle, operation, workspaces, refs, worldVars,
                 tracked, callVars, queue, waiting, crashes, stops>>

\* SIGINT or SIGTERM: stop() closes the server and turns.close() sets closing.
Close ==
  /\ phase = "up"
  /\ stops < MaxStops
  /\ stops' = stops + 1
  /\ phase' = "starts"
  /\ UNCHANGED <<dbVars, worldVars, tracked, callVars, queue, waiting, crashes>>

\* Wrong: closeAll() lists the OPEN turns while others are still starting.
StartsIgnored ==
  /\ phase = "starts"
  /\ phase' = "finish"
  /\ queue' = {t \in Turns : state[t] = "OPEN"}
  /\ UNCHANGED <<dbVars, worldVars, tracked, callVars, waiting, crashes, stops>>

\* Wrong: closeAll() waits for the STARTING rows instead of the start promises.
StartRowsAwaited ==
  /\ \A t \in Turns : state[t] # "STARTING"
  /\ StartsIgnored

\* closeAll() saw every start settle and lists the OPEN turns.
StartsSettled ==
  /\ phase = "starts"
  /\ \A t \in Turns : startPc[t] = "idle"
  /\ phase' = "finish"
  /\ queue' = {t \in Turns : state[t] = "OPEN"}
  /\ UNCHANGED <<dbVars, worldVars, tracked, callVars, waiting, crashes, stops>>

\* closeAll() awaits the finish of one listed turn after the other; finish()
\* settles at once for a turn the harness has finished meanwhile.
CloseFinish(t) ==
  /\ phase = "finish"
  /\ \A w \in waiting : finishPc[w] = "idle"
  /\ t \in queue
  /\ queue' = queue \ {t}
  /\ IF state[t] = "OPEN"
     THEN FinishRow(t) /\ waiting' = {t}
     ELSE waiting' = {} /\ UNCHANGED <<state, finishPc>>
  /\ UNCHANGED <<bound, expected, inst, base, handle, operation, workspaces, refs, worldVars,
                 tracked, leases, shell, startPc, aborting, snap, phase, crashes, stops>>

\* Every finish in flight settled.
FinishesSettled ==
  /\ phase = "finish"
  /\ queue = {}
  /\ \A t \in Turns : finishPc[t] = "idle"
  /\ phase' = "sweep"
  /\ waiting' = {}
  /\ UNCHANGED <<dbVars, worldVars, tracked, callVars, queue, crashes, stops>>

\* The last loop of closeAll(): turns without a start or finish in flight; an
\* instance that deleteTurnRuntime rejected for is LOST.
CloseSweep ==
  LET left == {t \in Turns : state[t] \in {"STARTING", "FINISHING"}}
      held == {t \in left \cap bound : inst[t] # "TERMINATED"} IN
  /\ phase = "sweep"
  /\ \E failed \in SUBSET (held \cap handle), kept \in SUBSET held :
       /\ kept # {} => "remove" \in Faults
       /\ Destroy(held \cap handle, failed)
       /\ handle' = handle \ (held \ (failed \cup kept))
       /\ inst' = [t \in Turns |-> IF t \in failed \cup kept THEN "LOST"
                                   ELSE IF t \in held THEN "TERMINATED" ELSE inst[t]]
  /\ state' = [t \in Turns |-> IF t \in left THEN "FAILED" ELSE state[t]]
  /\ phase' = "service"
  /\ UNCHANGED <<bound, expected, base, operation, workspaces, refs, leases, startPc,
                 finishPc, aborting, snap, queue, waiting, crashes, stops>>

\* SandboxService.close() writes every live instance off, destroyed or not; then
\* gc() lists the finished turns.
CloseService ==
  LET live == {t \in Turns : inst[t] \in LiveInstance} IN
  /\ phase = "service"
  /\ \E failed \in SUBSET (live \cap handle) : Destroy(live \cap handle, failed)
  /\ inst' = [t \in Turns |-> IF t \in live THEN "TERMINATED" ELSE inst[t]]
  /\ handle' = handle \ live
  /\ phase' = "gc"
  /\ queue' = CleanupTargets \ live
  /\ UNCHANGED <<state, bound, expected, base, operation, workspaces, refs, leases, startPc,
                 finishPc, aborting, snap, waiting, crashes, stops>>

\* The database is closed and the process exits.
Exit ==
  /\ phase = "gc"
  /\ queue = {}
  /\ phase' = "down"
  /\ ForgetMemory
  /\ UNCHANGED <<dbVars, worldVars, crashes, stops>>

----------------------------------------------------------------------------
StartStep(t) ==
  Provision(t) \/ StartRefused(t) \/ RuntimeCreated(t) \/ CreateFails(t)
    \/ RecordHandle(t) \/ OpenTurn(t)

CallStep(t) ==
  \/ Acquire(t) \/ Release(t) \/ ToolExec(t) \/ ShellEnded(t) \/ Abandon(t) \/ ReapExpired(t)
  \/ \E tree \in Trees : ToolWrite(t, tree) \/ ShellWrite(t, tree)

FinishStep(t) ==
  \/ LeasesDrained(t) \/ SessionsClosed(t) \/ SessionsStuck(t) \/ BeginCommit(t)
  \/ SnapshotTaken(t) \/ SnapshotFails(t) \/ Publish(t)
  \/ BeginDelete(t) \/ RuntimeDestroyed(t) \/ DeleteDone(t) \/ DeleteFails(t)

RecoverStep ==
  \/ ListInterrupted \/ Recovered
  \/ \E t \in Turns : Interrupt(t) \/ InterruptFails(t)

CloseStep ==
  StartsSettled \/ (\E t \in Turns : CloseFinish(t)) \/ FinishesSettled
    \/ CloseSweep \/ CloseService \/ Exit

CleanupStep == \E t \in Turns : CleanupFinished(t) \/ CleanupFails(t)

\* Nothing is under way and the daemon waits for a request or for a restart; a
\* state that is not at rest must be able to move.
Rest ==
  /\ phase \in {"up", "down"}
  /\ \A t \in Turns : startPc[t] = "idle" /\ finishPc[t] = "idle" /\ leases[t] = 0
  /\ UNCHANGED vars

Next ==
  \/ \E t \in Turns : Start(t) \/ StartStep(t) \/ CallStep(t) \/ Finish(t) \/ FinishStep(t)
  \/ \E src, dst \in Threads : Fork(src, dst)
  \/ Crash \/ Boot \/ Close
  \/ RecoverStep \/ CloseStep \/ CleanupStep
  \/ Rest

Spec == Init /\ [][Next]_vars

\* A continuation that can run is run, a tool call ends (its backend call is
\* bounded by a timeout), and the loops of recover() and stop() go on.
Fairness ==
  /\ \A t \in Turns : WF_vars(StartStep(t)) /\ WF_vars(Release(t)) /\ WF_vars(FinishStep(t))
  /\ WF_vars(RecoverStep \/ CloseStep \/ CleanupStep)

FairSpec == Spec /\ Fairness

----------------------------------------------------------------------------
(* What must hold                                                          *)

\* At most one turn of a thread is active, and a durable turn finds the head of
\* its thread where start() read it until the turn itself moves it: the
\* compare-and-swap of publishTurnCommit cannot meet another head.
HeadStable ==
  \A t \in Durable :
    /\ startPc[t] # "idle" =>
         ThreadOf[t] \in workspaces /\ base[t] = refs[ThreadOf[t]]
    /\ state[t] \in {"OPEN", "FINISHING"} =>
         /\ ThreadOf[t] \in workspaces
         /\ expected[t] = refs[ThreadOf[t]]
         /\ base[t] = refs[ThreadOf[t]]

\* Why HeadStable and what follows hold, as an invariant that every step keeps:
\* a thread has one active turn,
OneActive ==
  \A t, u \in Turns :
    ThreadOf[t] = ThreadOf[u] /\ state[t] \in Active /\ state[u] \in Active => t = u

\* a start in flight belongs to a STARTING turn,
StartOwned == \A t \in Turns : startPc[t] # "idle" => state[t] = "STARTING"

\* a finish in flight belongs to a FINISHING turn, or to a durable turn that is
\* published and only has its runtime left to delete,
Deleting == {"delete", "destroy", "record"}

FinishOwned ==
  /\ \A t \in aborting : finishPc[t] \in Deleting
  /\ \A t \in Turns : finishPc[t] \in {"commit", "snapshot", "publish"} => t \in Durable
  /\ \A t \in Turns : finishPc[t] # "idle" =>
       state[t] = IF finishPc[t] \in Deleting /\ t \in Durable /\ t \notin aborting
                  THEN "FINISHED" ELSE "FINISHING"

\* and the daemon starts and stops only around both.
PhaseOwned ==
  /\ phase \notin {"up", "starts"} => \A t \in Turns : startPc[t] = "idle"
  /\ phase \notin {"up", "starts", "finish"} => \A t \in Turns : finishPc[t] = "idle"
  /\ phase = "finish" => \A t \in Turns : state[t] = "OPEN" => t \in queue
  /\ phase \in {"sweep", "service", "gc"} => \A t \in Turns : state[t] # "OPEN"

LifecycleInv ==
  TypeOK /\ OneActive /\ StartOwned /\ FinishOwned /\ PhaseOwned /\ HeadStable

\* Between capture and publication the workspace does not change and nothing
\* that SessionManager knows of can change it.
SnapshotFaithful ==
  \A t \in Turns : finishPc[t] = "publish" =>
    /\ leases[t] = 0
    /\ shell[t] # "active"
    /\ shell[t] = "none" => snap[t] = content[t]

\* The runtime a tool call works in is there, and READY or RUNNING, until the
\* call has released its lease: no finish or shutdown takes it away.
LeaseProtectsRuntime ==
  \A t \in Turns : leases[t] > 0 =>
    /\ state[t] \in {"OPEN", "FINISHING"}
    /\ t \in runtimes \cap handle
    /\ inst[t] \in {"READY", "RUNNING"}

\* Every runtime is going to be destroyed: its handle is recorded and its
\* instance is live, or create() has yet to return.  Nobody destroys a LOST
\* instance of a failed or instant turn again, so none may be left with its
\* runtime: only where destroy() can reject and leave it, and where Docker
\* refused the DELETE and destroy() resolved all the same.
RuntimesAccounted ==
  Alive => \A t \in runtimes \ refused :
    \/ startPc[t] = "created"
    \/ t \in handle /\ (inst[t] \in LiveInstance \/ (inst[t] = "LOST" /\ t \in Rejecting))

\* A turn that is starting or finishing is so because a continuation of this
\* process works on it.
WorkHasOwner ==
  Alive => \A t \in Turns :
    /\ state[t] = "STARTING" => startPc[t] # "idle"
    /\ state[t] = "FINISHING" => finishPc[t] # "idle"

\* turns.close() leaves no active turn and no live instance to
\* SandboxService.close(), whatever the harness did meanwhile.
CloseLeavesNothing ==
  phase \in {"service", "gc"} => \A t \in Turns :
    /\ state[t] \notin Active
    /\ inst[t] \notin LiveInstance
    /\ leases[t] = 0

\* Without a fork a thread's history has one commit per finished durable turn.
OneCommitPerTurn ==
  \A th \in Threads :
    Len(refs[th]) = Cardinality({t \in Durable : ThreadOf[t] = th /\ state[t] = "FINISHED"})

\* A recorded handle is dropped only when the runtime it names is gone: whoever
\* drops it is the last that could destroy the runtime.  A container is left only
\* where Docker refused its DELETE, which destroy() keeps to itself.
HandleDroppedOnlyWhenGone ==
  [][\A t \in handle : t \notin handle' => t \notin runtimes' \/ t \in refused']_vars

\* A FINISHED or FAILED turn keeps its state, through failed cleanups, crashes,
\* recovery and shutdown.
TerminalIsFinal ==
  [][\A t \in Turns : state[t] \in Terminal => state'[t] = state[t]]_vars

\* A head moves exactly when a durable turn of its thread finishes, by the one
\* tree that turn captured.
PublicationAtomic ==
  [][/\ \A th \in workspaces : refs'[th] # refs[th] =>
          \E t \in Durable : ThreadOf[t] = th /\ state[t] # "FINISHED" /\ state'[t] = "FINISHED"
     /\ \A t \in Durable : state[t] # "FINISHED" /\ state'[t] = "FINISHED" =>
          refs'[ThreadOf[t]] = Append(refs[ThreadOf[t]], snap[t])]_vars

\* The rows of the database implement the promise made to the harness.
StatusOf(s) ==
  CASE s = "NONE" -> "new"
    [] s \in Active -> "active"
    [] s = "FINISHED" -> "done"
    [] s = "FAILED" -> "failed"

History == INSTANCE ThreadHistory WITH
  owned <- workspaces,
  head <- refs,
  status <- [t \in Turns |-> StatusOf(state[t])]

ImplementsHistory == History!Spec

\* README: a daemon crash is the only case in which an active durable turn does
\* not publish a commit.
OnlyACrashLosesATurn ==
  [][\A t \in Durable : state[t] \in {"OPEN", "FINISHING"} /\ state'[t] = "FAILED"
       => phase = "interrupted"]_vars

\* finish() settles: every finishing turn reaches a final state.
FinishEnds ==
  \A t \in Turns : state[t] = "FINISHING" ~> state[t] \in Terminal

\* stop() settles, whatever is in flight when it is called.
CloseEnds == phase = "starts" ~> phase = "down"

\* recover() settles.
RecoveryEnds == phase = "cleanup" ~> phase \in {"up", "down"}
=============================================================================

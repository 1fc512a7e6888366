---------------------------- MODULE ObjectStore ----------------------------
(***************************************************************************)
(* The content addressed trees and everything that refers to them: the    *)
(* object files, the staging directory, the instance directories, the tree *)
(* and commit rows and the thread refs, from the start of a turn over the  *)
(* publication of its commit to the garbage collection of an orderly stop, *)
(* with crashes between any two steps.                                     *)
(*                                                                         *)
(* As in TurnLifecycle a workspace is named by its thread, an instance by  *)
(* its turn, and a commit is the sequence of the trees of its history.     *)
(***************************************************************************)
EXTENDS Naturals, Sequences, FiniteSets

CONSTANTS
  Threads, Turns, ThreadOf, Durable,
  Docker,       \* the turns whose base is restored through a tar archive
  Trees,        \* workspace contents told apart
  EmptyTree,    \* the tree of an empty directory
  Devices,      \* "one": staging and objects share a file system; "two": they do not
  MaxCrashes,   \* bound: crashes of the daemon
  MaxStops      \* bound: orderly shutdowns of the daemon

ASSUME StoreAssumption ==
  /\ ThreadOf \in [Turns -> Threads]
  /\ Durable \subseteq Turns
  /\ Docker \subseteq Turns
  /\ EmptyTree \in Trees
  /\ Devices \subseteq {"one", "two"}
  /\ MaxCrashes \in Nat
  /\ MaxStops \in Nat

VARIABLES
  device,      \* where staging and objects live, a member of Devices
  objects,     \* the file of each tree: absent, still being written, complete
  staged,      \* the owners of files in the staging directory; "boot" is initialize()
  dirs,        \* the turns whose instance directory exists
  treeRows,    \* tree_objects
  commitRows,  \* commits
  workspaces,  \* the threads that own a workspace
  refs,        \* refs.head_commit of the thread's 'main'
  inst,        \* the instance row: "none", "live", or in an ended state
  base,        \* the commit a turn started from, then instances.base_commit
  pc,          \* how far the turn is
  tree,        \* the tree the snapshot of the turn captured
  phase,       \* where the daemon itself is
  crashes, stops

rows == <<treeRows, commitRows, workspaces, refs>>
files == <<objects, staged, dirs>>
turns == <<inst, base, pc, tree>>
bounds == <<crashes, stops>>
storeVars == <<device, files, rows, turns, phase, bounds>>

TurnPcs == {"new", "base", "extract", "create", "restore", "open",
            "ingest", "copy", "publish", "delete", "stuck", "over"}
Phases == {"down", "boot", "recover", "up", "sweep", "dirs"}

\* A turn in one of these has ended, waits for a restart, or was never asked for.
Resting == {"new", "stuck", "over"}

EmptyCommit == <<>>
TreeOf(c) == IF c = EmptyCommit THEN EmptyTree ELSE c[Len(c)]

\* commitBelongsToHistory: the commit itself and, parent by parent, the rest.
History(c) == {SubSeq(c, 1, n) : n \in 0 .. Len(c)}

\* The turn keeps its thread busy: turns_open_thread_unique.
Busy(th) == \E t \in Turns : ThreadOf[t] = th /\ pc[t] \notin {"new", "over"}

StoreTypeOK ==
  /\ device \in Devices
  /\ objects \in [Trees -> {"none", "partial", "whole"}]
  /\ staged \subseteq Turns \cup {"boot"}
  /\ dirs \subseteq Turns
  /\ treeRows \subseteq Trees
  /\ commitRows \subseteq Seq(Trees)
  /\ workspaces \subseteq Threads
  /\ refs \in [Threads -> Seq(Trees)]
  /\ inst \in [Turns -> {"none", "live", "ended"}]
  /\ base \in [Turns -> Seq(Trees)]
  /\ pc \in [Turns -> TurnPcs]
  /\ tree \in [Turns -> Trees]
  /\ phase \in Phases
  /\ crashes \in Nat
  /\ stops \in Nat

\* An empty data directory; or, where the objects have a file system of their
\* own, one that was moved there after a first start: without the empty object
\* initialize() cannot link across file systems and the daemon never starts.
StoreInit ==
  /\ device \in Devices
  /\ objects = [x \in Trees |-> IF device = "two" /\ x = EmptyTree THEN "whole" ELSE "none"]
  /\ treeRows = IF device = "two" THEN {EmptyTree} ELSE {}
  /\ commitRows = IF device = "two" THEN {EmptyCommit} ELSE {}
  /\ staged = {}
  /\ dirs = {}
  /\ workspaces = {}
  /\ refs = [th \in Threads |-> EmptyCommit]
  /\ inst = [t \in Turns |-> "none"]
  /\ base = [t \in Turns |-> EmptyCommit]
  /\ pc = [t \in Turns |-> "new"]
  /\ tree = [t \in Turns |-> EmptyTree]
  /\ phase = "down"
  /\ crashes = 0
  /\ stops = 0

----------------------------------------------------------------------------
(* the life of the daemon: initialize(), recover(), crashes                *)

\* initialize() exports the canonical empty workspace into a staging file.
Boot ==
  /\ phase = "down"
  /\ phase' = "boot"
  /\ staged' = staged \cup {"boot"}
  /\ UNCHANGED <<device, objects, dirs, rows, turns, bounds>>

\* Wrong: the rows are written on the first start only.
InitializedOnce ==
  /\ phase = "boot"
  /\ device = "one" \/ objects[EmptyTree] # "none"
  /\ objects' = [objects EXCEPT ![EmptyTree] = IF @ = "none" THEN "whole" ELSE @]
  /\ staged' = staged \ {"boot"}
  /\ treeRows' = IF stops = 0 THEN treeRows \cup {EmptyTree} ELSE treeRows
  /\ commitRows' = IF stops = 0 THEN commitRows \cup {EmptyCommit} ELSE commitRows
  /\ phase' = "recover"
  /\ UNCHANGED <<device, dirs, workspaces, refs, turns, bounds>>

\* link() of the staging file: EEXIST comes before EXDEV and is taken for the
\* same object; then the rows of the empty tree and commit.
Initialized ==
  /\ phase = "boot"
  /\ device = "one" \/ objects[EmptyTree] # "none"
  /\ objects' = [objects EXCEPT ![EmptyTree] = IF @ = "none" THEN "whole" ELSE @]
  /\ staged' = staged \ {"boot"}
  /\ treeRows' = treeRows \cup {EmptyTree}
  /\ commitRows' = commitRows \cup {EmptyCommit}
  /\ phase' = "recover"
  /\ UNCHANGED <<device, dirs, workspaces, refs, turns, bounds>>

\* exportCfs has no copy to fall back on when link() says EXDEV.
BootFails ==
  /\ phase = "boot"
  /\ device = "two" /\ objects[EmptyTree] = "none"
  /\ staged' = staged \ {"boot"}
  /\ phase' = "down"
  /\ UNCHANGED <<device, objects, dirs, rows, turns, bounds>>

\* Wrong: recover() leaves the staging directory alone.
RecoverKeepsStaging ==
  /\ phase = "recover"
  /\ inst' = [t \in Turns |-> IF inst[t] = "live" THEN "ended" ELSE inst[t]]
  /\ phase' = "up"
  /\ UNCHANGED <<device, files, rows, base, pc, tree, bounds>>

\* recover(): staging is emptied, live instances are LOST, turns are FAILED.
Recover ==
  /\ phase = "recover"
  /\ staged' = {}
  /\ inst' = [t \in Turns |-> IF inst[t] = "live" THEN "ended" ELSE inst[t]]
  /\ phase' = "up"
  /\ UNCHANGED <<device, objects, dirs, rows, base, pc, tree, bounds>>

\* The process dies: what it was doing is never resumed.
Crash ==
  /\ phase # "down"
  /\ crashes < MaxCrashes
  /\ crashes' = crashes + 1
  /\ phase' = "down"
  /\ pc' = [t \in Turns |-> IF pc[t] = "new" THEN "new" ELSE "over"]
  /\ UNCHANGED <<device, files, rows, inst, base, tree, stops>>

----------------------------------------------------------------------------
(* the start of a turn: createTurnRuntime                                  *)

\* start(): a durable turn gets its thread's head, an instant one the empty
\* commit.
StartTurn(t) ==
  LET th == ThreadOf[t] IN
  /\ phase = "up"
  /\ pc[t] = "new"
  /\ ~Busy(th)
  /\ pc' = [pc EXCEPT ![t] = "base"]
  /\ base' = [base EXCEPT ![t] = IF t \in Durable THEN refs[th] ELSE EmptyCommit]
  /\ workspaces' = IF t \in Durable THEN workspaces \cup {th} ELSE workspaces
  /\ UNCHANGED <<device, files, treeRows, commitRows, refs, inst, tree, phase, bounds>>

\* The rows of the base commit and its tree are there.
HasBase(t) == base[t] \in commitRows /\ TreeOf(base[t]) \in treeRows

\* mkdir of the instance directory.
MakeDirectory(t) ==
  /\ phase = "up"
  /\ pc[t] = "base"
  /\ HasBase(t)
  /\ dirs' = dirs \cup {t}
  /\ pc' = [pc EXCEPT ![t] = "extract"]
  /\ UNCHANGED <<device, objects, staged, rows, inst, base, tree, phase, bounds>>

\* materializeCfs reads the object, then createInstance.
Materialize(t) ==
  /\ phase = "up"
  /\ pc[t] = "extract"
  /\ objects[TreeOf(base[t])] = "whole"
  /\ inst' = [inst EXCEPT ![t] = "live"]
  /\ pc' = [pc EXCEPT ![t] = "create"]
  /\ UNCHANGED <<device, files, rows, base, tree, phase, bounds>>

\* A throw before createInstance: the turn stays STARTING, and a directory
\* that was made stays for good, as gc() looks for directories by row.
StartRefused(t) ==
  /\ phase = "up"
  /\ pc[t] \in {"base", "extract"}
  /\ pc' = [pc EXCEPT ![t] = "stuck"]
  /\ UNCHANGED <<device, files, rows, inst, base, tree, phase, bounds>>

\* restoreWorkspace() of Docker writes a tar archive into the staging directory.
StageRestore(t) ==
  /\ phase = "up"
  /\ t \in Docker
  /\ pc[t] = "create"
  /\ staged' = staged \cup {t}
  /\ pc' = [pc EXCEPT ![t] = "restore"]
  /\ UNCHANGED <<device, objects, dirs, rows, inst, base, tree, phase, bounds>>

\* tar has unpacked the archive in the container, and the turn is OPEN.
OpenRuntime(t) ==
  /\ phase = "up"
  /\ pc[t] = "restore"
  /\ staged' = staged \ {t}
  /\ pc' = [pc EXCEPT ![t] = "open"]
  /\ UNCHANGED <<device, objects, dirs, rows, inst, base, tree, phase, bounds>>

\* create() of Firecracker builds the disk of the machine from the directory and
\* stages nothing.
BootMachine(t) ==
  /\ phase = "up"
  /\ t \notin Docker
  /\ pc[t] = "create"
  /\ pc' = [pc EXCEPT ![t] = "open"]
  /\ UNCHANGED <<device, files, rows, inst, base, tree, phase, bounds>>

\* create() rejects: the directory goes, the instance is FAILED.  An archive
\* that could not be written is outside the block that removes it.
CreateRefused(t) ==
  /\ phase = "up"
  /\ pc[t] \in {"create", "restore"}
  /\ \E left \in {staged, staged \ {t}} : staged' = left
  /\ dirs' = dirs \ {t}
  /\ inst' = [inst EXCEPT ![t] = "ended"]
  /\ pc' = [pc EXCEPT ![t] = "over"]
  /\ UNCHANGED <<device, objects, rows, base, tree, phase, bounds>>

----------------------------------------------------------------------------
(* the end of a turn: snapshot, ingestCfs, publishTurnCommit, deletion     *)

\* Wrong: the staging file is named by its tree, not for its turn.
CaptureByTree(t) ==
  /\ phase = "up"
  /\ t \in Durable
  /\ pc[t] = "open"
  /\ \E x \in Trees : tree' = [tree EXCEPT ![t] = x] /\ staged' = staged \cup {x}
  /\ pc' = [pc EXCEPT ![t] = "ingest"]
  /\ UNCHANGED <<device, objects, dirs, rows, inst, base, phase, bounds>>

\* The snapshot was copied out of the guest into a staging file.
Capture(t) ==
  /\ phase = "up"
  /\ t \in Durable
  /\ pc[t] = "open"
  /\ \E x \in Trees : tree' = [tree EXCEPT ![t] = x]
  /\ staged' = staged \cup {t}
  /\ pc' = [pc EXCEPT ![t] = "ingest"]
  /\ UNCHANGED <<device, objects, dirs, rows, inst, base, phase, bounds>>

\* An instant turn is finished, or a durable one fails before its snapshot.
NothingToCommit(t) ==
  /\ phase = "up"
  /\ pc[t] = "open"
  /\ pc' = [pc EXCEPT ![t] = "delete"]
  /\ UNCHANGED <<device, files, rows, inst, base, tree, phase, bounds>>

\* ingestCfs links the validated file under its digest.  A file that is there
\* is not looked at again; across file systems an empty one is made first.
LinkObject(t) ==
  LET x == tree[t]
      copies == device = "two" /\ objects[x] = "none" IN
  /\ phase = "up"
  /\ pc[t] = "ingest"
  /\ objects' = [objects EXCEPT ![x] = IF copies THEN "partial" ELSE IF @ = "none" THEN "whole" ELSE @]
  /\ pc' = [pc EXCEPT ![t] = IF copies THEN "copy" ELSE "publish"]
  /\ UNCHANGED <<device, staged, dirs, rows, inst, base, tree, phase, bounds>>

\* The copy across file systems is complete.
CopyObject(t) ==
  /\ phase = "up"
  /\ pc[t] = "copy"
  /\ objects' = [objects EXCEPT ![tree[t]] = "whole"]
  /\ pc' = [pc EXCEPT ![t] = "publish"]
  /\ UNCHANGED <<device, staged, dirs, rows, inst, base, tree, phase, bounds>>

\* Wrong: a failed ingestion removes the object of its digest.
IngestTakesBack(t) ==
  /\ phase = "up"
  /\ pc[t] \in {"ingest", "copy"}
  /\ staged' = staged \ {t}
  /\ objects' = [objects EXCEPT ![tree[t]] = "none"]
  /\ pc' = [pc EXCEPT ![t] = "delete"]
  /\ UNCHANGED <<device, dirs, rows, inst, base, tree, phase, bounds>>

\* Validation, link or copy fails.  What was copied so far stays.
IngestFails(t) ==
  /\ phase = "up"
  /\ pc[t] \in {"ingest", "copy"}
  /\ staged' = staged \ {t}
  /\ pc' = [pc EXCEPT ![t] = "delete"]
  /\ UNCHANGED <<device, objects, dirs, rows, inst, base, tree, phase, bounds>>

\* The staging file goes, then one transaction: the rows of tree and commit,
\* and the ref by compare-and-swap.
PublishCommit(t) ==
  LET th == ThreadOf[t]
      c == Append(base[t], tree[t]) IN
  /\ phase = "up"
  /\ pc[t] = "publish"
  /\ staged' = staged \ {t}
  /\ IF refs[th] = base[t]
     THEN /\ treeRows' = treeRows \cup {tree[t]}
          /\ commitRows' = commitRows \cup {c}
          /\ refs' = [refs EXCEPT ![th] = c]
     ELSE UNCHANGED <<treeRows, commitRows, refs>>
  /\ pc' = [pc EXCEPT ![t] = "delete"]
  /\ UNCHANGED <<device, objects, dirs, workspaces, inst, base, tree, phase, bounds>>

\* deleteTurnRuntime: the directory is removed unless destroy() throws first.
DeleteRuntime(t) ==
  /\ phase = "up"
  /\ pc[t] = "delete"
  /\ \E left \in {dirs, dirs \ {t}} : dirs' = left
  /\ inst' = [inst EXCEPT ![t] = "ended"]
  /\ pc' = [pc EXCEPT ![t] = "over"]
  /\ UNCHANGED <<device, objects, staged, rows, base, tree, phase, bounds>>

\* fork(): an idle source, a thread without a workspace, a commit of the
\* source's history.  There is no await in it.
ForkThread(src, dst, c) ==
  /\ phase = "up"
  /\ src \in workspaces /\ ~Busy(src)
  /\ dst \notin workspaces
  /\ c \in History(refs[src])
  /\ workspaces' = workspaces \cup {dst}
  /\ refs' = [refs EXCEPT ![dst] = c]
  /\ UNCHANGED <<device, files, treeRows, commitRows, turns, phase, bounds>>

----------------------------------------------------------------------------
(* gc(), which an orderly stop runs when no turn is left                   *)

\* listGcRoots: every head, and the base of every instance that is not ended.
GcRoots == {refs[th] : th \in workspaces} \cup {base[t] : t \in {u \in Turns : inst[u] = "live"}}

\* Wrong: gc() keeps the roots without their parents.
RootsOnly == commitRows \cap GcRoots

\* The commits gc() reaches from the roots through their parents.
Reachable == {c \in commitRows : \E r \in GcRoots : c \in History(r)}
ReachableTrees == {TreeOf(c) : c \in Reachable}

\* stop(): closeAll() ends every turn, service.close() every instance; the turns
\* a start left STARTING are FAILED now.
Stop ==
  /\ phase = "up"
  /\ stops < MaxStops
  /\ \A t \in Turns : pc[t] \in Resting
  /\ stops' = stops + 1
  /\ pc' = [t \in Turns |-> IF pc[t] = "stuck" THEN "over" ELSE pc[t]]
  /\ inst' = [t \in Turns |-> IF inst[t] = "live" THEN "ended" ELSE inst[t]]
  /\ phase' = "sweep"
  /\ UNCHANGED <<device, files, rows, base, tree, crashes>>

\* Wrong: files without a row are not looked for.
TrackedOnly == {}

\* Files in the object directory that no row tracks.
Untracked == {x \in Trees : objects[x] # "none" /\ x \notin treeRows}

\* A file no row tracks is removed.
SweepUntracked(x) ==
  /\ phase = "sweep"
  /\ x \in Untracked
  /\ objects' = [objects EXCEPT ![x] = "none"]
  /\ UNCHANGED <<device, staged, dirs, rows, turns, phase, bounds>>

\* The file of a tree no reachable commit has is removed ...
SweepFile(x) ==
  /\ phase = "sweep"
  /\ Untracked = {}
  /\ x \in treeRows \ ReachableTrees
  /\ objects[x] # "none"
  /\ objects' = [objects EXCEPT ![x] = "none"]
  /\ UNCHANGED <<device, staged, dirs, rows, turns, phase, bounds>>

\* ... and its row after it.
SweepRow(x) ==
  /\ phase = "sweep"
  /\ Untracked = {}
  /\ x \in treeRows \ ReachableTrees
  /\ objects[x] = "none"
  /\ treeRows' = treeRows \ {x}
  /\ UNCHANGED <<device, files, commitRows, workspaces, refs, turns, phase, bounds>>

\* The commit rows: deleteCommit is refused while an instance row refers to the
\* commit, ended or not, and then gc() throws before it comes to the directories.
SweepCommits ==
  LET doomed == commitRows \ Reachable
      referred == {base[t] : t \in {u \in Turns : inst[u] # "none"}} IN
  /\ phase = "sweep"
  /\ Untracked = {}
  /\ treeRows \subseteq ReachableTrees
  /\ IF doomed \cap referred = {}
     THEN commitRows' = Reachable /\ phase' = "dirs"
     ELSE UNCHANGED commitRows /\ phase' = "down"
  /\ UNCHANGED <<device, files, treeRows, workspaces, refs, turns, bounds>>

\* The directory of an ended instance is removed.
SweepDirectory(t) ==
  /\ phase = "dirs"
  /\ t \in dirs
  /\ inst[t] = "ended"
  /\ dirs' = dirs \ {t}
  /\ UNCHANGED <<device, objects, staged, rows, turns, phase, bounds>>

\* gc() returns and the process exits.
Stopped ==
  /\ phase = "dirs"
  /\ \A t \in dirs : inst[t] # "ended"
  /\ phase' = "down"
  /\ UNCHANGED <<device, files, rows, turns, bounds>>

----------------------------------------------------------------------------
TurnStep(t) ==
  \/ StartTurn(t) \/ MakeDirectory(t) \/ Materialize(t) \/ StartRefused(t)
  \/ StageRestore(t) \/ OpenRuntime(t) \/ BootMachine(t) \/ CreateRefused(t)
  \/ Capture(t) \/ NothingToCommit(t) \/ LinkObject(t) \/ CopyObject(t) \/ IngestFails(t)
  \/ PublishCommit(t) \/ DeleteRuntime(t) \/ SweepDirectory(t)

DaemonStep ==
  \/ Boot \/ Initialized \/ BootFails \/ Recover \/ Crash
  \/ Stop \/ SweepCommits \/ Stopped

StoreNext ==
  \/ DaemonStep
  \/ \E t \in Turns : TurnStep(t)
  \/ \E x \in Trees : SweepUntracked(x) \/ SweepFile(x) \/ SweepRow(x)
  \/ \E src, dst \in Threads : \E c \in commitRows : ForkThread(src, dst, c)

StoreSpec == StoreInit /\ [][StoreNext]_storeVars

----------------------------------------------------------------------------
(* properties                                                              *)

\* Every commit of every thread's history has its row, its tree has a row, and
\* the object of the tree is complete, at every instant: while turns link the
\* objects of others, while gc() deletes, and after a crash in between
\* (recovery.ts:76, cfs.ts:217).  Across file systems the code does not promise
\* this: a file that is being copied already has its name.
HeadsMaterialize ==
  device = "one" =>
    \A th \in workspaces : \A c \in History(refs[th]) :
      c \in commitRows /\ TreeOf(c) \in treeRows /\ objects[TreeOf(c)] = "whole"

\* A turn that starts finds its base: the empty commit a gc() took away is
\* restored by initialize() before anybody can ask for it
\* (sandbox-service.ts:90-93, index.ts:33).
BaseIsThere ==
  \A t \in Turns : pc[t] \in {"base", "extract"} =>
    HasBase(t) /\ (device = "one" => objects[TreeOf(base[t])] = "whole")

\* While the daemon serves, a staging file belongs to a turn that is working on
\* it, or is the archive of a Docker runtime that could not be created; what a
\* crash left is gone (recovery.ts:35-39, docker.ts:269-282).
StagingHasOwner ==
  phase = "up" => \A t \in staged :
    /\ t \in Turns
    /\ \/ pc[t] \in {"restore", "ingest", "copy", "publish"}
       \/ t \in Docker /\ pc[t] = "over" /\ inst[t] = "ended"

\* A complete object loses its file only in gc(), and only when no head and no
\* live instance can ask for it again: nothing is overwritten or taken back by a
\* turn that fails (cfs.ts:152, 218, recovery.ts:88).
ObjectsAreKept ==
  [][\A x \in Trees : objects[x] = "whole" /\ objects'[x] # "whole" =>
       /\ phase = "sweep"
       /\ \A th \in workspaces : \A c \in History(refs[th]) : TreeOf(c) # x]_storeVars

\* A stop that got through gc() leaves nothing behind but what gc() cannot see:
\* the objects are those of the histories, and a directory that is left belongs
\* to a turn whose start never made an instance row (recovery.ts:81-118).
GcIsComplete ==
  [][phase = "dirs" /\ phase' = "down" /\ crashes' = crashes =>
       /\ {x \in Trees : objects[x] # "none"} \subseteq
            {TreeOf(c) : c \in UNION {History(refs[th]) : th \in workspaces}}
       /\ \A t \in dirs : inst[t] = "none" /\ pc[t] = "over"]_storeVars
=============================================================================

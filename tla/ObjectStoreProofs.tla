------------------------- MODULE ObjectStoreProofs -------------------------
(***************************************************************************)
(* Theorems about ObjectStore: StoreInv is inductive, and the safety        *)
(* properties and action properties of the module follow from it.           *)
(***************************************************************************)
EXTENDS ObjectStore, TLAPS

----------------------------------------------------------------------------
(* the inductive invariant                                                 *)

\* Turns are under way only while the daemon serves.
Serving == phase # "up" => \A t \in Turns : pc[t] \in Resting

\* A thread that owns no workspace has no head of its own.
NoHead == \A th \in Threads \ workspaces : refs[th] = EmptyCommit

\* The rows of a history are there, whatever the devices.
RowsThere ==
  \A th \in workspaces : \A c \in History(refs[th]) : c \in commitRows /\ TreeOf(c) \in treeRows

\* From initialize() to the end of service the empty commit is there.
EmptyThere ==
  phase \in {"recover", "up"} =>
    /\ EmptyCommit \in commitRows
    /\ EmptyTree \in treeRows
    /\ device = "one" => objects[EmptyTree] = "whole"

\* A durable turn under way owns its workspace; only such a turn publishes.
Owned ==
  \A t \in Turns :
    /\ t \in Durable /\ pc[t] \notin {"new", "over"} => ThreadOf[t] \in workspaces
    /\ pc[t] \in {"ingest", "copy", "publish"} => t \in Durable

\* On one file system no object is ever seen in part.
OneDevice ==
  device = "one" =>
    /\ \A x \in Trees : objects[x] # "partial"
    /\ \A t \in Turns : pc[t] # "copy" /\ (pc[t] = "publish" => objects[tree[t]] = "whole")

HeadsInv ==
  /\ Serving /\ NoHead /\ RowsThere /\ HeadsMaterialize
  /\ EmptyThere /\ Owned /\ OneDevice /\ BaseIsThere

\* Only a Docker runtime is restored from a staged archive.
StagingInv ==
  /\ StagingHasOwner
  /\ \A t \in Turns : pc[t] = "restore" => t \in Docker

\* gc() runs when no instance lives and no turn is left, and in its last part the
\* objects are those of the histories.
SweepInv ==
  /\ phase \in {"sweep", "dirs"} => \A t \in Turns : inst[t] # "live" /\ pc[t] # "stuck"
  /\ \A t \in dirs : pc[t] # "new"
  /\ phase = "dirs" => \A x \in Trees : objects[x] # "none" =>
       \E th \in workspaces : \E c \in History(refs[th]) : x = TreeOf(c)

StoreInv == StoreTypeOK /\ HeadsInv /\ StagingInv /\ SweepInv

----------------------------------------------------------------------------
(* commits and their histories                                             *)

\* The root of every history is a sequence of trees.
LEMMA EmptyIsCommit == EmptyCommit \in Seq(Trees)
  BY DEF EmptyCommit

\* So is what publishTurnCommit adds (repository.ts:267-272).
LEMMA AppendIsCommit ==
  ASSUME NEW c \in Seq(Trees), NEW x \in Trees PROVE Append(c, x) \in Seq(Trees)
  OBVIOUS


\* The first commit is the only one of its history.
LEMMA HistoryOfEmpty == History(EmptyCommit) = {EmptyCommit}
  <1>1. Len(<<>>) = 0 /\ SubSeq(<<>>, 1, 0) = <<>>
    OBVIOUS
  <1>2. 0 .. 0 = {0}
    OBVIOUS
  <1> QED
    BY <1>1, <1>2 DEF History, EmptyCommit

\* A commit adds itself to the history of its parent.
LEMMA HistoryOfAppend ==
  ASSUME NEW b \in Seq(Trees), NEW x \in Trees
  PROVE  History(Append(b, x)) \subseteq History(b) \cup {Append(b, x)}
  <1> DEFINE c == Append(b, x)
  <1>1. c \in Seq(Trees) /\ Len(c) = Len(b) + 1 /\ Len(b) \in Nat
    OBVIOUS
  <1>2. SUFFICES ASSUME NEW n \in 0 .. Len(c)
                 PROVE  SubSeq(c, 1, n) \in History(b) \cup {c}
    BY DEF History
  <1>3. CASE n = Len(c)
    BY <1>1, <1>3
  <1>4. CASE n # Len(c)
    <2>1. n \in 0 .. Len(b)
      BY <1>1, <1>4
    <2>2. SubSeq(c, 1, n) = SubSeq(b, 1, n)
      BY <1>1, <2>1
    <2> QED
      BY <2>1, <2>2 DEF History
  <1> QED
    BY <1>3, <1>4

\* The history of a commit goes with it.
LEMMA HistoryOfPrefix ==
  ASSUME NEW b \in Seq(Trees), NEW c \in History(b)
  PROVE  History(c) \subseteq History(b)
  <1>1. PICK n \in 0 .. Len(b) : c = SubSeq(b, 1, n)
    BY DEF History
  <1>2. c \in Seq(Trees) /\ Len(c) = n
    BY <1>1
  <1>3. SUFFICES ASSUME NEW m \in 0 .. Len(c)
                 PROVE  SubSeq(c, 1, m) \in History(b)
    BY DEF History
  <1>4. SubSeq(c, 1, m) = SubSeq(b, 1, m) /\ m \in 0 .. Len(b)
    BY <1>1, <1>2
  <1> QED
    BY <1>4 DEF History

\* A commit belongs to its own history.
LEMMA HistoryOfSelf == ASSUME NEW c \in Seq(Trees) PROVE c \in History(c)
  <1>1. Len(c) \in 0 .. Len(c) /\ SubSeq(c, 1, Len(c)) = c
    OBVIOUS
  <1> QED
    BY <1>1 DEF History

\* A new commit has the tree that was captured for it.
LEMMA TreeOfAppend ==
  ASSUME NEW b \in Seq(Trees), NEW x \in Trees
  PROVE  TreeOf(Append(b, x)) = x
  <1>1. Append(b, x) # <<>> /\ Append(b, x)[Len(Append(b, x))] = x
    OBVIOUS
  <1> QED
    BY <1>1 DEF TreeOf, EmptyCommit

\* gc() reaches the histories of the heads.
LEMMA HeadsReachable ==
  ASSUME RowsThere, NEW th \in workspaces, NEW c \in History(refs[th])
  PROVE  c \in Reachable /\ TreeOf(c) \in ReachableTrees /\ TreeOf(c) \in treeRows
  BY DEF RowsThere, Reachable, ReachableTrees, GcRoots

----------------------------------------------------------------------------
(* every action keeps the invariant                                        *)

\* Boot keeps the types, the histories, the staging directory and what gc() relies on.
LEMMA BootKeeps ==
  ASSUME StoreInv, Boot
  PROVE  StoreInv'
  <1>1. StoreTypeOK'
    BY StoreAssumption, EmptyIsCommit DEF StoreInv, Boot, StoreTypeOK, TurnPcs, Phases, files,
      rows, turns, bounds
  <1>2. HeadsInv'
    BY StoreAssumption DEF StoreInv, Boot, StoreTypeOK, TurnPcs, HeadsInv, Serving, NoHead,
      RowsThere, HeadsMaterialize, EmptyThere, Owned, OneDevice, BaseIsThere, HasBase, Resting,
      files, rows, turns, bounds
  <1>3. StagingInv'
    BY StoreAssumption DEF StoreInv, Boot, StoreTypeOK, TurnPcs, StagingInv, StagingHasOwner,
      files, rows, turns, bounds
  <1>4. SweepInv'
    BY StoreAssumption DEF StoreInv, Boot, StoreTypeOK, TurnPcs, Phases, SweepInv, HeadsInv,
      Serving, Resting, files, rows, turns, bounds
  <1> QED
    BY <1>1, <1>2, <1>3, <1>4 DEF StoreInv

\* Initialized keeps the types, the histories, the staging directory and what gc() relies on.
LEMMA InitializedKeeps ==
  ASSUME StoreInv, Initialized
  PROVE  StoreInv'
  <1>1. StoreTypeOK'
    BY StoreAssumption, EmptyIsCommit DEF StoreInv, Initialized, StoreTypeOK, TurnPcs, Phases,
      files, rows, turns, bounds
  <1>2. HeadsInv'
    BY StoreAssumption DEF StoreInv, Initialized, StoreTypeOK, TurnPcs, HeadsInv, Serving, NoHead,
      RowsThere, HeadsMaterialize, EmptyThere, Owned, OneDevice, BaseIsThere, HasBase, Resting,
      files, rows, turns, bounds
  <1>3. StagingInv'
    BY StoreAssumption DEF StoreInv, Initialized, StoreTypeOK, TurnPcs, StagingInv,
      StagingHasOwner, files, rows, turns, bounds
  <1>4. SweepInv'
    BY StoreAssumption DEF StoreInv, Initialized, StoreTypeOK, TurnPcs, Phases, SweepInv,
      HeadsInv, Serving, Resting, files, rows, turns, bounds
  <1> QED
    BY <1>1, <1>2, <1>3, <1>4 DEF StoreInv

\* BootFails keeps the types, the histories, the staging directory and what gc() relies on.
LEMMA BootFailsKeeps ==
  ASSUME StoreInv, BootFails
  PROVE  StoreInv'
  <1>1. StoreTypeOK'
    BY StoreAssumption, EmptyIsCommit DEF StoreInv, BootFails, StoreTypeOK, TurnPcs, Phases,
      files, rows, turns, bounds
  <1>2. HeadsInv'
    BY StoreAssumption DEF StoreInv, BootFails, StoreTypeOK, TurnPcs, HeadsInv, Serving, NoHead,
      RowsThere, HeadsMaterialize, EmptyThere, Owned, OneDevice, BaseIsThere, HasBase, Resting,
      files, rows, turns, bounds
  <1>3. StagingInv'
    BY StoreAssumption DEF StoreInv, BootFails, StoreTypeOK, TurnPcs, StagingInv, StagingHasOwner,
      files, rows, turns, bounds
  <1>4. SweepInv'
    BY StoreAssumption DEF StoreInv, BootFails, StoreTypeOK, TurnPcs, Phases, SweepInv, HeadsInv,
      Serving, Resting, files, rows, turns, bounds
  <1> QED
    BY <1>1, <1>2, <1>3, <1>4 DEF StoreInv

\* Recover keeps the types, the histories, the staging directory and what gc() relies on.
LEMMA RecoverKeeps ==
  ASSUME StoreInv, Recover
  PROVE  StoreInv'
  <1>1. StoreTypeOK'
    BY StoreAssumption, EmptyIsCommit DEF StoreInv, Recover, StoreTypeOK, TurnPcs, Phases, files,
      rows, turns, bounds
  <1>2. HeadsInv'
    BY StoreAssumption DEF StoreInv, Recover, StoreTypeOK, TurnPcs, HeadsInv, Serving, NoHead,
      RowsThere, HeadsMaterialize, EmptyThere, Owned, OneDevice, BaseIsThere, HasBase, Resting,
      files, rows, turns, bounds
  <1>3. StagingInv'
    BY StoreAssumption DEF StoreInv, Recover, StoreTypeOK, TurnPcs, StagingInv, StagingHasOwner,
      files, rows, turns, bounds
  <1>4. SweepInv'
    BY StoreAssumption DEF StoreInv, Recover, StoreTypeOK, TurnPcs, Phases, SweepInv, HeadsInv,
      Serving, Resting, files, rows, turns, bounds
  <1> QED
    BY <1>1, <1>2, <1>3, <1>4 DEF StoreInv

\* Crash keeps the types, the histories, the staging directory and what gc() relies on.
LEMMA CrashKeeps ==
  ASSUME StoreInv, Crash
  PROVE  StoreInv'
  <1>1. StoreTypeOK'
    BY StoreAssumption, EmptyIsCommit DEF StoreInv, Crash, StoreTypeOK, TurnPcs, Phases, files,
      rows, turns, bounds
  <1>2. HeadsInv'
    BY StoreAssumption DEF StoreInv, Crash, StoreTypeOK, TurnPcs, HeadsInv, Serving, NoHead,
      RowsThere, HeadsMaterialize, EmptyThere, Owned, OneDevice, BaseIsThere, HasBase, Resting,
      files, rows, turns, bounds
  <1>3. StagingInv'
    BY StoreAssumption DEF StoreInv, Crash, StoreTypeOK, TurnPcs, StagingInv, StagingHasOwner,
      files, rows, turns, bounds
  <1>4. SweepInv'
    BY StoreAssumption DEF StoreInv, Crash, StoreTypeOK, TurnPcs, Phases, SweepInv, HeadsInv,
      Serving, Resting, files, rows, turns, bounds
  <1> QED
    BY <1>1, <1>2, <1>3, <1>4 DEF StoreInv

\* Stop keeps the types, the histories, the staging directory and what gc() relies on.
LEMMA StopKeeps ==
  ASSUME StoreInv, Stop
  PROVE  StoreInv'
  <1>1. StoreTypeOK'
    BY StoreAssumption, EmptyIsCommit DEF StoreInv, Stop, StoreTypeOK, TurnPcs, Phases, files,
      rows, turns, bounds
  <1>2. HeadsInv'
    BY StoreAssumption DEF StoreInv, Stop, StoreTypeOK, TurnPcs, HeadsInv, Serving, NoHead,
      RowsThere, HeadsMaterialize, EmptyThere, Owned, OneDevice, BaseIsThere, HasBase, Resting,
      files, rows, turns, bounds
  <1>3. StagingInv'
    BY StoreAssumption DEF StoreInv, Stop, StoreTypeOK, TurnPcs, StagingInv, StagingHasOwner,
      files, rows, turns, bounds
  <1>4. SweepInv'
    BY StoreAssumption DEF StoreInv, Stop, StoreTypeOK, TurnPcs, Phases, SweepInv, HeadsInv,
      Serving, Resting, files, rows, turns, bounds
  <1> QED
    BY <1>1, <1>2, <1>3, <1>4 DEF StoreInv

\* SweepCommits keeps the types, the histories, the staging directory and what gc() relies on.
LEMMA SweepCommitsKeeps ==
  ASSUME StoreInv, SweepCommits
  PROVE  StoreInv'
  <1>1. StoreTypeOK'
    <2>1. Reachable \subseteq commitRows
      BY DEF Reachable
    <2> QED
      BY <2>1, StoreAssumption DEF StoreInv, SweepCommits, StoreTypeOK, Phases, files, rows,
        turns, bounds
  <1>2. HeadsInv'
    <2>1. RowsThere'
      BY HeadsReachable DEF StoreInv, SweepCommits, HeadsInv, RowsThere, files, rows, turns, bounds
    <2>2. HeadsMaterialize'
      BY <2>1 DEF StoreInv, SweepCommits, HeadsInv, RowsThere, HeadsMaterialize, files, rows,
        turns, bounds
    <2>3. (Serving /\ NoHead /\ EmptyThere /\ Owned /\ OneDevice /\ BaseIsThere)'
      BY DEF StoreInv, SweepCommits, HeadsInv, Serving, NoHead, RowsThere, HeadsMaterialize,
        EmptyThere, Owned, OneDevice, BaseIsThere, HasBase, Resting, files, rows, turns, bounds
    <2> QED
      BY <2>1, <2>2, <2>3 DEF HeadsInv
  <1>3. StagingInv'
    BY StoreAssumption DEF StoreInv, SweepCommits, StoreTypeOK, TurnPcs, StagingInv,
      StagingHasOwner, files, rows, turns, bounds
  <1>4. SweepInv'
    <2>1. \A t \in Turns : inst[t] # "live" /\ pc[t] # "stuck"
      BY DEF StoreInv, SweepCommits, SweepInv
    <2>2. ASSUME NEW x \in Trees, objects[x] # "none"
          PROVE  \E th \in workspaces : \E c \in History(refs[th]) : x = TreeOf(c)
      <3>1. x \in ReachableTrees
        BY <2>2 DEF SweepCommits, Untracked
      <3>2. PICK c \in Reachable : x = TreeOf(c)
        BY <3>1 DEF ReachableTrees
      <3>3. PICK r \in GcRoots : c \in History(r)
        BY <3>2 DEF Reachable
      <3>4. \E th \in workspaces : r = refs[th]
        BY <2>1, <3>3 DEF GcRoots
      <3> QED
        BY <3>2, <3>3, <3>4
    <2> QED
      BY <2>1, <2>2 DEF StoreInv, SweepCommits, SweepInv, files, rows, turns, bounds
  <1> QED
    BY <1>1, <1>2, <1>3, <1>4 DEF StoreInv

\* Stopped keeps the types, the histories, the staging directory and what gc() relies on.
LEMMA StoppedKeeps ==
  ASSUME StoreInv, Stopped
  PROVE  StoreInv'
  <1>1. StoreTypeOK'
    BY StoreAssumption, EmptyIsCommit DEF StoreInv, Stopped, StoreTypeOK, TurnPcs, Phases, files,
      rows, turns, bounds
  <1>2. HeadsInv'
    BY StoreAssumption DEF StoreInv, Stopped, StoreTypeOK, TurnPcs, HeadsInv, Serving, NoHead,
      RowsThere, HeadsMaterialize, EmptyThere, Owned, OneDevice, BaseIsThere, HasBase, Resting,
      files, rows, turns, bounds
  <1>3. StagingInv'
    BY StoreAssumption DEF StoreInv, Stopped, StoreTypeOK, TurnPcs, StagingInv, StagingHasOwner,
      files, rows, turns, bounds
  <1>4. SweepInv'
    BY StoreAssumption DEF StoreInv, Stopped, StoreTypeOK, TurnPcs, Phases, SweepInv, HeadsInv,
      Serving, Resting, files, rows, turns, bounds
  <1> QED
    BY <1>1, <1>2, <1>3, <1>4 DEF StoreInv

\* StartTurn keeps the types, the histories, the staging directory and what gc() relies on.
LEMMA StartTurnKeeps ==
  ASSUME StoreInv, NEW t \in Turns, StartTurn(t)
  PROVE  StoreInv'
  <1>1. StoreTypeOK'
    BY StoreAssumption, EmptyIsCommit DEF StoreInv, StartTurn, StoreTypeOK, TurnPcs, Phases,
      files, rows, turns, bounds
  <1>2. HeadsInv'
    <2> DEFINE th == ThreadOf[t]
    <2>1. th \in Threads /\ EmptyCommit \in commitRows /\ TreeOf(EmptyCommit) = EmptyTree
      BY StoreAssumption DEF StoreInv, StartTurn, HeadsInv, EmptyThere, TreeOf
    <2>2. \A c \in History(refs[th]) : (t \in Durable \/ th \in workspaces) =>
            /\ c \in commitRows /\ TreeOf(c) \in treeRows
            /\ device = "one" => objects[TreeOf(c)] = "whole"
      <3>1. CASE th \in workspaces
        BY <3>1 DEF StoreInv, HeadsInv, RowsThere, HeadsMaterialize
      <3>2. CASE th \notin workspaces
        BY <2>1, <3>2, HistoryOfEmpty DEF StoreInv, StartTurn, HeadsInv, NoHead, EmptyThere
      <3> QED
        BY <3>1, <3>2
    <2>3. RowsThere' /\ HeadsMaterialize'
      BY <2>2 DEF StoreInv, StartTurn, HeadsInv, RowsThere, HeadsMaterialize, files, rows, turns,
        bounds
    <2>4. refs[th] \in History(refs[th])
      BY <2>1, HistoryOfSelf DEF StoreInv, StoreTypeOK
    <2>5. /\ base'[t] \in commitRows /\ TreeOf(base'[t]) \in treeRows
          /\ device = "one" => objects[TreeOf(base'[t])] = "whole"
      BY <2>1, <2>2, <2>4 DEF StoreInv, StoreTypeOK, StartTurn, HeadsInv, EmptyThere
    <2>6. BaseIsThere'
      BY <2>5 DEF StoreInv, StoreTypeOK, StartTurn, HeadsInv, BaseIsThere, HasBase, files, rows,
        turns, bounds
    <2>7. (Serving /\ NoHead /\ EmptyThere /\ Owned /\ OneDevice)'
      BY StoreAssumption DEF StoreInv, StoreTypeOK, StartTurn, HeadsInv, Serving, NoHead,
        RowsThere, HeadsMaterialize, EmptyThere, Owned, OneDevice, BaseIsThere, HasBase, Resting,
        files, rows, turns, bounds
    <2> QED
      BY <2>3, <2>6, <2>7 DEF HeadsInv
  <1>3. StagingInv'
    BY StoreAssumption DEF StoreInv, StartTurn, StoreTypeOK, TurnPcs, StagingInv, StagingHasOwner,
      files, rows, turns, bounds
  <1>4. SweepInv'
    BY StoreAssumption DEF StoreInv, StartTurn, StoreTypeOK, TurnPcs, Phases, SweepInv, HeadsInv,
      Serving, Resting, files, rows, turns, bounds
  <1> QED
    BY <1>1, <1>2, <1>3, <1>4 DEF StoreInv

\* MakeDirectory keeps the types, the histories, the staging directory and what gc() relies on.
LEMMA MakeDirectoryKeeps ==
  ASSUME StoreInv, NEW t \in Turns, MakeDirectory(t)
  PROVE  StoreInv'
  <1>1. StoreTypeOK'
    BY StoreAssumption, EmptyIsCommit DEF StoreInv, MakeDirectory, StoreTypeOK, TurnPcs, Phases,
      files, rows, turns, bounds
  <1>2. HeadsInv'
    BY StoreAssumption DEF StoreInv, MakeDirectory, StoreTypeOK, TurnPcs, HeadsInv, Serving,
      NoHead, RowsThere, HeadsMaterialize, EmptyThere, Owned, OneDevice, BaseIsThere, HasBase,
      Resting, files, rows, turns, bounds
  <1>3. StagingInv'
    BY StoreAssumption DEF StoreInv, MakeDirectory, StoreTypeOK, TurnPcs, StagingInv,
      StagingHasOwner, files, rows, turns, bounds
  <1>4. SweepInv'
    BY StoreAssumption DEF StoreInv, MakeDirectory, StoreTypeOK, TurnPcs, Phases, SweepInv,
      HeadsInv, Serving, Resting, files, rows, turns, bounds
  <1> QED
    BY <1>1, <1>2, <1>3, <1>4 DEF StoreInv

\* Materialize keeps the types, the histories, the staging directory and what gc() relies on.
LEMMA MaterializeKeeps ==
  ASSUME StoreInv, NEW t \in Turns, Materialize(t)
  PROVE  StoreInv'
  <1>1. StoreTypeOK'
    BY StoreAssumption, EmptyIsCommit DEF StoreInv, Materialize, StoreTypeOK, TurnPcs, Phases,
      files, rows, turns, bounds
  <1>2. HeadsInv'
    BY StoreAssumption DEF StoreInv, Materialize, StoreTypeOK, TurnPcs, HeadsInv, Serving, NoHead,
      RowsThere, HeadsMaterialize, EmptyThere, Owned, OneDevice, BaseIsThere, HasBase, Resting,
      files, rows, turns, bounds
  <1>3. StagingInv'
    BY StoreAssumption DEF StoreInv, Materialize, StoreTypeOK, TurnPcs, StagingInv,
      StagingHasOwner, files, rows, turns, bounds
  <1>4. SweepInv'
    BY StoreAssumption DEF StoreInv, Materialize, StoreTypeOK, TurnPcs, Phases, SweepInv,
      HeadsInv, Serving, Resting, files, rows, turns, bounds
  <1> QED
    BY <1>1, <1>2, <1>3, <1>4 DEF StoreInv

\* StartRefused keeps the types, the histories, the staging directory and what gc() relies on.
LEMMA StartRefusedKeeps ==
  ASSUME StoreInv, NEW t \in Turns, StartRefused(t)
  PROVE  StoreInv'
  <1>1. StoreTypeOK'
    BY StoreAssumption, EmptyIsCommit DEF StoreInv, StartRefused, StoreTypeOK, TurnPcs, Phases,
      files, rows, turns, bounds
  <1>2. HeadsInv'
    BY StoreAssumption DEF StoreInv, StartRefused, StoreTypeOK, TurnPcs, HeadsInv, Serving,
      NoHead, RowsThere, HeadsMaterialize, EmptyThere, Owned, OneDevice, BaseIsThere, HasBase,
      Resting, files, rows, turns, bounds
  <1>3. StagingInv'
    BY StoreAssumption DEF StoreInv, StartRefused, StoreTypeOK, TurnPcs, StagingInv,
      StagingHasOwner, files, rows, turns, bounds
  <1>4. SweepInv'
    BY StoreAssumption DEF StoreInv, StartRefused, StoreTypeOK, TurnPcs, Phases, SweepInv,
      HeadsInv, Serving, Resting, files, rows, turns, bounds
  <1> QED
    BY <1>1, <1>2, <1>3, <1>4 DEF StoreInv

\* StageRestore keeps the types, the histories, the staging directory and what gc() relies on.
LEMMA StageRestoreKeeps ==
  ASSUME StoreInv, NEW t \in Turns, StageRestore(t)
  PROVE  StoreInv'
  <1>1. StoreTypeOK'
    BY StoreAssumption, EmptyIsCommit DEF StoreInv, StageRestore, StoreTypeOK, TurnPcs, Phases,
      files, rows, turns, bounds
  <1>2. HeadsInv'
    BY StoreAssumption DEF StoreInv, StageRestore, StoreTypeOK, TurnPcs, HeadsInv, Serving,
      NoHead, RowsThere, HeadsMaterialize, EmptyThere, Owned, OneDevice, BaseIsThere, HasBase,
      Resting, files, rows, turns, bounds
  <1>3. StagingInv'
    BY StoreAssumption DEF StoreInv, StageRestore, StoreTypeOK, TurnPcs, StagingInv,
      StagingHasOwner, files, rows, turns, bounds
  <1>4. SweepInv'
    BY StoreAssumption DEF StoreInv, StageRestore, StoreTypeOK, TurnPcs, Phases, SweepInv,
      HeadsInv, Serving, Resting, files, rows, turns, bounds
  <1> QED
    BY <1>1, <1>2, <1>3, <1>4 DEF StoreInv

\* OpenRuntime keeps the types, the histories, the staging directory and what gc() relies on.
LEMMA OpenRuntimeKeeps ==
  ASSUME StoreInv, NEW t \in Turns, OpenRuntime(t)
  PROVE  StoreInv'
  <1>1. StoreTypeOK'
    BY StoreAssumption, EmptyIsCommit DEF StoreInv, OpenRuntime, StoreTypeOK, TurnPcs, Phases,
      files, rows, turns, bounds
  <1>2. HeadsInv'
    BY StoreAssumption DEF StoreInv, OpenRuntime, StoreTypeOK, TurnPcs, HeadsInv, Serving, NoHead,
      RowsThere, HeadsMaterialize, EmptyThere, Owned, OneDevice, BaseIsThere, HasBase, Resting,
      files, rows, turns, bounds
  <1>3. StagingInv'
    BY StoreAssumption DEF StoreInv, OpenRuntime, StoreTypeOK, TurnPcs, StagingInv,
      StagingHasOwner, files, rows, turns, bounds
  <1>4. SweepInv'
    BY StoreAssumption DEF StoreInv, OpenRuntime, StoreTypeOK, TurnPcs, Phases, SweepInv,
      HeadsInv, Serving, Resting, files, rows, turns, bounds
  <1> QED
    BY <1>1, <1>2, <1>3, <1>4 DEF StoreInv

\* BootMachine keeps the types, the histories, the staging directory and what gc() relies on.
LEMMA BootMachineKeeps ==
  ASSUME StoreInv, NEW t \in Turns, BootMachine(t)
  PROVE  StoreInv'
  <1>1. StoreTypeOK'
    BY StoreAssumption, EmptyIsCommit DEF StoreInv, BootMachine, StoreTypeOK, TurnPcs, Phases,
      files, rows, turns, bounds
  <1>2. HeadsInv'
    BY StoreAssumption DEF StoreInv, BootMachine, StoreTypeOK, TurnPcs, HeadsInv, Serving, NoHead,
      RowsThere, HeadsMaterialize, EmptyThere, Owned, OneDevice, BaseIsThere, HasBase, Resting,
      files, rows, turns, bounds
  <1>3. StagingInv'
    BY StoreAssumption DEF StoreInv, BootMachine, StoreTypeOK, TurnPcs, StagingInv,
      StagingHasOwner, files, rows, turns, bounds
  <1>4. SweepInv'
    BY StoreAssumption DEF StoreInv, BootMachine, StoreTypeOK, TurnPcs, Phases, SweepInv,
      HeadsInv, Serving, Resting, files, rows, turns, bounds
  <1> QED
    BY <1>1, <1>2, <1>3, <1>4 DEF StoreInv

\* CreateRefused keeps the types, the histories, the staging directory and what gc() relies on.
LEMMA CreateRefusedKeeps ==
  ASSUME StoreInv, NEW t \in Turns, CreateRefused(t)
  PROVE  StoreInv'
  <1>1. StoreTypeOK'
    BY StoreAssumption, EmptyIsCommit DEF StoreInv, CreateRefused, StoreTypeOK, TurnPcs, Phases,
      files, rows, turns, bounds
  <1>2. HeadsInv'
    BY StoreAssumption DEF StoreInv, CreateRefused, StoreTypeOK, TurnPcs, HeadsInv, Serving,
      NoHead, RowsThere, HeadsMaterialize, EmptyThere, Owned, OneDevice, BaseIsThere, HasBase,
      Resting, files, rows, turns, bounds
  <1>3. StagingInv'
    BY StoreAssumption DEF StoreInv, CreateRefused, StoreTypeOK, TurnPcs, StagingInv,
      StagingHasOwner, files, rows, turns, bounds
  <1>4. SweepInv'
    BY StoreAssumption DEF StoreInv, CreateRefused, StoreTypeOK, TurnPcs, Phases, SweepInv,
      HeadsInv, Serving, Resting, files, rows, turns, bounds
  <1> QED
    BY <1>1, <1>2, <1>3, <1>4 DEF StoreInv

\* Capture keeps the types, the histories, the staging directory and what gc() relies on.
LEMMA CaptureKeeps ==
  ASSUME StoreInv, NEW t \in Turns, Capture(t)
  PROVE  StoreInv'
  <1>1. StoreTypeOK'
    BY StoreAssumption, EmptyIsCommit DEF StoreInv, Capture, StoreTypeOK, TurnPcs, Phases, files,
      rows, turns, bounds
  <1>2. HeadsInv'
    BY StoreAssumption DEF StoreInv, Capture, StoreTypeOK, TurnPcs, HeadsInv, Serving, NoHead,
      RowsThere, HeadsMaterialize, EmptyThere, Owned, OneDevice, BaseIsThere, HasBase, Resting,
      files, rows, turns, bounds
  <1>3. StagingInv'
    BY StoreAssumption DEF StoreInv, Capture, StoreTypeOK, TurnPcs, StagingInv, StagingHasOwner,
      files, rows, turns, bounds
  <1>4. SweepInv'
    BY StoreAssumption DEF StoreInv, Capture, StoreTypeOK, TurnPcs, Phases, SweepInv, HeadsInv,
      Serving, Resting, files, rows, turns, bounds
  <1> QED
    BY <1>1, <1>2, <1>3, <1>4 DEF StoreInv

\* NothingToCommit keeps the types, the histories, the staging directory and what gc() relies on.
LEMMA NothingToCommitKeeps ==
  ASSUME StoreInv, NEW t \in Turns, NothingToCommit(t)
  PROVE  StoreInv'
  <1>1. StoreTypeOK'
    BY StoreAssumption, EmptyIsCommit DEF StoreInv, NothingToCommit, StoreTypeOK, TurnPcs, Phases,
      files, rows, turns, bounds
  <1>2. HeadsInv'
    BY StoreAssumption DEF StoreInv, NothingToCommit, StoreTypeOK, TurnPcs, HeadsInv, Serving,
      NoHead, RowsThere, HeadsMaterialize, EmptyThere, Owned, OneDevice, BaseIsThere, HasBase,
      Resting, files, rows, turns, bounds
  <1>3. StagingInv'
    BY StoreAssumption DEF StoreInv, NothingToCommit, StoreTypeOK, TurnPcs, StagingInv,
      StagingHasOwner, files, rows, turns, bounds
  <1>4. SweepInv'
    BY StoreAssumption DEF StoreInv, NothingToCommit, StoreTypeOK, TurnPcs, Phases, SweepInv,
      HeadsInv, Serving, Resting, files, rows, turns, bounds
  <1> QED
    BY <1>1, <1>2, <1>3, <1>4 DEF StoreInv

\* LinkObject keeps the types, the histories, the staging directory and what gc() relies on.
LEMMA LinkObjectKeeps ==
  ASSUME StoreInv, NEW t \in Turns, LinkObject(t)
  PROVE  StoreInv'
  <1>1. StoreTypeOK'
    BY StoreAssumption, EmptyIsCommit DEF StoreInv, LinkObject, StoreTypeOK, TurnPcs, Phases,
      files, rows, turns, bounds
  <1>2. HeadsInv'
    BY StoreAssumption DEF StoreInv, LinkObject, StoreTypeOK, TurnPcs, HeadsInv, Serving, NoHead,
      RowsThere, HeadsMaterialize, EmptyThere, Owned, OneDevice, BaseIsThere, HasBase, Resting,
      files, rows, turns, bounds
  <1>3. StagingInv'
    BY StoreAssumption DEF StoreInv, LinkObject, StoreTypeOK, TurnPcs, StagingInv,
      StagingHasOwner, files, rows, turns, bounds
  <1>4. SweepInv'
    BY StoreAssumption DEF StoreInv, LinkObject, StoreTypeOK, TurnPcs, Phases, SweepInv, HeadsInv,
      Serving, Resting, files, rows, turns, bounds
  <1> QED
    BY <1>1, <1>2, <1>3, <1>4 DEF StoreInv

\* CopyObject keeps the types, the histories, the staging directory and what gc() relies on.
LEMMA CopyObjectKeeps ==
  ASSUME StoreInv, NEW t \in Turns, CopyObject(t)
  PROVE  StoreInv'
  <1>1. StoreTypeOK'
    BY StoreAssumption, EmptyIsCommit DEF StoreInv, CopyObject, StoreTypeOK, TurnPcs, Phases,
      files, rows, turns, bounds
  <1>2. HeadsInv'
    BY StoreAssumption DEF StoreInv, CopyObject, StoreTypeOK, TurnPcs, HeadsInv, Serving, NoHead,
      RowsThere, HeadsMaterialize, EmptyThere, Owned, OneDevice, BaseIsThere, HasBase, Resting,
      files, rows, turns, bounds
  <1>3. StagingInv'
    BY StoreAssumption DEF StoreInv, CopyObject, StoreTypeOK, TurnPcs, StagingInv,
      StagingHasOwner, files, rows, turns, bounds
  <1>4. SweepInv'
    BY StoreAssumption DEF StoreInv, CopyObject, StoreTypeOK, TurnPcs, Phases, SweepInv, HeadsInv,
      Serving, Resting, files, rows, turns, bounds
  <1> QED
    BY <1>1, <1>2, <1>3, <1>4 DEF StoreInv

\* IngestFails keeps the types, the histories, the staging directory and what gc() relies on.
LEMMA IngestFailsKeeps ==
  ASSUME StoreInv, NEW t \in Turns, IngestFails(t)
  PROVE  StoreInv'
  <1>1. StoreTypeOK'
    BY StoreAssumption, EmptyIsCommit DEF StoreInv, IngestFails, StoreTypeOK, TurnPcs, Phases,
      files, rows, turns, bounds
  <1>2. HeadsInv'
    BY StoreAssumption DEF StoreInv, IngestFails, StoreTypeOK, TurnPcs, HeadsInv, Serving, NoHead,
      RowsThere, HeadsMaterialize, EmptyThere, Owned, OneDevice, BaseIsThere, HasBase, Resting,
      files, rows, turns, bounds
  <1>3. StagingInv'
    BY StoreAssumption DEF StoreInv, IngestFails, StoreTypeOK, TurnPcs, StagingInv,
      StagingHasOwner, files, rows, turns, bounds
  <1>4. SweepInv'
    BY StoreAssumption DEF StoreInv, IngestFails, StoreTypeOK, TurnPcs, Phases, SweepInv,
      HeadsInv, Serving, Resting, files, rows, turns, bounds
  <1> QED
    BY <1>1, <1>2, <1>3, <1>4 DEF StoreInv

\* PublishCommit keeps the types, the histories, the staging directory and what gc() relies on.
LEMMA PublishCommitKeeps ==
  ASSUME StoreInv, NEW t \in Turns, PublishCommit(t)
  PROVE  StoreInv'
  <1>1. StoreTypeOK'
    <2>1. Append(base[t], tree[t]) \in Seq(Trees)
      BY AppendIsCommit DEF StoreInv, StoreTypeOK
    <2>2. treeRows' \subseteq Trees /\ commitRows' \subseteq Seq(Trees) /\ refs' \in [Threads -> Seq(Trees)]
      <3>1. CASE refs[ThreadOf[t]] = base[t]
        <4> DEFINE c == Append(base[t], tree[t])
        <4>1. /\ treeRows' = treeRows \cup {tree[t]}
              /\ commitRows' = commitRows \cup {c}
              /\ refs' = [refs EXCEPT ![ThreadOf[t]] = c]
          BY <3>1 DEF PublishCommit
        <4>2. c \in Seq(Trees)
          BY <2>1
        <4> HIDE DEF c
        <4> QED
          BY <4>1, <4>2 DEF StoreInv, StoreTypeOK
      <3>2. CASE refs[ThreadOf[t]] # base[t]
        BY <3>2 DEF StoreInv, PublishCommit, StoreTypeOK
      <3> QED
        BY <3>1, <3>2
    <2>3. staged' \subseteq Turns \cup {"boot"} /\ pc' \in [Turns -> TurnPcs]
      BY DEF StoreInv, PublishCommit, StoreTypeOK, TurnPcs
    <2> QED
      BY <2>2, <2>3 DEF StoreInv, PublishCommit, StoreTypeOK, files, rows, turns, bounds
  <1>2. HeadsInv'
    <2> DEFINE th == ThreadOf[t]
    <2> DEFINE c == Append(base[t], tree[t])
    <2>1. th \in workspaces /\ TreeOf(c) = tree[t] /\ base[t] \in Seq(Trees) /\ tree[t] \in Trees
      BY TreeOfAppend DEF StoreInv, StoreTypeOK, PublishCommit, HeadsInv, Owned
    <2>2. (device = "one") => objects[tree[t]] = "whole"
      BY DEF StoreInv, PublishCommit, HeadsInv, OneDevice
    <2>3. ASSUME NEW u \in workspaces, NEW d \in History(refs'[u])
          PROVE  /\ d \in commitRows' /\ TreeOf(d) \in treeRows'
                 /\ device = "one" => objects[TreeOf(d)] = "whole"
      <3>1. CASE d \in History(refs[u])
        BY <3>1 DEF StoreInv, PublishCommit, HeadsInv, RowsThere, HeadsMaterialize
      <3>2. CASE d \notin History(refs[u])
        <4>1. refs[th] = base[t] /\ u = th
          BY <2>3, <3>2 DEF StoreInv, StoreTypeOK, PublishCommit, rows
        <4>2. refs'[u] = c
          BY <2>3, <4>1 DEF StoreInv, StoreTypeOK, PublishCommit
        <4>3. d = c
          BY <2>1, <2>3, <3>2, <4>1, <4>2, HistoryOfAppend
        <4> QED
          BY <2>1, <2>2, <4>1, <4>3 DEF PublishCommit
      <3> QED
        BY <3>1, <3>2
    <2>4. RowsThere' /\ HeadsMaterialize'
      BY <2>3 DEF PublishCommit, RowsThere, HeadsMaterialize
    <2>5. (Serving /\ NoHead /\ EmptyThere /\ Owned /\ OneDevice /\ BaseIsThere)'
      BY <2>1, StoreAssumption DEF StoreInv, StoreTypeOK, PublishCommit, HeadsInv, Serving,
        NoHead, RowsThere, HeadsMaterialize, EmptyThere, Owned, OneDevice, BaseIsThere, HasBase,
        Resting, files, rows, turns, bounds
    <2> QED
      BY <2>4, <2>5 DEF HeadsInv
  <1>3. StagingInv'
    BY StoreAssumption DEF StoreInv, PublishCommit, StoreTypeOK, TurnPcs, StagingInv,
      StagingHasOwner, files, rows, turns, bounds
  <1>4. SweepInv'
    BY StoreAssumption DEF StoreInv, PublishCommit, StoreTypeOK, TurnPcs, Phases, SweepInv,
      HeadsInv, Serving, Resting, files, rows, turns, bounds
  <1> QED
    BY <1>1, <1>2, <1>3, <1>4 DEF StoreInv

\* DeleteRuntime keeps the types, the histories, the staging directory and what gc() relies on.
LEMMA DeleteRuntimeKeeps ==
  ASSUME StoreInv, NEW t \in Turns, DeleteRuntime(t)
  PROVE  StoreInv'
  <1>1. StoreTypeOK'
    BY StoreAssumption, EmptyIsCommit DEF StoreInv, DeleteRuntime, StoreTypeOK, TurnPcs, Phases,
      files, rows, turns, bounds
  <1>2. HeadsInv'
    BY StoreAssumption DEF StoreInv, DeleteRuntime, StoreTypeOK, TurnPcs, HeadsInv, Serving,
      NoHead, RowsThere, HeadsMaterialize, EmptyThere, Owned, OneDevice, BaseIsThere, HasBase,
      Resting, files, rows, turns, bounds
  <1>3. StagingInv'
    BY StoreAssumption DEF StoreInv, DeleteRuntime, StoreTypeOK, TurnPcs, StagingInv,
      StagingHasOwner, files, rows, turns, bounds
  <1>4. SweepInv'
    BY StoreAssumption DEF StoreInv, DeleteRuntime, StoreTypeOK, TurnPcs, Phases, SweepInv,
      HeadsInv, Serving, Resting, files, rows, turns, bounds
  <1> QED
    BY <1>1, <1>2, <1>3, <1>4 DEF StoreInv

\* SweepDirectory keeps the types, the histories, the staging directory and what gc() relies on.
LEMMA SweepDirectoryKeeps ==
  ASSUME StoreInv, NEW t \in Turns, SweepDirectory(t)
  PROVE  StoreInv'
  <1>1. StoreTypeOK'
    BY StoreAssumption, EmptyIsCommit DEF StoreInv, SweepDirectory, StoreTypeOK, TurnPcs, Phases,
      files, rows, turns, bounds
  <1>2. HeadsInv'
    BY StoreAssumption DEF StoreInv, SweepDirectory, StoreTypeOK, TurnPcs, HeadsInv, Serving,
      NoHead, RowsThere, HeadsMaterialize, EmptyThere, Owned, OneDevice, BaseIsThere, HasBase,
      Resting, files, rows, turns, bounds
  <1>3. StagingInv'
    BY StoreAssumption DEF StoreInv, SweepDirectory, StoreTypeOK, TurnPcs, StagingInv,
      StagingHasOwner, files, rows, turns, bounds
  <1>4. SweepInv'
    BY StoreAssumption DEF StoreInv, SweepDirectory, StoreTypeOK, TurnPcs, Phases, SweepInv,
      HeadsInv, Serving, Resting, files, rows, turns, bounds
  <1> QED
    BY <1>1, <1>2, <1>3, <1>4 DEF StoreInv

\* SweepUntracked keeps the types, the histories, the staging directory and what gc() relies on.
LEMMA SweepUntrackedKeeps ==
  ASSUME StoreInv, NEW x \in Trees, SweepUntracked(x)
  PROVE  StoreInv'
  <1>1. StoreTypeOK'
    BY StoreAssumption, EmptyIsCommit DEF StoreInv, SweepUntracked, StoreTypeOK, TurnPcs, Phases,
      files, rows, turns, bounds
  <1>2. HeadsInv'
    <2>1. ASSUME NEW th \in workspaces, NEW c \in History(refs[th])
          PROVE  TreeOf(c) # x
      BY HeadsReachable DEF StoreInv, HeadsInv, SweepUntracked, Untracked
    <2>2. (RowsThere /\ HeadsMaterialize)'
      BY <2>1 DEF StoreInv, StoreTypeOK, HeadsInv, SweepUntracked, RowsThere, HeadsMaterialize,
        files, rows, turns, bounds
    <2>3. (Serving /\ NoHead /\ EmptyThere /\ Owned /\ OneDevice /\ BaseIsThere)'
      BY DEF StoreInv, StoreTypeOK, SweepUntracked, HeadsInv, Serving, NoHead, RowsThere,
        HeadsMaterialize, EmptyThere, Owned, OneDevice, BaseIsThere, HasBase, Resting, files,
        rows, turns, bounds
    <2> QED
      BY <2>2, <2>3 DEF HeadsInv
  <1>3. StagingInv'
    BY StoreAssumption DEF StoreInv, SweepUntracked, StoreTypeOK, TurnPcs, StagingInv,
      StagingHasOwner, files, rows, turns, bounds
  <1>4. SweepInv'
    BY StoreAssumption DEF StoreInv, SweepUntracked, StoreTypeOK, TurnPcs, Phases, SweepInv,
      HeadsInv, Serving, Resting, files, rows, turns, bounds
  <1> QED
    BY <1>1, <1>2, <1>3, <1>4 DEF StoreInv

\* SweepFile keeps the types, the histories, the staging directory and what gc() relies on.
LEMMA SweepFileKeeps ==
  ASSUME StoreInv, NEW x \in Trees, SweepFile(x)
  PROVE  StoreInv'
  <1>1. StoreTypeOK'
    BY StoreAssumption, EmptyIsCommit DEF StoreInv, SweepFile, StoreTypeOK, TurnPcs, Phases,
      files, rows, turns, bounds
  <1>2. HeadsInv'
    <2>1. ASSUME NEW th \in workspaces, NEW c \in History(refs[th])
          PROVE  TreeOf(c) # x
      BY HeadsReachable DEF StoreInv, HeadsInv, SweepFile
    <2>2. (RowsThere /\ HeadsMaterialize)'
      BY <2>1 DEF StoreInv, StoreTypeOK, HeadsInv, SweepFile, RowsThere, HeadsMaterialize, files,
        rows, turns, bounds
    <2>3. (Serving /\ NoHead /\ EmptyThere /\ Owned /\ OneDevice /\ BaseIsThere)'
      BY DEF StoreInv, StoreTypeOK, SweepFile, HeadsInv, Serving, NoHead, RowsThere,
        HeadsMaterialize, EmptyThere, Owned, OneDevice, BaseIsThere, HasBase, Resting, files,
        rows, turns, bounds
    <2> QED
      BY <2>2, <2>3 DEF HeadsInv
  <1>3. StagingInv'
    BY StoreAssumption DEF StoreInv, SweepFile, StoreTypeOK, TurnPcs, StagingInv, StagingHasOwner,
      files, rows, turns, bounds
  <1>4. SweepInv'
    BY StoreAssumption DEF StoreInv, SweepFile, StoreTypeOK, TurnPcs, Phases, SweepInv, HeadsInv,
      Serving, Resting, files, rows, turns, bounds
  <1> QED
    BY <1>1, <1>2, <1>3, <1>4 DEF StoreInv

\* SweepRow keeps the types, the histories, the staging directory and what gc() relies on.
LEMMA SweepRowKeeps ==
  ASSUME StoreInv, NEW x \in Trees, SweepRow(x)
  PROVE  StoreInv'
  <1>1. StoreTypeOK'
    BY StoreAssumption, EmptyIsCommit DEF StoreInv, SweepRow, StoreTypeOK, TurnPcs, Phases, files,
      rows, turns, bounds
  <1>2. HeadsInv'
    <2>1. ASSUME NEW th \in workspaces, NEW c \in History(refs[th])
          PROVE  TreeOf(c) # x
      BY HeadsReachable DEF StoreInv, HeadsInv, SweepRow
    <2>2. (RowsThere /\ HeadsMaterialize)'
      BY <2>1 DEF StoreInv, StoreTypeOK, HeadsInv, SweepRow, RowsThere, HeadsMaterialize, files,
        rows, turns, bounds
    <2>3. (Serving /\ NoHead /\ EmptyThere /\ Owned /\ OneDevice /\ BaseIsThere)'
      BY DEF StoreInv, StoreTypeOK, SweepRow, HeadsInv, Serving, NoHead, RowsThere,
        HeadsMaterialize, EmptyThere, Owned, OneDevice, BaseIsThere, HasBase, Resting, files,
        rows, turns, bounds
    <2> QED
      BY <2>2, <2>3 DEF HeadsInv
  <1>3. StagingInv'
    BY StoreAssumption DEF StoreInv, SweepRow, StoreTypeOK, TurnPcs, StagingInv, StagingHasOwner,
      files, rows, turns, bounds
  <1>4. SweepInv'
    BY StoreAssumption DEF StoreInv, SweepRow, StoreTypeOK, TurnPcs, Phases, SweepInv, HeadsInv,
      Serving, Resting, files, rows, turns, bounds
  <1> QED
    BY <1>1, <1>2, <1>3, <1>4 DEF StoreInv

\* ForkThread keeps the types, the histories, the staging directory and what gc() relies on.
LEMMA ForkThreadKeeps ==
  ASSUME StoreInv, NEW src \in Threads, NEW dst \in Threads, NEW c \in commitRows,
         ForkThread(src, dst, c)
  PROVE  StoreInv'
  <1>1. StoreTypeOK'
    BY StoreAssumption, EmptyIsCommit DEF StoreInv, ForkThread, StoreTypeOK, TurnPcs, Phases,
      files, rows, turns, bounds
  <1>2. HeadsInv'
    <2>1. History(c) \subseteq History(refs[src])
      BY HistoryOfPrefix DEF StoreInv, StoreTypeOK, ForkThread
    <2>2. ASSUME NEW u \in workspaces', NEW d \in History(refs'[u])
          PROVE  \E v \in workspaces : d \in History(refs[v])
      BY <2>1, <2>2 DEF StoreInv, StoreTypeOK, ForkThread
    <2>3. (RowsThere /\ HeadsMaterialize)'
      BY <2>2 DEF StoreInv, ForkThread, HeadsInv, RowsThere, HeadsMaterialize, files, rows, turns,
        bounds
    <2>4. (Serving /\ NoHead /\ EmptyThere /\ Owned /\ OneDevice /\ BaseIsThere)'
      BY StoreAssumption DEF StoreInv, StoreTypeOK, ForkThread, HeadsInv, Serving, NoHead,
        RowsThere, HeadsMaterialize, EmptyThere, Owned, OneDevice, BaseIsThere, HasBase, Resting,
        files, rows, turns, bounds
    <2> QED
      BY <2>3, <2>4 DEF HeadsInv
  <1>3. StagingInv'
    BY StoreAssumption DEF StoreInv, ForkThread, StoreTypeOK, TurnPcs, StagingInv,
      StagingHasOwner, files, rows, turns, bounds
  <1>4. SweepInv'
    BY StoreAssumption DEF StoreInv, ForkThread, StoreTypeOK, TurnPcs, Phases, SweepInv, HeadsInv,
      Serving, Resting, files, rows, turns, bounds
  <1> QED
    BY <1>1, <1>2, <1>3, <1>4 DEF StoreInv

----------------------------------------------------------------------------
(* the theorems                                                            *)

\* An empty data directory satisfies the invariant, and so does one moved.
LEMMA StoreInitInv == StoreInit => StoreInv
  <1> SUFFICES ASSUME StoreInit PROVE StoreInv
    OBVIOUS
  <1>1. StoreTypeOK
    BY StoreAssumption, EmptyIsCommit DEF StoreInit, StoreTypeOK, TurnPcs, Phases
  <1>2. HeadsInv
    BY DEF StoreInit, HeadsInv, Serving, NoHead, RowsThere, HeadsMaterialize, EmptyThere, Owned,
      OneDevice, BaseIsThere, Resting
  <1>3. StagingInv /\ SweepInv
    BY DEF StoreInit, StagingInv, StagingHasOwner, SweepInv
  <1> QED
    BY <1>1, <1>2, <1>3 DEF StoreInv

\* Every step of a turn, of the daemon and of gc() keeps it.
LEMMA StoreNextInv == StoreInv /\ [StoreNext]_storeVars => StoreInv'
  <1> SUFFICES ASSUME StoreInv, [StoreNext]_storeVars PROVE StoreInv'
    OBVIOUS
  <1>1. CASE DaemonStep
    BY <1>1, BootKeeps, InitializedKeeps, BootFailsKeeps, RecoverKeeps, CrashKeeps, StopKeeps,
      SweepCommitsKeeps,
       StoppedKeeps DEF DaemonStep
  <1>2. ASSUME NEW t \in Turns, TurnStep(t) PROVE StoreInv'
    BY <1>2, StartTurnKeeps, MakeDirectoryKeeps, MaterializeKeeps, StartRefusedKeeps,
      StageRestoreKeeps,
       OpenRuntimeKeeps, BootMachineKeeps, CreateRefusedKeeps, CaptureKeeps, NothingToCommitKeeps, LinkObjectKeeps,
       CopyObjectKeeps, IngestFailsKeeps, PublishCommitKeeps, DeleteRuntimeKeeps, SweepDirectoryKeeps DEF TurnStep
  <1>3. ASSUME NEW x \in Trees, SweepUntracked(x) \/ SweepFile(x) \/ SweepRow(x) PROVE StoreInv'
    BY <1>3, SweepUntrackedKeeps, SweepFileKeeps, SweepRowKeeps
  <1>4. ASSUME NEW src \in Threads, NEW dst \in Threads, NEW c \in commitRows, ForkThread(src, dst, c) PROVE StoreInv'
    BY <1>4, ForkThreadKeeps
  <1>5. CASE UNCHANGED storeVars
    <2>1. StoreTypeOK'
      BY <1>5 DEF StoreInv, StoreTypeOK, storeVars, files, rows, turns, bounds
    <2>2. HeadsInv'
      BY <1>5 DEF StoreInv, HeadsInv, Serving, NoHead, RowsThere, HeadsMaterialize, EmptyThere,
        Owned, OneDevice,
        BaseIsThere, HasBase, storeVars, files, rows, turns, bounds
    <2>3. StagingInv' /\ SweepInv'
      BY <1>5 DEF StoreInv, StagingInv, StagingHasOwner, SweepInv, storeVars, files, rows, turns,
        bounds
    <2> QED
      BY <2>1, <2>2, <2>3 DEF StoreInv
  <1> QED
    BY <1>1, <1>2, <1>3, <1>4, <1>5 DEF StoreNext

\* The rows, objects, staging files and directories stay in step, for any threads,
\* turns, trees, crashes and stops (sandbox-service.ts:81-245, recovery.ts:33-121).
THEOREM StoreInvariant == StoreSpec => []StoreInv
  BY StoreInitInv, StoreNextInv, PTL DEF StoreSpec

\* Files, rows and turns are well typed for any threads, turns, trees and bounds;
\* in particular a staging file belongs to a turn or to initialize() (cfs.ts:89).
THEOREM StoreTypeCorrect == StoreSpec => []StoreTypeOK
  <1>1. StoreInv => StoreTypeOK
    BY DEF StoreInv
  <1> QED
    BY <1>1, StoreInvariant, PTL

\* On one file system every commit of every history has its rows and a complete
\* object, whatever links, publishes, forks, collects or crashes (recovery.ts:76).
THEOREM HeadsAlwaysMaterialize == StoreSpec => []HeadsMaterialize
  <1>1. StoreInv => HeadsMaterialize
    BY DEF StoreInv, HeadsInv
  <1> QED
    BY <1>1, StoreInvariant, PTL

\* createTurnRuntime finds the rows of its base (sandbox-service.ts:90-93).
THEOREM BaseIsAlwaysThere == StoreSpec => []BaseIsThere
  <1>1. StoreInv => BaseIsThere
    BY DEF StoreInv, HeadsInv
  <1> QED
    BY <1>1, StoreInvariant, PTL

\* Nobody's file stays in the staging directory of a daemon that serves, but for
\* the archive of a Docker runtime that could not be created (recovery.ts:35-39).
THEOREM StagingIsOwned == StoreSpec => []StagingHasOwner
  <1>1. StoreInv => StagingHasOwner
    BY DEF StoreInv, StagingInv
  <1> QED
    BY <1>1, StoreInvariant, PTL

----------------------------------------------------------------------------
(* what no step does                                                       *)

\* No step but the two of gc() that remove a file makes an object worse.
LEMMA ObjectsStay ==
  ASSUME StoreInv, [StoreNext]_storeVars, NEW x \in Trees, objects[x] = "whole", objects'[x] # "whole"
  PROVE  SweepUntracked(x) \/ SweepFile(x)
  <1>1. CASE DaemonStep
    BY <1>1 DEF StoreInv, StoreTypeOK, DaemonStep, Boot, Initialized, BootFails, Recover, Crash,
      Stop, SweepCommits,
      Stopped, files, rows, turns, bounds
  <1>2. ASSUME NEW t \in Turns, TurnStep(t) PROVE FALSE
    <2>1. CASE LinkObject(t)
      BY <2>1 DEF StoreInv, StoreTypeOK, LinkObject
    <2>2. CASE CopyObject(t)
      BY <2>2 DEF StoreInv, StoreTypeOK, CopyObject
    <2>3. CASE UNCHANGED objects
      BY <2>3
    <2>4. TurnStep(t) => LinkObject(t) \/ CopyObject(t) \/ UNCHANGED objects
      BY DEF TurnStep, StartTurn, MakeDirectory, Materialize, StartRefused, StageRestore,
        OpenRuntime, BootMachine,
        CreateRefused, Capture, NothingToCommit, IngestFails, PublishCommit, DeleteRuntime, SweepDirectory, files
    <2> QED
      BY <1>2, <2>1, <2>2, <2>3, <2>4
  <1>3. ASSUME NEW y \in Trees, SweepUntracked(y) \/ SweepFile(y) \/ SweepRow(y)
        PROVE  SweepUntracked(x) \/ SweepFile(x)
    BY <1>3 DEF StoreInv, StoreTypeOK, SweepUntracked, SweepFile, SweepRow, files
  <1>4. ASSUME NEW src \in Threads, NEW dst \in Threads, NEW c \in commitRows, ForkThread(src, dst, c) PROVE FALSE
    BY <1>4 DEF ForkThread, files
  <1>5. CASE UNCHANGED storeVars
    BY <1>5 DEF storeVars, files
  <1> QED
    BY <1>1, <1>2, <1>3, <1>4, <1>5 DEF StoreNext

\* A complete object is removed by gc() only, and only when no history has it
\* (cfs.ts:152, 218, recovery.ts:88).
THEOREM ObjectsAreAlwaysKept == StoreSpec => ObjectsAreKept
  <1>1. ASSUME StoreInv, [StoreNext]_storeVars, NEW x \in Trees, objects[x] = "whole", objects'[x] # "whole"
        PROVE  /\ phase = "sweep"
               /\ \A th \in workspaces : \A c \in History(refs[th]) : TreeOf(c) # x
    <2>1. SweepUntracked(x) \/ SweepFile(x)
      BY <1>1, ObjectsStay
    <2>2. RowsThere
      BY <1>1 DEF StoreInv, HeadsInv
    <2> QED
      BY <2>1, <2>2, HeadsReachable DEF SweepUntracked, SweepFile, Untracked
  <1>2. StoreInv /\ [StoreNext]_storeVars =>
          [\A x \in Trees : objects[x] = "whole" /\ objects'[x] # "whole" =>
             /\ phase = "sweep"
             /\ \A th \in workspaces : \A c \in History(refs[th]) : TreeOf(c) # x]_storeVars
    BY <1>1
  <1> QED
    BY <1>2, StoreInvariant, PTL DEF StoreSpec, ObjectsAreKept

\* The last step of gc() is Stopped.
LEMMA GcEndsInStopped ==
  ASSUME StoreInv, [StoreNext]_storeVars, phase = "dirs", phase' = "down", crashes' = crashes
  PROVE  Stopped
  <1>1. CASE DaemonStep
    BY <1>1 DEF StoreInv, StoreTypeOK, DaemonStep, Boot, Initialized, BootFails, Recover, Crash,
      Stop, SweepCommits
  <1>2. ASSUME NEW t \in Turns, TurnStep(t) PROVE FALSE
    BY <1>2 DEF TurnStep, StartTurn, MakeDirectory, Materialize, StartRefused, StageRestore,
      OpenRuntime, BootMachine,
      CreateRefused, Capture, NothingToCommit, LinkObject, CopyObject, IngestFails, PublishCommit, DeleteRuntime,
      SweepDirectory
  <1>3. ASSUME NEW x \in Trees, SweepUntracked(x) \/ SweepFile(x) \/ SweepRow(x) PROVE FALSE
    BY <1>3 DEF SweepUntracked, SweepFile, SweepRow
  <1>4. ASSUME NEW src \in Threads, NEW dst \in Threads, NEW c \in commitRows, ForkThread(src, dst, c) PROVE FALSE
    BY <1>4 DEF ForkThread
  <1>5. CASE UNCHANGED storeVars
    BY <1>5 DEF storeVars
  <1> QED
    BY <1>1, <1>2, <1>3, <1>4, <1>5 DEF StoreNext

\* When gc() got through, the object files are those of the histories, and what is
\* left of instance directories belongs to starts without a row (recovery.ts:81-118).
THEOREM GcIsAlwaysComplete == StoreSpec => GcIsComplete
  <1>1. ASSUME StoreInv, [StoreNext]_storeVars, phase = "dirs", phase' = "down", crashes' = crashes
        PROVE  /\ {x \in Trees : objects[x] # "none"} \subseteq
                    {TreeOf(c) : c \in UNION {History(refs[th]) : th \in workspaces}}
               /\ \A t \in dirs : inst[t] = "none" /\ pc[t] = "over"
    <2>1. Stopped
      BY <1>1, GcEndsInStopped
    <2>2. \A t \in Turns : inst[t] # "live" /\ pc[t] # "stuck" /\ pc[t] \in Resting
      BY <1>1 DEF StoreInv, SweepInv, HeadsInv, Serving
    <2>3. \A t \in dirs : inst[t] = "none" /\ pc[t] = "over"
      BY <1>1, <2>1, <2>2 DEF StoreInv, StoreTypeOK, SweepInv, Stopped, Resting
    <2>4. \A x \in Trees : objects[x] # "none" =>
            \E th \in workspaces : \E c \in History(refs[th]) : x = TreeOf(c)
      BY <1>1 DEF StoreInv, SweepInv
    <2> QED
      BY <2>3, <2>4
  <1>2. StoreInv /\ [StoreNext]_storeVars =>
          [phase = "dirs" /\ phase' = "down" /\ crashes' = crashes =>
             /\ {x \in Trees : objects[x] # "none"} \subseteq
                  {TreeOf(c) : c \in UNION {History(refs[th]) : th \in workspaces}}
             /\ \A t \in dirs : inst[t] = "none" /\ pc[t] = "over"]_storeVars
    BY <1>1
  <1> QED
    BY <1>2, StoreInvariant, PTL DEF StoreSpec, GcIsComplete
=============================================================================

------------------------- MODULE TurnRuntimeProofs -------------------------
(***************************************************************************)
(* Further theorems about TurnLifecycle: who may use a runtime, and what   *)
(* shutdown and recovery leave of it.                                      *)
(*                                                                         *)
(* LifecycleInv says which continuation owns a turn.  RuntimeInv adds what *)
(* that continuation may rely on: the runtime is there until the leases    *)
(* are drained, the workspace is quiet from the end of the sessions to the *)
(* publication, and an instance is live only as long as its turn has an    *)
(* owner.                                                                  *)
(***************************************************************************)
EXTENDS TurnLifecycleProofs

----------------------------------------------------------------------------
(* the inductive invariant                                                 *)

\* Between create() and the end of the sessions the runtime is there and its
\* handle is recorded.
UsesRuntime(t) ==
  \/ startPc[t] = "opening"
  \/ Alive /\ (state[t] = "OPEN" \/ finishPc[t] \in {"leases", "sessions"})

RuntimeHeld ==
  \A t \in Turns :
    /\ startPc[t] = "created" => t \in runtimes
    /\ UsesRuntime(t) => t \in runtimes /\ t \in handle /\ inst[t] \in {"READY", "RUNNING"}

\* A lease is of an OPEN turn, or of one whose finish waits for it.
LeasesOwned ==
  \A t \in Turns : leases[t] > 0 => Alive /\ (state[t] = "OPEN" \/ finishPc[t] = "leases")

\* From the end of the sessions on nothing the daemon knows of writes the
\* workspace.
WorkspaceQuiet ==
  \A t \in Turns :
    /\ finishPc[t] \in {"commit", "snapshot", "publish"} => shell[t] # "active"
    /\ finishPc[t] = "publish" /\ shell[t] = "none" => snap[t] = content[t]

\* A live instance has a turn that somebody works on; recovery has it in its list.
InstancesOwned ==
  \A t \in Turns :
    /\ state[t] = "NONE" => inst[t] = "NONE"
    /\ state[t] \in {"OPEN", "FINISHING"} => t \in bound
    /\ Alive /\ state[t] = "STARTING" /\ startPc[t] \in {"idle", "preflight"} => inst[t] = "NONE"
    /\ Alive /\ inst[t] \in LiveInstance => state[t] \in Active \/ finishPc[t] # "idle"
    /\ phase = "interrupted" /\ inst[t] \in LiveInstance => t \in queue
    /\ finishPc[t] # "idle" => inst[t] # "TERMINATED"
    /\ t \in queue => state[t] # "NONE"

RuntimeInv ==
  RuntimeHeld /\ LeasesOwned /\ WorkspaceQuiet /\ InstancesOwned /\ CloseLeavesNothing

----------------------------------------------------------------------------
(* every step keeps it                                                     *)

\* destroy() takes no other runtime and brings none back, and starts no command.
LEMMA DestroyOne ==
  ASSUME TypeOK, NEW t \in Turns, NEW failed, Destroy({t}, failed)
  PROVE  /\ runtimes' \subseteq runtimes
         /\ \A u \in runtimes : u # t => u \in runtimes'
         /\ \A u \in Turns : shell'[u] = "active" => shell[u] = "active"
         /\ \A u \in Turns : u # t => shell'[u] = shell[u] /\ content'[u] = content[u]
PROOF
  <1>1. {t} \subseteq Turns
    OBVIOUS
  <1> QED
    BY <1>1, DestroyEffect

\* The steps of start() bring a runtime up before the turn is OPEN.
LEMMA StartKeepsRuntime ==
  ASSUME LifecycleInv, RuntimeInv, NEW t \in Turns
  PROVE  Start(t) \/ StartStep(t) => RuntimeInv'
PROOF
  <1>0. ASSUME NEW u \in Turns, NEW failed, Destroy({u}, failed)
        PROVE  /\ runtimes' \subseteq runtimes
               /\ \A v \in runtimes : v # u => v \in runtimes'
               /\ \A v \in Turns : shell'[v] = "active" => shell[v] = "active"
               /\ \A v \in Turns : v # u => shell'[v] = shell[v] /\ content'[v] = content[v]
    BY <1>0, DestroyOne DEF LifecycleInv
  <1> USE ConstantsAssumption
      DEF LifecycleInv, TypeOK, StartOwned, FinishOwned, PhaseOwned, RuntimeInv, RuntimeHeld,
          UsesRuntime, LeasesOwned, WorkspaceQuiet, InstancesOwned, CloseLeavesNothing,
          Alive, Deleting, Active, LiveInstance, dbVars, worldVars, callVars, daemonVars
  <1>1. ASSUME Start(t) PROVE RuntimeInv'
    BY <1>1 DEF Start
  <1>2. ASSUME Provision(t) PROVE RuntimeInv'
    BY <1>2 DEF Provision
  <1>3. ASSUME StartRefused(t) PROVE RuntimeInv'
    BY <1>3 DEF StartRefused
  <1>4. ASSUME RuntimeCreated(t) PROVE RuntimeInv'
    <2>1. finishPc[t] = "idle" /\ state[t] = "STARTING" /\ ~(leases[t] > 0)
      BY <1>4 DEF RuntimeCreated
    <2>2. RuntimeHeld'
      BY <1>4, <2>1 DEF RuntimeCreated
    <2>3. LeasesOwned'
      BY <1>4, <2>1 DEF RuntimeCreated
    <2>4. WorkspaceQuiet'
      BY <1>4, <2>1 DEF RuntimeCreated
    <2>5. InstancesOwned'
      BY <1>4, <2>1 DEF RuntimeCreated
    <2>6. CloseLeavesNothing'
      BY <1>4, <2>1 DEF RuntimeCreated
    <2> QED
      BY <2>2, <2>3, <2>4, <2>5, <2>6
  <1>5. ASSUME CreateFails(t) PROVE RuntimeInv'
    <2>1. finishPc[t] = "idle" /\ state[t] = "STARTING" /\ ~(leases[t] > 0)
      BY <1>5 DEF CreateFails
    <2>2. /\ runtimes' \subseteq runtimes
          /\ \A u \in runtimes : u # t => u \in runtimes'
          /\ \A u \in Turns : shell'[u] = "active" => shell[u] = "active"
          /\ \A u \in Turns : u # t => shell'[u] = shell[u] /\ content'[u] = content[u]
      <3>1. Destroy({t}, {})
        BY <1>5 DEF CreateFails
      <3> QED
        BY ONLY <3>1, <1>0, t \in Turns
    <2>3. RuntimeHeld'
      BY <1>5, <2>1, <2>2 DEF CreateFails
    <2>4. LeasesOwned'
      <3>1. /\ leases' = leases /\ finishPc' = finishPc /\ phase' = phase
            /\ \A u \in Turns : u # t => state'[u] = state[u]
        BY <1>5 DEF CreateFails
      <3> QED
        BY ONLY <2>1, <3>1, LeasesOwned DEF LeasesOwned, Alive
    <2>5. WorkspaceQuiet'
      <3>1. finishPc' = finishPc /\ snap' = snap
        BY <1>5 DEF CreateFails
      <3> QED
        BY ONLY <2>1, <2>2, <3>1, WorkspaceQuiet DEF WorkspaceQuiet
    <2>6. InstancesOwned'
      BY <1>5, <2>1, <2>2 DEF CreateFails
    <2>7. CloseLeavesNothing'
      BY <1>5, <2>1, <2>2 DEF CreateFails
    <2> QED
      BY <2>3, <2>4, <2>5, <2>6, <2>7
  <1>6. ASSUME RecordHandle(t) PROVE RuntimeInv'
    BY <1>6 DEF RecordHandle
  <1>7. ASSUME OpenTurn(t) PROVE RuntimeInv'
    BY <1>7 DEF OpenTurn
  <1> QED
    BY <1>1, <1>2, <1>3, <1>4, <1>5, <1>6, <1>7 DEF StartStep

\* Tool calls work in the runtime of an OPEN turn or of one that waits for them.
LEMMA CallKeepsRuntime ==
  ASSUME LifecycleInv, RuntimeInv, NEW t \in Turns
  PROVE  CallStep(t) => RuntimeInv'
PROOF
  <1> USE ConstantsAssumption
      DEF LifecycleInv, TypeOK, StartOwned, FinishOwned, PhaseOwned, RuntimeInv, RuntimeHeld,
          UsesRuntime, LeasesOwned, WorkspaceQuiet, InstancesOwned, CloseLeavesNothing,
          Alive, Deleting, Active, LiveInstance, dbVars, worldVars, callVars, daemonVars
  <1>1. ASSUME Acquire(t) PROVE RuntimeInv'
    BY <1>1 DEF Acquire
  <1>2. ASSUME Release(t) PROVE RuntimeInv'
    BY <1>2 DEF Release
  <1>3. ASSUME ToolExec(t) PROVE RuntimeInv'
    <2>1. finishPc[t] \in {"idle", "leases"}
      BY <1>3 DEF ToolExec, HandleOf
    <2>2. RuntimeHeld'
      BY <1>3, <2>1 DEF ToolExec, HandleOf
    <2>3. LeasesOwned'
      BY <1>3 DEF ToolExec, HandleOf
    <2>4. WorkspaceQuiet'
      BY <1>3, <2>1 DEF ToolExec, HandleOf
    <2>5. InstancesOwned'
      BY <1>3 DEF ToolExec, HandleOf
    <2>6. CloseLeavesNothing'
      BY <1>3 DEF ToolExec, HandleOf
    <2> QED
      BY <2>2, <2>3, <2>4, <2>5, <2>6
  <1>4. ASSUME ShellEnded(t) PROVE RuntimeInv'
    BY <1>4 DEF ShellEnded, HandleOf
  <1>5. ASSUME Abandon(t) PROVE RuntimeInv'
    BY <1>5 DEF Abandon, HandleOf
  <1>6. ASSUME ReapExpired(t) PROVE RuntimeInv'
    BY <1>6 DEF ReapExpired
  <1>7. ASSUME NEW tr \in Trees, ToolWrite(t, tr) \/ ShellWrite(t, tr) PROVE RuntimeInv'
    <2>1. HandleOf(t) => finishPc[t] \in {"idle", "leases"}
      BY DEF HandleOf
    <2>2. RuntimeHeld'
      BY <1>7 DEF ToolWrite, HandleOf, ShellWrite
    <2>3. LeasesOwned'
      BY <1>7 DEF ToolWrite, HandleOf, ShellWrite
    <2>4. WorkspaceQuiet'
      BY <1>7, <2>1 DEF ToolWrite, ShellWrite
    <2>5. InstancesOwned'
      BY <1>7 DEF ToolWrite, HandleOf, ShellWrite
    <2>6. CloseLeavesNothing'
      BY <1>7 DEF ToolWrite, HandleOf, ShellWrite
    <2> QED
      BY <2>2, <2>3, <2>4, <2>5, <2>6
  <1> QED
    BY <1>1, <1>2, <1>3, <1>4, <1>5, <1>6, <1>7 DEF CallStep

\* A finish lets go of the runtime only after leases, sessions and publication.
LEMMA FinishKeepsRuntime ==
  ASSUME LifecycleInv, RuntimeInv, NEW t \in Turns
  PROVE  Finish(t) \/ FinishStep(t) => RuntimeInv'
PROOF
  <1>0. ASSUME NEW u \in Turns, NEW failed, Destroy({u}, failed)
        PROVE  /\ runtimes' \subseteq runtimes
               /\ \A v \in runtimes : v # u => v \in runtimes'
               /\ \A v \in Turns : shell'[v] = "active" => shell[v] = "active"
               /\ \A v \in Turns : v # u => shell'[v] = shell[v] /\ content'[v] = content[v]
    BY <1>0, DestroyOne DEF LifecycleInv
  <1> USE ConstantsAssumption
      DEF LifecycleInv, TypeOK, StartOwned, FinishOwned, PhaseOwned, RuntimeInv, RuntimeHeld,
          UsesRuntime, LeasesOwned, WorkspaceQuiet, InstancesOwned, CloseLeavesNothing,
          Alive, Deleting, Active, LiveInstance, dbVars, worldVars, callVars, daemonVars
  <1>1. ASSUME Finish(t) PROVE RuntimeInv'
    BY <1>1 DEF Finish, FinishRow
  <1>2. ASSUME LeasesDrained(t) PROVE RuntimeInv'
    BY <1>2 DEF LeasesDrained
  <1>3. ASSUME SessionsClosed(t) PROVE RuntimeInv'
    BY <1>3 DEF SessionsClosed
  <1>4. ASSUME SessionsStuck(t) PROVE RuntimeInv'
    <2>1. RuntimeHeld'
      BY <1>4 DEF SessionsStuck, FailTurn
    <2>2. LeasesOwned'
      BY <1>4 DEF SessionsStuck, FailTurn
    <2>3. WorkspaceQuiet'
      BY <1>4 DEF SessionsStuck, FailTurn
    <2>4. InstancesOwned'
      BY <1>4 DEF SessionsStuck, FailTurn
    <2>5. CloseLeavesNothing'
      BY <1>4 DEF SessionsStuck, FailTurn
    <2> QED
      BY <2>1, <2>2, <2>3, <2>4, <2>5
  <1>5. ASSUME BeginCommit(t) PROVE RuntimeInv'
    <2>1. RuntimeHeld'
      <3>1. startPc[t] = "idle" /\ state[t] = "FINISHING"
        BY <1>5 DEF BeginCommit
      <3>2. /\ UNCHANGED <<state, startPc, runtimes, handle, phase>>
            /\ \A u \in Turns : u # t => finishPc'[u] = finishPc[u] /\ inst'[u] = inst[u]
            /\ finishPc'[t] \in {"snapshot", "delete"}
        BY <1>5 DEF BeginCommit, FailTurn
      <3> QED
        BY ONLY <3>1, <3>2, RuntimeHeld, t \in Turns DEF RuntimeHeld, UsesRuntime, Alive
    <2>2. LeasesOwned'
      BY <1>5 DEF BeginCommit, FailTurn
    <2>3. WorkspaceQuiet'
      BY <1>5 DEF BeginCommit, FailTurn
    <2>4. InstancesOwned'
      BY <1>5 DEF BeginCommit, FailTurn
    <2>5. CloseLeavesNothing'
      BY <1>5 DEF BeginCommit, FailTurn
    <2> QED
      BY <2>1, <2>2, <2>3, <2>4, <2>5
  <1>6. ASSUME SnapshotTaken(t) PROVE RuntimeInv'
    BY <1>6 DEF SnapshotTaken
  <1>7. ASSUME SnapshotFails(t) PROVE RuntimeInv'
    BY <1>7 DEF SnapshotFails, CommitFails, FailTurn
  <1>8. ASSUME Publish(t) PROVE RuntimeInv'
    <2>1. RuntimeHeld'
      BY <1>8 DEF Publish, CommitFails, FailTurn
    <2>2. LeasesOwned'
      BY <1>8 DEF Publish, CommitFails, FailTurn
    <2>3. WorkspaceQuiet'
      BY <1>8 DEF Publish, CommitFails, FailTurn
    <2>4. InstancesOwned'
      BY <1>8 DEF Publish, CommitFails, FailTurn
    <2>5. CloseLeavesNothing'
      BY <1>8 DEF Publish, CommitFails, FailTurn
    <2> QED
      BY <2>1, <2>2, <2>3, <2>4, <2>5
  <1>9. ASSUME BeginDelete(t) PROVE RuntimeInv'
    <2>1. RuntimeHeld'
      <3>1. startPc[t] = "idle" /\ state[t] \in {"FINISHED", "FINISHING"}
        BY <1>9 DEF BeginDelete
      <3> QED
        BY <1>9, <3>1 DEF BeginDelete
    <2>2. LeasesOwned'
      BY <1>9 DEF BeginDelete
    <2>3. WorkspaceQuiet'
      BY <1>9 DEF BeginDelete
    <2>4. InstancesOwned'
      BY <1>9 DEF BeginDelete
    <2>5. CloseLeavesNothing'
      BY <1>9 DEF BeginDelete
    <2> QED
      BY <2>1, <2>2, <2>3, <2>4, <2>5
  <1>10. ASSUME RuntimeDestroyed(t) PROVE RuntimeInv'
    <2>1. startPc[t] = "idle" /\ state[t] \in {"FINISHED", "FINISHING"} /\ ~(leases[t] > 0)
      BY <1>10 DEF RuntimeDestroyed
    <2>2. /\ runtimes' \subseteq runtimes
          /\ \A u \in runtimes : u # t => u \in runtimes'
          /\ \A u \in Turns : shell'[u] = "active" => shell[u] = "active"
          /\ \A u \in Turns : u # t => shell'[u] = shell[u] /\ content'[u] = content[u]
      <3>1. Destroy({t}, {})
        BY <1>10 DEF RuntimeDestroyed
      <3> QED
        BY ONLY <3>1, <1>0, t \in Turns
    <2>3. RuntimeHeld'
      BY <1>10, <2>1, <2>2 DEF RuntimeDestroyed
    <2>4. LeasesOwned'
      BY <1>10, <2>1, <2>2 DEF RuntimeDestroyed
    <2>5. WorkspaceQuiet'
      BY <1>10, <2>1, <2>2 DEF RuntimeDestroyed
    <2>6. InstancesOwned'
      BY <1>10, <2>1, <2>2 DEF RuntimeDestroyed
    <2>7. CloseLeavesNothing'
      BY <1>10, <2>1, <2>2 DEF RuntimeDestroyed
    <2> QED
      BY <2>3, <2>4, <2>5, <2>6, <2>7
  <1>11. ASSUME DeleteDone(t) PROVE RuntimeInv'
    <2>1. startPc[t] = "idle" /\ state[t] \in {"FINISHED", "FINISHING"} /\ ~(leases[t] > 0)
      BY <1>11 DEF DeleteDone
    <2>2. RuntimeHeld'
      BY <1>11, <2>1 DEF DeleteDone
    <2>3. LeasesOwned'
      BY <1>11, <2>1 DEF DeleteDone
    <2>4. WorkspaceQuiet'
      BY <1>11, <2>1 DEF DeleteDone
    <2>5. InstancesOwned'
      BY <1>11, <2>1 DEF DeleteDone
    <2>6. CloseLeavesNothing'
      BY <1>11, <2>1 DEF DeleteDone
    <2> QED
      BY <2>2, <2>3, <2>4, <2>5, <2>6
  <1>12. ASSUME DeleteFails(t) PROVE RuntimeInv'
    <2>1. /\ startPc[t] = "idle" /\ state[t] \in {"FINISHED", "FINISHING"} /\ ~(leases[t] > 0)
          /\ finishPc[t] \in {"destroy", "record"}
      BY <1>12 DEF DeleteFails, DeleteRejects
    <2>2. /\ runtimes' \subseteq runtimes
          /\ \A u \in runtimes : u # t => u \in runtimes'
          /\ \A u \in Turns : shell'[u] = "active" => shell[u] = "active"
          /\ \A u \in Turns : u # t => shell'[u] = shell[u] /\ content'[u] = content[u]
      <3>1. CASE Destroy({t}, {t})
        BY ONLY <3>1, <1>0, t \in Turns
      <3>2. CASE UNCHANGED <<worldVars, tracked, shell>>
        BY <3>2
      <3> QED
        BY <1>12, <3>1, <3>2 DEF DeleteFails, DeleteRejects
    <2>3. RuntimeHeld'
      BY <1>12, <2>1, <2>2 DEF DeleteFails
    <2>4. LeasesOwned'
      BY <1>12, <2>1, <2>2 DEF DeleteFails
    <2>5. WorkspaceQuiet'
      BY <1>12, <2>1, <2>2 DEF DeleteFails
    <2>6. InstancesOwned'
      BY <1>12, <2>1, <2>2 DEF DeleteFails
    <2>7. CloseLeavesNothing'
      BY <1>12, <2>1, <2>2 DEF DeleteFails
    <2> QED
      BY <2>3, <2>4, <2>5, <2>6, <2>7
  <1> QED
    BY <1>1, <1>2, <1>3, <1>4, <1>5, <1>6, <1>7, <1>8, <1>9, <1>10, <1>11, <1>12 DEF FinishStep

\* Crash, recovery and shutdown take a runtime away only when nobody uses it.
LEMMA DaemonKeepsRuntime ==
  ASSUME LifecycleInv, RuntimeInv
  PROVE  Crash \/ Boot \/ Close \/ RecoverStep \/ CloseStep \/ CleanupStep => RuntimeInv'
PROOF
  <1>0. ASSUME NEW u \in Turns, NEW failed, Destroy({u}, failed)
        PROVE  /\ runtimes' \subseteq runtimes
               /\ \A v \in runtimes : v # u => v \in runtimes'
               /\ \A v \in Turns : shell'[v] = "active" => shell[v] = "active"
               /\ \A v \in Turns : v # u => shell'[v] = shell[v] /\ content'[v] = content[v]
    BY <1>0, DestroyOne DEF LifecycleInv
  <1> USE ConstantsAssumption
      DEF LifecycleInv, TypeOK, StartOwned, FinishOwned, PhaseOwned, RuntimeInv, RuntimeHeld,
          UsesRuntime, LeasesOwned, WorkspaceQuiet, InstancesOwned, CloseLeavesNothing, Phases,
          Alive, Deleting, Active, LiveInstance, dbVars, worldVars, callVars, daemonVars
  <1>1. ASSUME Crash PROVE RuntimeInv'
    BY <1>1 DEF Crash, ForgetMemory
  <1>2. ASSUME Boot PROVE RuntimeInv'
    BY <1>2 DEF Boot, CleanupTargets
  <1>3. ASSUME Close PROVE RuntimeInv'
    BY <1>3 DEF Close
  <1>4. ASSUME ListInterrupted PROVE RuntimeInv'
    BY <1>4 DEF ListInterrupted
  <1>5. ASSUME Recovered PROVE RuntimeInv'
    BY <1>5 DEF Recovered
  <1>6. ASSUME StartsSettled PROVE RuntimeInv'
    BY <1>6 DEF StartsSettled
  <1>7. ASSUME FinishesSettled PROVE RuntimeInv'
    BY <1>7 DEF FinishesSettled
  <1>8. ASSUME CloseSweep PROVE RuntimeInv'
    <2>1. /\ phase = "sweep"
          /\ \A u \in Turns : finishPc[u] = "idle" /\ startPc[u] = "idle" /\ state[u] # "OPEN"
      BY <1>8 DEF CloseSweep
    <2>2. \A u \in Turns : state'[u] = IF state[u] \in {"STARTING", "FINISHING"} THEN "FAILED"
                                      ELSE state[u]
      BY <1>8 DEF CloseSweep
    <2>3. phase' = "service" /\ UNCHANGED <<bound, leases, startPc, finishPc, queue>>
      BY <1>8 DEF CloseSweep
    <2>4. \A u \in Turns : inst'[u] \in {inst[u], "LOST", "TERMINATED"}
      BY <1>8 DEF CloseSweep
    <2>5. \A u \in Turns : inst'[u] # inst[u] => state[u] \in {"STARTING", "FINISHING"}
      BY <1>8 DEF CloseSweep
    <2>6. \A u \in Turns : state[u] \in {"STARTING", "FINISHING"} /\ u \in bound
                             => inst'[u] \in {"LOST", "TERMINATED"}
      BY <1>8 DEF CloseSweep
    <2>7. \A u \in Turns : state[u] \in {"STARTING", "FINISHING"} => inst'[u] \notin LiveInstance
      BY <2>1, <2>4, <2>6
    <2>8. \A u \in Turns : inst'[u] \notin LiveInstance
      <3> SUFFICES ASSUME NEW u \in Turns, inst'[u] \in LiveInstance PROVE FALSE
        OBVIOUS
      <3>1. state[u] \notin {"STARTING", "FINISHING"} /\ inst[u] \in LiveInstance
        BY <2>5, <2>7
      <3>2. state[u] \in Active \/ finishPc[u] # "idle"
        BY ONLY <2>1, <3>1, InstancesOwned, u \in Turns DEF InstancesOwned, Alive
      <3> QED
        BY ONLY <2>1, <3>1, <3>2, u \in Turns DEF Active
    <2>9. RuntimeHeld'
      BY <2>1, <2>2, <2>3
    <2>10. LeasesOwned'
      BY <2>1, <2>2, <2>3
    <2>11. WorkspaceQuiet'
      BY <2>1, <2>3
    <2>12. InstancesOwned'
      <3>1. \A u \in Turns : state'[u] \notin {"STARTING", "OPEN", "FINISHING"}
        BY ONLY <2>1, <2>2
      <3>2. ASSUME NEW u \in Turns, state'[u] = "NONE" PROVE inst'[u] = "NONE"
        <4>1. state[u] = "NONE"
          BY ONLY <2>2, <3>2
        <4> QED
          BY ONLY <2>5, <4>1, InstancesOwned, u \in Turns DEF InstancesOwned
      <3>3. \A u \in queue : state'[u] # "NONE"
        BY <2>2
      <3> QED
        BY ONLY <2>1, <2>3, <2>8, <3>1, <3>2, <3>3, queue \subseteq Turns DEF InstancesOwned, Alive
    <2>13. CloseLeavesNothing'
      <3>1. \A u \in Turns : state'[u] \notin Active
        BY ONLY <2>1, <2>2 DEF Active
      <3>2. \A u \in Turns : leases'[u] = 0
        <4>1. \A u \in Turns : leases[u] \in Nat /\ ~(leases[u] > 0)
          BY <2>1
        <4> QED
          BY <2>3, <4>1
      <3> QED
        BY ONLY <2>8, <3>1, <3>2 DEF CloseLeavesNothing
    <2> QED
      BY <2>9, <2>10, <2>11, <2>12, <2>13
  <1>9. ASSUME CloseService PROVE RuntimeInv'
    <2>1. \A u \in Turns : finishPc[u] = "idle" /\ startPc[u] = "idle" /\ state[u] # "OPEN"
      BY <1>9 DEF CloseService
    <2>2. /\ {u \in Turns : inst[u] \in LiveInstance} = {}
          /\ phase' = "gc" /\ queue' \subseteq {u \in Turns : state[u] = "FINISHED"}
          /\ UNCHANGED <<bound, state, leases, startPc, finishPc>>
      BY <1>9 DEF CloseService, CleanupTargets
    <2>3. \A u \in Turns : inst'[u] = inst[u]
      BY <1>9, <2>2 DEF CloseService
    <2>4. RuntimeHeld'
      BY <2>1, <2>2, <2>3
    <2>5. LeasesOwned'
      BY <2>1, <2>2
    <2>6. WorkspaceQuiet'
      BY <2>1, <2>2
    <2>7. InstancesOwned'
      BY <1>9, <2>1, <2>2, <2>3 DEF CloseService
    <2>8. CloseLeavesNothing'
      BY <1>9, <2>1, <2>2, <2>3 DEF CloseService
    <2> QED
      BY <2>4, <2>5, <2>6, <2>7, <2>8
  <1>10. ASSUME Exit PROVE RuntimeInv'
    BY <1>10 DEF Exit, ForgetMemory
  <1>11. ASSUME NEW t \in Turns, Interrupt(t) PROVE RuntimeInv'
    <2>1. /\ \A u \in Turns : finishPc[u] = "idle" /\ startPc[u] = "idle"
          /\ state[t] # "NONE"
      BY <1>11 DEF Interrupt
    <2>2. /\ runtimes' \subseteq runtimes
          /\ \A u \in runtimes : u # t => u \in runtimes'
          /\ \A u \in Turns : shell'[u] = "active" => shell[u] = "active"
          /\ \A u \in Turns : u # t => shell'[u] = shell[u] /\ content'[u] = content[u]
      <3>1. CASE Destroy({t}, {})
        BY ONLY <3>1, <1>0, t \in Turns
      <3>2. CASE UNCHANGED <<worldVars, tracked, shell>>
        BY <3>2
      <3> QED
        BY <1>11, <3>1, <3>2 DEF Interrupt
    <2>3. RuntimeHeld'
      BY <1>11, <2>1, <2>2 DEF Interrupt
    <2>4. LeasesOwned'
      BY <1>11, <2>1, <2>2 DEF Interrupt
    <2>5. WorkspaceQuiet'
      BY <1>11, <2>1, <2>2 DEF Interrupt
    <2>6. InstancesOwned'
      BY <1>11, <2>1, <2>2 DEF Interrupt
    <2>7. CloseLeavesNothing'
      BY <1>11, <2>1, <2>2 DEF Interrupt
    <2> QED
      BY <2>3, <2>4, <2>5, <2>6, <2>7
  <1>12. ASSUME NEW t \in Turns, InterruptFails(t) PROVE RuntimeInv'
    <2>1. /\ \A u \in Turns : finishPc[u] = "idle" /\ startPc[u] = "idle"
          /\ state[t] # "NONE"
      BY <1>12 DEF InterruptFails
    <2>2. /\ runtimes' \subseteq runtimes
          /\ \A u \in runtimes : u # t => u \in runtimes'
          /\ \A u \in Turns : shell'[u] = "active" => shell[u] = "active"
          /\ \A u \in Turns : u # t => shell'[u] = shell[u] /\ content'[u] = content[u]
      <3>1. Destroy({t}, {t})
        BY <1>12 DEF InterruptFails
      <3> QED
        BY ONLY <3>1, <1>0, t \in Turns
    <2>3. RuntimeHeld'
      BY <1>12, <2>1, <2>2 DEF InterruptFails
    <2>4. LeasesOwned'
      BY <1>12, <2>1, <2>2 DEF InterruptFails
    <2>5. WorkspaceQuiet'
      BY <1>12, <2>1, <2>2 DEF InterruptFails
    <2>6. InstancesOwned'
      BY <1>12, <2>1, <2>2 DEF InterruptFails
    <2>7. CloseLeavesNothing'
      BY <1>12, <2>1, <2>2 DEF InterruptFails
    <2> QED
      BY <2>3, <2>4, <2>5, <2>6, <2>7
  <1>13. ASSUME NEW t \in Turns, CleanupFinished(t) PROVE RuntimeInv'
    <2>1. /\ \A u \in Turns : finishPc[u] = "idle" /\ startPc[u] = "idle"
          /\ state[t] # "NONE"
      BY <1>13 DEF CleanupFinished
    <2>2. /\ runtimes' \subseteq runtimes
          /\ \A u \in runtimes : u # t => u \in runtimes'
          /\ \A u \in Turns : shell'[u] = "active" => shell[u] = "active"
          /\ \A u \in Turns : u # t => shell'[u] = shell[u] /\ content'[u] = content[u]
      <3>1. Destroy({t}, {})
        BY <1>13 DEF CleanupFinished
      <3> QED
        BY ONLY <3>1, <1>0, t \in Turns
    <2>3. RuntimeHeld'
      BY <1>13, <2>1, <2>2 DEF CleanupFinished
    <2>4. LeasesOwned'
      BY <1>13, <2>1, <2>2 DEF CleanupFinished
    <2>5. WorkspaceQuiet'
      BY <1>13, <2>1, <2>2 DEF CleanupFinished
    <2>6. InstancesOwned'
      BY <1>13, <2>1, <2>2 DEF CleanupFinished
    <2>7. CloseLeavesNothing'
      BY <1>13, <2>1, <2>2 DEF CleanupFinished
    <2> QED
      BY <2>3, <2>4, <2>5, <2>6, <2>7
  <1>14. ASSUME NEW t \in Turns, CleanupFails(t) PROVE RuntimeInv'
    <2>1. /\ \A u \in Turns : finishPc[u] = "idle" /\ startPc[u] = "idle"
          /\ state[t] # "NONE"
      BY <1>14 DEF CleanupFails
    <2>2. /\ runtimes' \subseteq runtimes
          /\ \A u \in runtimes : u # t => u \in runtimes'
          /\ \A u \in Turns : shell'[u] = "active" => shell[u] = "active"
          /\ \A u \in Turns : u # t => shell'[u] = shell[u] /\ content'[u] = content[u]
      <3>1. Destroy({t}, {t})
        BY <1>14 DEF CleanupFails
      <3> QED
        BY ONLY <3>1, <1>0, t \in Turns
    <2>3. RuntimeHeld'
      BY <1>14, <2>1, <2>2 DEF CleanupFails
    <2>4. LeasesOwned'
      BY <1>14, <2>1, <2>2 DEF CleanupFails
    <2>5. WorkspaceQuiet'
      BY <1>14, <2>1, <2>2 DEF CleanupFails
    <2>6. InstancesOwned'
      BY <1>14, <2>1, <2>2 DEF CleanupFails
    <2>7. CloseLeavesNothing'
      BY <1>14, <2>1, <2>2 DEF CleanupFails
    <2> QED
      BY <2>3, <2>4, <2>5, <2>6, <2>7
  <1>15. ASSUME NEW t \in Turns, CloseFinish(t) PROVE RuntimeInv'
    <2>1. Alive /\ Alive' /\ leases' = leases
      BY <1>15 DEF CloseFinish
    <2>2. RuntimeHeld'
      BY <1>15, <2>1 DEF CloseFinish, FinishRow
    <2>3. LeasesOwned'
      <3>1. CASE state[t] = "OPEN"
        <4>1. FinishRow(t)
          BY <1>15, <3>1, CloseFinishEffect
        <4>2. /\ \A u \in Turns : u # t => state'[u] = state[u] /\ finishPc'[u] = finishPc[u]
              /\ finishPc'[t] = "leases"
          BY <4>1 DEF FinishRow
        <4>3. ASSUME NEW u \in Turns, leases[u] > 0
              PROVE  state'[u] = "OPEN" \/ finishPc'[u] = "leases"
          <5>1. state[u] = "OPEN" \/ finishPc[u] = "leases"
            BY <4>3
          <5>2. CASE u = t
            BY <4>2, <5>2
          <5>3. CASE u # t
            BY <4>2, <5>1, <5>3
          <5> QED
            BY <5>2, <5>3
        <4> QED
          BY <2>1, <4>3
      <3>2. CASE state[t] # "OPEN"
        BY <1>15, <2>1, <3>2, CloseFinishEffect
      <3> QED
        BY <3>1, <3>2
    <2>4. WorkspaceQuiet'
      BY <1>15, <2>1 DEF CloseFinish, FinishRow
    <2>5. InstancesOwned'
      BY <1>15, <2>1 DEF CloseFinish, FinishRow
    <2>6. CloseLeavesNothing'
      BY <1>15, <2>1 DEF CloseFinish, FinishRow
    <2> QED
      BY <2>2, <2>3, <2>4, <2>5, <2>6
  <1> QED
    BY <1>1, <1>2, <1>3, <1>4, <1>5, <1>6, <1>7, <1>8, <1>9, <1>10, <1>11, <1>12, <1>13, <1>14, <1>15
    DEF RecoverStep, CloseStep, CleanupStep

\* A fork touches no runtime.
LEMMA ForkKeepsRuntime ==
  ASSUME RuntimeInv, NEW src \in Threads, NEW dst \in Threads, Fork(src, dst)
  PROVE  RuntimeInv'
PROOF
  BY DEF Fork, RuntimeInv, RuntimeHeld, UsesRuntime, LeasesOwned, WorkspaceQuiet, InstancesOwned,
         CloseLeavesNothing, Alive, worldVars, callVars, daemonVars

\* Initially there is no runtime and nobody who could use one.
LEMMA InitRuntime == Init => RuntimeInv
PROOF
  BY DEF Init, RuntimeInv, RuntimeHeld, UsesRuntime, LeasesOwned, WorkspaceQuiet, InstancesOwned,
         CloseLeavesNothing, Alive, LiveInstance

\* Every step keeps RuntimeInv.
LEMMA RuntimeStep == LifecycleInv /\ RuntimeInv /\ [Next]_vars => RuntimeInv'
PROOF
  <1> SUFFICES ASSUME LifecycleInv, RuntimeInv, [Next]_vars PROVE RuntimeInv'
    OBVIOUS
  <1>1. ASSUME NEW t \in Turns
        PROVE  Start(t) \/ StartStep(t) \/ CallStep(t) \/ Finish(t) \/ FinishStep(t)
                 => RuntimeInv'
    BY StartKeepsRuntime, CallKeepsRuntime, FinishKeepsRuntime
  <1>2. ASSUME NEW src \in Threads, NEW dst \in Threads PROVE Fork(src, dst) => RuntimeInv'
    BY ForkKeepsRuntime
  <1>3. Crash \/ Boot \/ Close \/ RecoverStep \/ CloseStep \/ CleanupStep => RuntimeInv'
    BY DaemonKeepsRuntime
  <1>4. UNCHANGED vars => RuntimeInv'
    BY DEF RuntimeInv, RuntimeHeld, UsesRuntime, LeasesOwned, WorkspaceQuiet, InstancesOwned,
           CloseLeavesNothing, Alive, vars, dbVars, worldVars, callVars, daemonVars
  <1>5. Rest => RuntimeInv'
    BY <1>4 DEF Rest
  <1> QED
    BY <1>1, <1>2, <1>3, <1>4, <1>5 DEF Next

----------------------------------------------------------------------------
(* theorems                                                                *)

\* The runtime of a turn is there as long as its owner relies on it, and a live
\* instance has an owner, through crashes, recovery and shutdown.
THEOREM RuntimeInvariant == Spec => []RuntimeInv
PROOF
  <1> QED BY InitInv, InvStep, InitRuntime, RuntimeStep, PTL DEF Spec

\* The runtime a tool call works in stays READY or RUNNING until the call has
\* released its lease, whatever finish, recovery and shutdown do (turn-service.ts:392).
THEOREM LeasesProtectRuntimes == Spec => []LeaseProtectsRuntime
PROOF
  <1>1. LifecycleInv /\ RuntimeInv => LeaseProtectsRuntime
    BY DEF LifecycleInv, FinishOwned, Deleting, RuntimeInv, RuntimeHeld, UsesRuntime, LeasesOwned,
           LeaseProtectsRuntime
  <1> QED BY <1>1, LifecycleInvariant, RuntimeInvariant, PTL

\* What a durable turn publishes is what its workspace holds, unless a command no
\* session knows of writes on (turn-service.ts:392-404, sandbox-service.ts:172).
THEOREM SnapshotsAreFaithful == Spec => []SnapshotFaithful
PROOF
  <1>1. ASSUME LifecycleInv, RuntimeInv, NEW t \in Turns, finishPc[t] = "publish"
        PROVE  leases[t] = 0
    <2>1. state[t] = "FINISHING"
      BY <1>1 DEF LifecycleInv, FinishOwned, Deleting
    <2>2. ~(leases[t] > 0)
      BY <1>1, <2>1 DEF RuntimeInv, LeasesOwned
    <2> QED BY <1>1, <2>2 DEF LifecycleInv, TypeOK
  <1>2. LifecycleInv /\ RuntimeInv => SnapshotFaithful
    BY <1>1 DEF RuntimeInv, WorkspaceQuiet, SnapshotFaithful
  <1> QED BY <1>2, LifecycleInvariant, RuntimeInvariant, PTL

\* turns.close() leaves no active turn, no lease and no live instance to
\* SandboxService.close(), from any state a stop may find (turn-service.ts:507-540).
THEOREM CloseAlwaysLeavesNothing == Spec => []CloseLeavesNothing
PROOF
  <1>1. RuntimeInv => CloseLeavesNothing
    BY DEF RuntimeInv
  <1> QED BY <1>1, RuntimeInvariant, PTL

----------------------------------------------------------------------------
(* theorems about daemons whose backends do not fail in certain ways       *)

\* A start is refused only by the failure that Faults names.
LEMMA WorkStep ==
  ASSUME "preflight" \notin Faults
  PROVE  LifecycleInv /\ WorkHasOwner /\ [Next]_vars => WorkHasOwner'
PROOF
  <1> SUFFICES ASSUME LifecycleInv, WorkHasOwner, [Next]_vars PROVE WorkHasOwner'
    OBVIOUS
  <1> USE DEF LifecycleInv, TypeOK, WorkHasOwner, Alive, dbVars, worldVars, callVars, daemonVars
  <1>1. ASSUME NEW t \in Turns, Start(t) \/ StartStep(t) PROVE WorkHasOwner'
    BY <1>1 DEF Start, StartStep, Provision, StartRefused, RuntimeCreated, CreateFails,
                RecordHandle, OpenTurn
  <1>2. ASSUME NEW t \in Turns, CallStep(t) PROVE WorkHasOwner'
    BY <1>2 DEF CallStep, Acquire, Release, ToolExec, ShellEnded, Abandon, ReapExpired, ToolWrite,
                ShellWrite
  <1>3. ASSUME NEW t \in Turns, Finish(t) \/ FinishStep(t) PROVE WorkHasOwner'
    <2>1. CASE Finish(t) \/ LeasesDrained(t) \/ SessionsClosed(t) \/ SessionsStuck(t)
      BY <2>1 DEF Finish, FinishRow, LeasesDrained, SessionsClosed, SessionsStuck, FailTurn
    <2>2. CASE BeginCommit(t) \/ SnapshotTaken(t) \/ SnapshotFails(t) \/ Publish(t)
      BY <2>2 DEF BeginCommit, SnapshotTaken, SnapshotFails, Publish, CommitFails, FailTurn
    <2>3. CASE BeginDelete(t) \/ RuntimeDestroyed(t)
      BY <2>3 DEF BeginDelete, RuntimeDestroyed
    <2>4. CASE DeleteDone(t) \/ DeleteFails(t)
      <3>1. t \in Durable /\ t \notin aborting => state[t] = "FINISHED"
        BY <2>4 DEF DeleteDone, DeleteFails, DeleteRejects, FinishOwned, Deleting
      <3> QED BY <2>4, <3>1 DEF DeleteDone, DeleteFails
    <2> QED BY <1>3, <2>1, <2>2, <2>3, <2>4 DEF FinishStep
  <1>4. ASSUME NEW src \in Threads, NEW dst \in Threads, Fork(src, dst) PROVE WorkHasOwner'
    BY <1>4 DEF Fork
  <1>5. ASSUME Crash \/ Boot \/ Close PROVE WorkHasOwner'
    BY <1>5 DEF Crash, Boot, Close
  <1>6. ASSUME RecoverStep PROVE WorkHasOwner'
    BY <1>6 DEF RecoverStep, ListInterrupted, Recovered, Interrupt, InterruptFails, Active
  <1>7. ASSUME NEW t \in Turns, CloseFinish(t) PROVE WorkHasOwner'
    BY <1>7 DEF CloseFinish, FinishRow
  <1>8. ASSUME StartsSettled \/ FinishesSettled \/ CloseSweep \/ CloseService \/ Exit
        PROVE  WorkHasOwner'
    BY <1>8 DEF StartsSettled, FinishesSettled, CloseSweep, CloseService, Exit
  <1>9. ASSUME CleanupStep PROVE WorkHasOwner'
    BY <1>9 DEF CleanupStep, CleanupFinished, CleanupFails
  <1>10. ASSUME UNCHANGED vars PROVE WorkHasOwner'
    BY <1>10 DEF vars
  <1> QED
    BY <1>1, <1>2, <1>3, <1>4, <1>5, <1>6, <1>7, <1>8, <1>9, <1>10 DEF Next, CloseStep, Rest

\* As long as no start fails before its instance row exists, a turn that is
\* starting or finishing has a continuation that works on it, through any crashes
\* and shutdowns; StuckStart.cfg shows the other case (turn-service.ts:273).
THEOREM WorkAlwaysHasOwner ==
  ASSUME "preflight" \notin Faults
  PROVE  Spec => []WorkHasOwner
PROOF
  <1>1. Init => WorkHasOwner
    BY DEF Init, WorkHasOwner, Alive
  <1>2. LifecycleInv /\ WorkHasOwner /\ [Next]_vars => WorkHasOwner'
    BY WorkStep
  <1> QED BY <1>1, <1>2, LifecycleInvariant, PTL DEF Spec

\* The backend knows every machine that runs.
MachinesTracked == Firecracker \cap runtimes \subseteq tracked

\* A step that does not forget a machine: FirecrackerBackend keeps its machines in
\* memory, so none runs as the process ends.
ForgetsNoMachine == Crash \/ Exit => Firecracker \cap runtimes = {}

\* Only Docker refuses a DELETE and has destroy() resolve all the same.
RefusedContainers == refused \subseteq Docker

\* A finish that has destroyed its runtime finds it gone, or Docker refused.
RuntimeGone ==
  \A t \in Turns : finishPc[t] = "record" => t \notin runtimes \/ t \in refused

\* destroy() leaves a runtime only where it rejected and the backend may leave it,
\* or where Docker refused.
LEMMA DestroyRemoves ==
  ASSUME MachinesTracked, NEW S, NEW failed, S \subseteq Turns, Destroy(S, failed)
  PROVE  /\ \A u \in runtimes' \cap S : u \in refused' \/ u \in failed \cap Rejecting
         /\ \A u \in Turns \ S : (u \in runtimes' <=> u \in runtimes) /\ (u \in refused' <=> u \in refused)
         /\ runtimes' \subseteq runtimes
         /\ MachinesTracked'
         /\ RefusedContainers => RefusedContainers' /\ failed \cap refused' = {}
PROOF
  <1> DEFINE Gone(kept) == S \ (kept \cup (failed \cap Rejecting) \cup (Firecracker \ tracked))
  <1>1. PICK kept \in SUBSET ((S \ failed) \cap runtimes \cap Docker) :
          /\ failed \subseteq Rejecting \cup (Firecracker \cap tracked)
          /\ runtimes' = runtimes \ Gone(kept)
          /\ refused' = (refused \ S) \cup kept
          /\ tracked' = tracked \ S
    BY DEF Destroy
  <1>2. kept \subseteq Docker /\ Docker \cap Firecracker = {} /\ Docker \cap Rejecting = {}
    BY DEF Docker
  <1>3. Rejecting \cap Firecracker = {}
    BY ConstantsAssumption
  <1>4. \A u \in runtimes' \cap S : u \in kept \/ u \in failed \cap Rejecting
    BY <1>1 DEF MachinesTracked
  <1>5. MachinesTracked'
    BY <1>1, <1>2, <1>3, <1>4 DEF MachinesTracked
  <1>6. RefusedContainers => RefusedContainers' /\ failed \cap refused' = {}
    BY <1>1, <1>2 DEF RefusedContainers
  <1> QED
    BY <1>1, <1>4, <1>5, <1>6

\* The same of the runtime of one turn.
LEMMA DestroyedOne ==
  ASSUME MachinesTracked, NEW t \in Turns, NEW failed, Destroy({t}, failed)
  PROVE  /\ t \in runtimes' => t \in refused' \/ t \in failed \cap Rejecting
         /\ \A u \in Turns : u # t => /\ u \in runtimes' <=> u \in runtimes
                                      /\ u \in refused' <=> u \in refused
         /\ runtimes' \subseteq runtimes
         /\ MachinesTracked'
         /\ RefusedContainers => RefusedContainers' /\ failed \cap refused' = {}
PROOF
  <1>1. {t} \subseteq Turns
    OBVIOUS
  <1> HIDE DEF MachinesTracked, RefusedContainers
  <1> QED
    BY <1>1, DestroyRemoves

\* A machine leaves the map of the backend as it ends, or with the process.
LEMMA TrackedStep ==
  MachinesTracked /\ [Next]_vars /\ [ForgetsNoMachine]_vars => MachinesTracked'
PROOF
  <1> SUFFICES ASSUME MachinesTracked, [Next]_vars, [ForgetsNoMachine]_vars PROVE MachinesTracked'
    OBVIOUS
  <1> USE DEF dbVars, worldVars, callVars, daemonVars
  <1>1. UNCHANGED <<runtimes, tracked>> => MachinesTracked'
    BY DEF MachinesTracked
  <1>2. CASE UNCHANGED vars
    BY <1>1, <1>2 DEF vars
  <1>3. ASSUME NEW t \in Turns, RuntimeCreated(t) PROVE MachinesTracked'
    BY <1>3 DEF RuntimeCreated, MachinesTracked
  <1>4. ASSUME NEW t \in Turns, NEW failed, Destroy({t}, failed) PROVE MachinesTracked'
    BY <1>4, DestroyedOne
  <1>5. ASSUME NEW t \in Turns,
               CreateFails(t) \/ RuntimeDestroyed(t) \/ CleanupFinished(t) \/ CleanupFails(t)
                 \/ InterruptFails(t)
        PROVE  MachinesTracked'
    BY <1>4, <1>5 DEF CreateFails, RuntimeDestroyed, CleanupFinished, CleanupFails, InterruptFails
  <1>6. ASSUME NEW t \in Turns, Interrupt(t) \/ DeleteFails(t) PROVE MachinesTracked'
    BY <1>1, <1>4, <1>6 DEF Interrupt, DeleteFails, DeleteRejects
  <1>7. ASSUME CloseSweep PROVE MachinesTracked'
    <2> DEFINE held == {t \in {u \in Turns : state[u] \in {"STARTING", "FINISHING"}} \cap bound :
                          inst[t] # "TERMINATED"}
    <2>1. PICK failed \in SUBSET (held \cap handle) : Destroy(held \cap handle, failed)
      BY <1>7 DEF CloseSweep
    <2>2. held \cap handle \subseteq Turns
      OBVIOUS
    <2> HIDE DEF held
    <2> QED BY <2>1, <2>2, DestroyRemoves
  <1>8. ASSUME CloseService PROVE MachinesTracked'
    <2> DEFINE live == {t \in Turns : inst[t] \in LiveInstance}
    <2>1. PICK failed \in SUBSET (live \cap handle) : Destroy(live \cap handle, failed)
      BY <1>8 DEF CloseService
    <2>2. live \cap handle \subseteq Turns
      OBVIOUS
    <2> HIDE DEF live
    <2> QED BY <2>1, <2>2, DestroyRemoves
  <1>9. ASSUME NEW t \in Turns,
               \/ Start(t) \/ Provision(t) \/ StartRefused(t) \/ RecordHandle(t) \/ OpenTurn(t)
               \/ CallStep(t) \/ Finish(t) \/ CloseFinish(t)
        PROVE  UNCHANGED <<runtimes, tracked>>
    BY <1>9 DEF Start, Provision, StartRefused, RecordHandle, OpenTurn, CallStep, Acquire, Release,
                ToolExec, ShellEnded, Abandon, ReapExpired, ToolWrite, ShellWrite, Finish,
                CloseFinish
  <1>10. ASSUME NEW t \in Turns, FinishStep(t), ~RuntimeDestroyed(t), ~DeleteFails(t)
         PROVE  UNCHANGED <<runtimes, tracked>>
    BY <1>10 DEF FinishStep, LeasesDrained, SessionsClosed, SessionsStuck, BeginCommit,
                 SnapshotTaken, SnapshotFails, Publish, CommitFails, FailTurn, BeginDelete, DeleteDone
  <1>11. ASSUME \/ \E src, dst \in Threads : Fork(src, dst)
                \/ Boot \/ Close \/ ListInterrupted \/ Recovered \/ StartsSettled \/ FinishesSettled
         PROVE  UNCHANGED <<runtimes, tracked>>
    BY <1>11 DEF Fork, Boot, Close, ListInterrupted, Recovered, StartsSettled, FinishesSettled
  <1>12. ASSUME Crash \/ Exit PROVE MachinesTracked'
    <2>1. UNCHANGED runtimes
      BY <1>12 DEF Crash, Exit
    <2>2. CASE UNCHANGED vars
      BY <1>1, <2>2 DEF vars
    <2>3. CASE Firecracker \cap runtimes = {}
      BY <2>1, <2>3 DEF MachinesTracked
    <2> QED BY <1>12, <2>2, <2>3 DEF ForgetsNoMachine
  <1> QED
    BY <1>1, <1>2, <1>3, <1>5, <1>6, <1>7, <1>8, <1>9, <1>10, <1>11, <1>12
    DEF Next, StartStep, RecoverStep, CloseStep, CleanupStep, Rest

\* Only create() brings a runtime, and not beside a finish of the turn.
LEMMA GoneStep ==
  LifecycleInv /\ RuntimeInv /\ MachinesTracked /\ RuntimeGone /\ [Next]_vars => RuntimeGone'
PROOF
  <1> SUFFICES ASSUME LifecycleInv, RuntimeInv, MachinesTracked, RuntimeGone, [Next]_vars
               PROVE  RuntimeGone'
    OBVIOUS
  <1>0. TypeOK
    BY DEF LifecycleInv
  <1> USE DEF TypeOK, dbVars, worldVars, callVars, daemonVars
  <1>1. ASSUME NEW t \in Turns, NEW failed, Destroy({t}, failed),
               \A u \in Turns : finishPc'[u] = "record" => u # t /\ finishPc[u] = "record"
        PROVE  RuntimeGone'
    <2>1. \A u \in Turns : u # t => (u \in runtimes' <=> u \in runtimes) /\ (u \in refused' <=> u \in refused)
      BY <1>1, DestroyedOne
    <2> QED BY <1>1, <2>1 DEF RuntimeGone
  <1>2. ASSUME UNCHANGED <<runtimes, refused>>,
               \A u \in Turns : finishPc'[u] = "record" => finishPc[u] = "record"
        PROVE  RuntimeGone'
    BY <1>2 DEF RuntimeGone
  <1>3. ASSUME \A u \in Turns : finishPc'[u] = "idle"
        PROVE  RuntimeGone'
    BY <1>3 DEF RuntimeGone
  <1>4. ASSUME NEW t \in Turns, Start(t) \/ StartStep(t) PROVE RuntimeGone'
    <2>1. CASE RuntimeCreated(t)
      <3>1. finishPc[t] = "idle"
        BY <1>0, <2>1 DEF RuntimeCreated, LifecycleInv, StartOwned, FinishOwned
      <3> QED BY <1>0, <2>1, <3>1 DEF RuntimeCreated, RuntimeGone
    <2>2. CASE CreateFails(t)
      <3>1. finishPc[t] = "idle"
        BY <1>0, <2>2 DEF CreateFails, LifecycleInv, StartOwned, FinishOwned
      <3> QED BY <1>1, <2>2, <3>1 DEF CreateFails
    <2>3. CASE Start(t) \/ Provision(t) \/ StartRefused(t) \/ RecordHandle(t) \/ OpenTurn(t)
      BY <1>2, <2>3 DEF Start, Provision, StartRefused, RecordHandle, OpenTurn
    <2> QED BY <1>4, <2>1, <2>2, <2>3 DEF StartStep
  <1>5. ASSUME NEW t \in Turns, CallStep(t) PROVE RuntimeGone'
    BY <1>2, <1>5 DEF CallStep, Acquire, Release, ToolExec, ShellEnded, Abandon, ReapExpired,
                ToolWrite, ShellWrite
  <1>6. ASSUME NEW t \in Turns, Finish(t) \/ FinishStep(t) PROVE RuntimeGone'
    <2>1. CASE Finish(t) \/ LeasesDrained(t) \/ SessionsClosed(t) \/ SessionsStuck(t)
      BY <1>0, <1>2, <2>1 DEF Finish, FinishRow, LeasesDrained, SessionsClosed, SessionsStuck, FailTurn
    <2>2. CASE BeginCommit(t) \/ SnapshotTaken(t) \/ SnapshotFails(t) \/ Publish(t)
      BY <1>0, <1>2, <2>2
      DEF BeginCommit, SnapshotTaken, SnapshotFails, Publish, CommitFails, FailTurn
    <2>3. CASE BeginDelete(t)
      <3>1. inst[t] # "TERMINATED"
        BY <2>3 DEF BeginDelete, RuntimeInv, InstancesOwned
      <3> QED BY <1>0, <1>2, <2>3, <3>1 DEF BeginDelete
    <2>4. CASE RuntimeDestroyed(t)
      <3>1. Destroy({t}, {})
        BY <2>4 DEF RuntimeDestroyed
      <3>2. /\ t \in runtimes' => t \in refused'
            /\ \A u \in Turns : u # t => (u \in runtimes' <=> u \in runtimes) /\ (u \in refused' <=> u \in refused)
        BY <3>1, DestroyedOne
      <3> QED BY <1>0, <2>4, <3>2 DEF RuntimeDestroyed, RuntimeGone
    <2>5. CASE DeleteDone(t)
      BY <1>0, <1>2, <2>5 DEF DeleteDone
    <2>6. CASE DeleteFails(t)
      <3>1. \A u \in Turns : finishPc'[u] = "record" => u # t /\ finishPc[u] = "record"
        BY <1>0, <2>6 DEF DeleteFails
      <3>2. CASE Destroy({t}, {t})
        BY <1>1, <3>1, <3>2
      <3>3. CASE UNCHANGED <<worldVars, tracked, shell>>
        BY <1>2, <3>1, <3>3
      <3> QED BY <2>6, <3>2, <3>3 DEF DeleteFails, DeleteRejects
    <2> QED BY <1>6, <2>1, <2>2, <2>3, <2>4, <2>5, <2>6 DEF FinishStep
  <1>7. ASSUME NEW src \in Threads, NEW dst \in Threads, Fork(src, dst) PROVE RuntimeGone'
    BY <1>2, <1>7 DEF Fork
  <1>8. ASSUME Crash \/ Exit PROVE RuntimeGone'
    BY <1>3, <1>8 DEF Crash, Exit, ForgetMemory
  <1>9. ASSUME Boot \/ Close \/ StartsSettled \/ FinishesSettled PROVE RuntimeGone'
    BY <1>2, <1>9 DEF Boot, Close, StartsSettled, FinishesSettled
  <1>10. ASSUME RecoverStep \/ CleanupStep \/ CloseSweep \/ CloseService PROVE RuntimeGone'
    <2>1. /\ phase \notin {"up", "starts", "finish"}
          /\ UNCHANGED finishPc
      BY <1>10 DEF RecoverStep, ListInterrupted, Recovered, Interrupt, InterruptFails, CleanupStep,
                   CleanupFinished, CleanupFails, CloseSweep, CloseService
    <2>2. \A u \in Turns : finishPc[u] = "idle"
      BY <2>1 DEF LifecycleInv, PhaseOwned
    <2> QED BY <1>3, <2>1, <2>2
  <1>11. ASSUME NEW t \in Turns, CloseFinish(t) PROVE RuntimeGone'
    BY <1>0, <1>2, <1>11 DEF CloseFinish, FinishRow
  <1>12. ASSUME UNCHANGED vars PROVE RuntimeGone'
    BY <1>2, <1>12 DEF vars
  <1> QED
    BY <1>4, <1>5, <1>6, <1>7, <1>8, <1>9, <1>10, <1>11, <1>12 DEF Next, CloseStep, Rest

\* Whoever drops a handle has seen destroy() resolve.
LEMMA HandleStep ==
  ASSUME LifecycleInv, RuntimeInv, MachinesTracked, RuntimeGone, [Next]_vars,
         NEW h \in handle, h \notin handle'
  PROVE  h \notin runtimes' \/ h \in refused'
PROOF
  <1>0. TypeOK /\ h \in Turns
    BY DEF LifecycleInv, TypeOK
  <1> USE DEF dbVars, worldVars, callVars, daemonVars
  <1>1. ASSUME NEW t \in Turns, Start(t) \/ StartStep(t) \/ CallStep(t) \/ Finish(t) PROVE FALSE
    BY <1>1 DEF Start, StartStep, Provision, StartRefused, RuntimeCreated, CreateFails, RecordHandle,
                OpenTurn, CallStep, Acquire, Release, ToolExec, ShellEnded, Abandon, ReapExpired,
                ToolWrite, ShellWrite, Finish
  <1>2. ASSUME NEW t \in Turns, FinishStep(t) PROVE DeleteDone(t)
    BY <1>2 DEF FinishStep, LeasesDrained, SessionsClosed, SessionsStuck, BeginCommit, SnapshotTaken,
                SnapshotFails, Publish, BeginDelete, RuntimeDestroyed, DeleteFails
  <1>3. ASSUME NEW t \in Turns, DeleteDone(t) PROVE h \notin runtimes' \/ h \in refused'
    BY <1>3 DEF DeleteDone, RuntimeGone
  <1>4. ASSUME NEW src \in Threads, NEW dst \in Threads, Fork(src, dst) PROVE FALSE
    BY <1>4 DEF Fork
  <1>5. ASSUME Crash \/ Boot \/ Close \/ Exit \/ ListInterrupted \/ Recovered \/ StartsSettled
               \/ FinishesSettled \/ UNCHANGED vars
        PROVE  FALSE
    BY <1>5 DEF Crash, Boot, Close, Exit, ListInterrupted, Recovered, StartsSettled,
                FinishesSettled, vars
  <1>6. ASSUME NEW t \in Turns, InterruptFails(t) \/ CleanupFails(t) \/ CloseFinish(t) PROVE FALSE
    BY <1>6 DEF InterruptFails, CleanupFails, CloseFinish
  <1>7. ASSUME NEW t \in Turns, Interrupt(t) \/ CleanupFinished(t)
        PROVE  h \notin runtimes' \/ h \in refused'
    <2>1. h = t /\ Destroy({t}, {})
      BY <1>7 DEF Interrupt, CleanupFinished
    <2> QED BY <2>1, DestroyedOne
  <1>8. ASSUME CloseSweep PROVE h \notin runtimes' \/ h \in refused'
    <2> DEFINE held == {t \in {u \in Turns : state[u] \in {"STARTING", "FINISHING"}} \cap bound :
                          inst[t] # "TERMINATED"}
    <2>1. PICK failed \in SUBSET (held \cap handle), kept \in SUBSET held :
            /\ Destroy(held \cap handle, failed)
            /\ handle' = handle \ (held \ (failed \cup kept))
      BY <1>8 DEF CloseSweep
    <2>2. held \cap handle \subseteq Turns
      OBVIOUS
    <2> HIDE DEF held
    <2>3. h \in (held \cap handle) \ failed
      BY <2>1
    <2>4. \A u \in runtimes' \cap (held \cap handle) : u \in refused' \/ u \in failed \cap Rejecting
      BY <2>1, <2>2, DestroyRemoves
    <2> QED BY <2>3, <2>4
  <1>9. ASSUME CloseService PROVE FALSE
    <2>1. {t \in Turns : inst[t] \in LiveInstance} = {}
      BY <1>9 DEF CloseService, RuntimeInv, CloseLeavesNothing
    <2> QED BY <1>9, <2>1 DEF CloseService
  <1> QED
    BY <1>1, <1>2, <1>3, <1>4, <1>5, <1>6, <1>7, <1>8, <1>9
    DEF Next, RecoverStep, CloseStep, CleanupStep, Rest

\* As long as no process ends over a virtual machine, nobody drops the handle of a runtime
\* that is still there, through rejected destructions, crashes, recoveries and shutdowns,
\* except where Docker refused the DELETE and destroy() kept it to itself;
\* VmAfterRestart.cfg shows the case left out (recovery.ts:46-50, docker.ts:521,
\* firecracker.ts:561).
THEOREM HandlesOutliveRuntimes ==
  Spec /\ [][ForgetsNoMachine]_vars => HandleDroppedOnlyWhenGone
PROOF
  <1>1. Init => MachinesTracked /\ RuntimeGone
    BY DEF Init, MachinesTracked, RuntimeGone
  <1>2. MachinesTracked /\ [Next]_vars /\ [ForgetsNoMachine]_vars => MachinesTracked'
    BY TrackedStep
  <1>3. LifecycleInv /\ RuntimeInv /\ MachinesTracked /\ RuntimeGone /\ [Next]_vars => RuntimeGone'
    BY GoneStep
  <1>4. LifecycleInv /\ RuntimeInv /\ MachinesTracked /\ RuntimeGone /\ [Next]_vars
          => [\A t \in handle : t \notin handle' => t \notin runtimes' \/ t \in refused']_vars
    BY HandleStep
  <1> QED
    BY <1>1, <1>2, <1>3, <1>4, LifecycleInvariant, RuntimeInvariant, PTL
    DEF Spec, HandleDroppedOnlyWhenGone

\* RuntimesAccounted, in every phase.
AccountedFor(t) ==
  \/ startPc[t] = "created"
  \/ t \in handle /\ (inst[t] \in LiveInstance \/ (inst[t] = "LOST" /\ t \in Rejecting))

Accounted == \A t \in runtimes \ refused : AccountedFor(t)

\* Only Destroy refuses.
LEMMA RefusedStep ==
  MachinesTracked /\ RefusedContainers /\ [Next]_vars => RefusedContainers'
PROOF
  <1> SUFFICES ASSUME MachinesTracked, RefusedContainers, [Next]_vars PROVE RefusedContainers'
    OBVIOUS
  <1> USE DEF dbVars, worldVars, callVars, daemonVars
  <1>1. UNCHANGED refused => RefusedContainers'
    BY DEF RefusedContainers
  <1>2. ASSUME NEW t \in Turns, NEW failed, Destroy({t}, failed) PROVE RefusedContainers'
    BY <1>2, DestroyedOne
  <1>3. ASSUME NEW t \in Turns,
               CreateFails(t) \/ RuntimeDestroyed(t) \/ CleanupFinished(t) \/ CleanupFails(t)
                 \/ InterruptFails(t)
        PROVE  RefusedContainers'
    BY <1>2, <1>3 DEF CreateFails, RuntimeDestroyed, CleanupFinished, CleanupFails, InterruptFails
  <1>4. ASSUME NEW t \in Turns, Interrupt(t) \/ DeleteFails(t) PROVE RefusedContainers'
    BY <1>1, <1>2, <1>4 DEF Interrupt, DeleteFails, DeleteRejects
  <1>5. ASSUME CloseSweep PROVE RefusedContainers'
    <2> DEFINE held == {t \in {u \in Turns : state[u] \in {"STARTING", "FINISHING"}} \cap bound :
                          inst[t] # "TERMINATED"}
    <2>1. PICK failed \in SUBSET (held \cap handle) : Destroy(held \cap handle, failed)
      BY <1>5 DEF CloseSweep
    <2>2. held \cap handle \subseteq Turns
      OBVIOUS
    <2> HIDE DEF held
    <2> QED BY <2>1, <2>2, DestroyRemoves
  <1>6. ASSUME CloseService PROVE RefusedContainers'
    <2> DEFINE live == {t \in Turns : inst[t] \in LiveInstance}
    <2>1. PICK failed \in SUBSET (live \cap handle) : Destroy(live \cap handle, failed)
      BY <1>6 DEF CloseService
    <2>2. live \cap handle \subseteq Turns
      OBVIOUS
    <2> HIDE DEF live
    <2> QED BY <2>1, <2>2, DestroyRemoves
  <1>7. ASSUME NEW t \in Turns,
               \/ Start(t) \/ Provision(t) \/ StartRefused(t) \/ RuntimeCreated(t)
               \/ RecordHandle(t) \/ OpenTurn(t) \/ CallStep(t) \/ Finish(t) \/ CloseFinish(t)
        PROVE  UNCHANGED refused
    BY <1>7 DEF Start, Provision, StartRefused, RuntimeCreated, RecordHandle, OpenTurn, CallStep,
                Acquire, Release, ToolExec, ShellEnded, Abandon, ReapExpired, ToolWrite, ShellWrite,
                Finish, CloseFinish
  <1>8. ASSUME NEW t \in Turns, FinishStep(t), ~RuntimeDestroyed(t), ~DeleteFails(t)
        PROVE  UNCHANGED refused
    BY <1>8 DEF FinishStep, LeasesDrained, SessionsClosed, SessionsStuck, BeginCommit,
                SnapshotTaken, SnapshotFails, Publish, CommitFails, FailTurn, BeginDelete, DeleteDone
  <1>9. ASSUME \/ \E src, dst \in Threads : Fork(src, dst)
               \/ Boot \/ Close \/ ListInterrupted \/ Recovered \/ StartsSettled \/ FinishesSettled
               \/ Crash \/ Exit \/ UNCHANGED vars
        PROVE  UNCHANGED refused
    BY <1>9 DEF Fork, Boot, Close, ListInterrupted, Recovered, StartsSettled, FinishesSettled,
                Crash, Exit, vars
  <1> QED
    BY <1>1, <1>3, <1>4, <1>5, <1>6, <1>7, <1>8, <1>9
    DEF Next, StartStep, RecoverStep, CloseStep, CleanupStep, Rest

\* Without a crash no step makes a runtime that no row names.
LEMMA AccountedStep ==
  LifecycleInv /\ RuntimeInv /\ MachinesTracked /\ RefusedContainers /\ RuntimeGone /\ Accounted
    /\ [Next]_vars /\ [~Crash]_vars => Accounted'
PROOF
  <1> SUFFICES ASSUME LifecycleInv, RuntimeInv, MachinesTracked, RefusedContainers, RuntimeGone,
                      Accounted, [Next]_vars, [~Crash]_vars
               PROVE  Accounted'
    OBVIOUS
  <1>0. TypeOK /\ StartOwned /\ FinishOwned /\ PhaseOwned /\ InstancesOwned /\ CloseLeavesNothing
    BY DEF LifecycleInv, RuntimeInv
  <1> USE DEF TypeOK, dbVars, worldVars, callVars, daemonVars
  <1>1. ASSUME UNCHANGED <<runtimes, refused>>,
               \A u \in Turns : AccountedFor(u) => AccountedFor(u)'
        PROVE  Accounted'
    BY <1>0, <1>1 DEF Accounted
  <1>2. ASSUME NEW t \in Turns, NEW failed, Destroy({t}, failed),
               t \in failed \cap Rejecting /\ t \in runtimes' => AccountedFor(t)',
               \A u \in Turns : u # t /\ AccountedFor(u) => AccountedFor(u)'
        PROVE  Accounted'
    <2>1. /\ t \in runtimes' => t \in refused' \/ t \in failed \cap Rejecting
          /\ \A u \in Turns : u # t => (u \in runtimes' <=> u \in runtimes) /\ (u \in refused' <=> u \in refused)
          /\ runtimes' \subseteq runtimes
      BY <1>2, DestroyedOne
    <2> QED BY <1>0, <1>2, <2>1 DEF Accounted
  \* a runtime that destroy() rejected for is still one whose handle is recorded
  <1>3. ASSUME NEW t \in Turns, Destroy({t}, {t}), t \in Rejecting, t \in runtimes',
               startPc[t] # "created", inst'[t] = "LOST", handle' = handle
        PROVE  AccountedFor(t)'
    <2>1. t \in runtimes /\ t \notin refused
      BY <1>3, DestroyedOne DEF RefusedContainers, Docker
    <2>2. t \in handle
      BY <1>3, <2>1 DEF Accounted, AccountedFor
    <2> QED BY <1>3, <2>2 DEF AccountedFor
  <1>4. ASSUME NEW t \in Turns, Start(t) \/ StartStep(t) PROVE Accounted'
    <2>1. CASE CreateFails(t)
      BY <1>0, <1>2, <2>1 DEF CreateFails, AccountedFor
    <2>2. CASE RuntimeCreated(t)
      BY <1>0, <2>2 DEF RuntimeCreated, Accounted, AccountedFor
    <2>3. CASE RecordHandle(t)
      BY <1>0, <1>1, <2>3 DEF RecordHandle, AccountedFor, LiveInstance
    <2>4. CASE Start(t)
      <3>1. startPc[t] = "idle"
        BY <1>0, <2>4 DEF Start, StartOwned
      <3> QED BY <1>0, <1>1, <2>4, <3>1 DEF Start, AccountedFor
    <2>5. CASE Provision(t)
      BY <1>0, <1>1, <2>5 DEF Provision, AccountedFor, LiveInstance
    <2>6. CASE StartRefused(t) \/ OpenTurn(t)
      BY <1>0, <1>1, <2>6 DEF StartRefused, OpenTurn, AccountedFor
    <2> QED BY <1>4, <2>1, <2>2, <2>3, <2>4, <2>5, <2>6 DEF StartStep
  <1>5. ASSUME NEW t \in Turns, CallStep(t) PROVE Accounted'
    BY <1>0, <1>1, <1>5 DEF CallStep, Acquire, Release, ToolExec, ShellEnded, Abandon, ReapExpired,
                            ToolWrite, ShellWrite, HandleOf, AccountedFor, LiveInstance
  <1>6. ASSUME NEW t \in Turns, Finish(t) \/ FinishStep(t) PROVE Accounted'
    <2>1. CASE Finish(t) \/ LeasesDrained(t) \/ SessionsClosed(t) \/ SessionsStuck(t)
      BY <1>0, <1>1, <2>1 DEF Finish, LeasesDrained, SessionsClosed, SessionsStuck, AccountedFor,
                              LiveInstance
    <2>2. CASE BeginCommit(t) \/ SnapshotTaken(t) \/ SnapshotFails(t)
      BY <1>0, <1>1, <2>2 DEF BeginCommit, SnapshotTaken, SnapshotFails, CommitFails, AccountedFor,
                              LiveInstance
    <2>3. CASE Publish(t)
      BY <1>0, <1>1, <2>3 DEF Publish, CommitFails, AccountedFor, LiveInstance
    <2>4. CASE BeginDelete(t)
      BY <1>0, <1>1, <2>4 DEF BeginDelete, AccountedFor, LiveInstance
    <2>5. CASE RuntimeDestroyed(t)
      BY <1>0, <1>2, <2>5 DEF RuntimeDestroyed, AccountedFor
    <2>6. CASE DeleteDone(t)
      BY <1>0, <2>6 DEF DeleteDone, RuntimeGone, Accounted, AccountedFor
    <2>7. CASE DeleteFails(t)
      <3>1. startPc[t] = "idle"
        BY <1>0, <2>7 DEF DeleteFails, DeleteRejects, StartOwned, FinishOwned, Deleting
      <3>2. /\ inst'[t] = "LOST" /\ handle' = handle /\ startPc' = startPc
            /\ \A u \in Turns : u # t => inst'[u] = inst[u]
        BY <1>0, <2>7 DEF DeleteFails
      <3>3. CASE Destroy({t}, {t})
        BY <1>2, <1>3, <3>1, <3>2, <3>3 DEF AccountedFor
      <3>4. CASE finishPc[t] = "record" /\ UNCHANGED <<worldVars, tracked, shell>>
        BY <1>0, <3>2, <3>4 DEF RuntimeGone, Accounted, AccountedFor
      <3> QED BY <2>7, <3>3, <3>4 DEF DeleteFails, DeleteRejects
    <2> QED BY <1>6, <2>1, <2>2, <2>3, <2>4, <2>5, <2>6, <2>7 DEF FinishStep
  <1>7. ASSUME NEW src \in Threads, NEW dst \in Threads, Fork(src, dst) PROVE Accounted'
    BY <1>1, <1>7 DEF Fork, AccountedFor
  <1>8. ~Crash \/ UNCHANGED vars
    OBVIOUS
  <1>9. ASSUME Boot \/ Close \/ ListInterrupted \/ Recovered \/ StartsSettled \/ FinishesSettled
        PROVE  Accounted'
    BY <1>1, <1>9 DEF Boot, Close, ListInterrupted, Recovered, StartsSettled, FinishesSettled,
                      AccountedFor
  <1>10. ASSUME Exit PROVE Accounted'
    <2>1. \A t \in Turns : startPc[t] = "idle"
      BY <1>0, <1>10 DEF Exit, PhaseOwned
    <2> QED BY <1>0, <1>1, <1>10, <2>1 DEF Exit, ForgetMemory, AccountedFor
  <1>11. ASSUME NEW t \in Turns, Interrupt(t) \/ InterruptFails(t) \/ CleanupFinished(t) \/ CleanupFails(t)
         PROVE  Accounted'
    <2>1. /\ startPc[t] = "idle" /\ startPc' = startPc
          /\ \A u \in Turns : u # t => /\ inst'[u] = inst[u]
                                       /\ u \in handle' <=> u \in handle
      BY <1>0, <1>11 DEF Interrupt, InterruptFails, CleanupFinished, CleanupFails, PhaseOwned
    <2>2. \A u \in Turns : u # t /\ AccountedFor(u) => AccountedFor(u)'
      BY <2>1 DEF AccountedFor
    <2>3. CASE Destroy({t}, {})
      BY <1>2, <2>2, <2>3
    <2>4. CASE Destroy({t}, {t}) /\ inst'[t] = "LOST" /\ handle' = handle
      BY <1>2, <1>3, <2>1, <2>2, <2>4
    <2>5. CASE t \notin handle /\ UNCHANGED <<worldVars, tracked, shell>>
      BY <2>1, <2>2, <2>5, <1>0 DEF Accounted, AccountedFor
    <2> QED
      BY <1>0, <1>11, <2>3, <2>4, <2>5 DEF Interrupt, InterruptFails, CleanupFinished, CleanupFails
  <1>12. ASSUME NEW t \in Turns, CloseFinish(t) PROVE Accounted'
    BY <1>1, <1>12 DEF CloseFinish, AccountedFor
  <1>13. ASSUME CloseSweep PROVE Accounted'
    <2> DEFINE held == {t \in {u \in Turns : state[u] \in {"STARTING", "FINISHING"}} \cap bound :
                          inst[t] # "TERMINATED"}
    <2>1. PICK failed \in SUBSET (held \cap handle), kept \in SUBSET held :
            /\ Destroy(held \cap handle, failed)
            /\ handle' = handle \ (held \ (failed \cup kept))
            /\ inst' = [t \in Turns |-> IF t \in failed \cup kept THEN "LOST"
                                        ELSE IF t \in held THEN "TERMINATED" ELSE inst[t]]
      BY <1>13 DEF CloseSweep
    <2>2. held \cap handle \subseteq Turns
      OBVIOUS
    <2>3. /\ \A t \in Turns : startPc[t] = "idle"
          /\ startPc' = startPc
      BY <1>0, <1>13 DEF CloseSweep, PhaseOwned
    <2> HIDE DEF held
    <2>4. /\ \A u \in runtimes' \cap (held \cap handle) : u \in refused' \/ u \in failed \cap Rejecting
          /\ \A u \in Turns \ (held \cap handle) : (u \in runtimes' <=> u \in runtimes) /\ (u \in refused' <=> u \in refused)
          /\ runtimes' \subseteq runtimes
      BY <2>1, <2>2, DestroyRemoves
    <2>5. ASSUME NEW u \in runtimes', u \notin refused' PROVE AccountedFor(u)'
      <3>1. u \in Turns
        BY <1>0, <2>4, <2>5
      <3>2. CASE u \in held \cap handle
        BY <2>1, <2>4, <2>5, <3>1, <3>2 DEF AccountedFor
      <3>3. CASE u \notin held \cap handle
        <4>1. u \in handle /\ AccountedFor(u)
          BY <2>3, <2>4, <2>5, <3>1, <3>3 DEF Accounted, AccountedFor
        <4>2. u \notin held
          BY <3>3, <4>1
        <4> QED BY <2>1, <2>3, <3>1, <4>1, <4>2 DEF AccountedFor
      <3> QED BY <3>2, <3>3
    <2> QED BY <2>5 DEF Accounted
  <1>14. ASSUME CloseService PROVE Accounted'
    <2>1. {t \in Turns : inst[t] \in LiveInstance} = {}
      BY <1>0, <1>14 DEF CloseService, CloseLeavesNothing
    <2>2. PICK failed \in SUBSET ({} \cap handle) : Destroy({} \cap handle, failed)
      BY <1>14, <2>1 DEF CloseService
    <2>3. Destroy({}, failed)
      BY <2>2
    <2>4. \A u \in Turns : (u \in runtimes' <=> u \in runtimes) /\ (u \in refused' <=> u \in refused)
      BY <2>3, DestroyRemoves
    <2>5. runtimes' \subseteq runtimes
      BY <2>3, DestroyRemoves
    <2>6. \A u \in Turns : AccountedFor(u) => AccountedFor(u)'
      BY <1>0, <1>14, <2>1 DEF CloseService, AccountedFor
    <2> QED BY <1>0, <2>4, <2>5, <2>6 DEF Accounted
  <1>15. ASSUME UNCHANGED vars PROVE Accounted'
    BY <1>1, <1>15 DEF vars, AccountedFor
  <1> QED
    BY <1>4, <1>5, <1>6, <1>7, <1>8, <1>9, <1>10, <1>11, <1>12, <1>13, <1>14, <1>15
    DEF Next, RecoverStep, CloseStep, CleanupStep, Rest

\* A process that ends in order leaves no machine: every live instance is written off by
\* then, and only a container or a runtime that rejected is left.
LEMMA ExitForgetsNoMachine ==
  LifecycleInv /\ RuntimeInv /\ RefusedContainers /\ Accounted /\ [Next]_vars /\ [~Crash]_vars
    => [ForgetsNoMachine]_vars
PROOF
  <1> SUFFICES ASSUME LifecycleInv, RuntimeInv, RefusedContainers, Accounted, Exit,
                      NEW t \in Firecracker \cap runtimes
               PROVE  FALSE
    BY DEF ForgetsNoMachine
  <1>1. t \in Turns /\ t \notin refused /\ t \notin Rejecting
    BY ConstantsAssumption DEF RefusedContainers, Docker
  <1>2. startPc[t] = "idle" /\ inst[t] \notin LiveInstance
    BY <1>1 DEF Exit, LifecycleInv, PhaseOwned, RuntimeInv, CloseLeavesNothing
  <1> QED BY <1>1, <1>2 DEF Accounted, AccountedFor

\* If the daemon does not crash, every runtime is still going to be destroyed, through
\* failing creations, snapshots, destructions and removals and any shutdowns and restarts:
\* its handle is recorded with a live instance, or create() has yet to return.  Left out
\* are a runtime that destroy() rejected for and left, and a container whose DELETE Docker
\* refused (turn-service.ts:446, sandbox-service.ts:219-245, docker.ts:521).
THEOREM RuntimesStayAccounted == Spec /\ [][~Crash]_vars => []RuntimesAccounted
PROOF
  <1>1. Init => MachinesTracked /\ RefusedContainers /\ RuntimeGone /\ Accounted
    BY DEF Init, MachinesTracked, RefusedContainers, RuntimeGone, Accounted
  <1>2. LifecycleInv /\ RuntimeInv /\ MachinesTracked /\ RefusedContainers /\ RuntimeGone /\ Accounted
          /\ [Next]_vars /\ [~Crash]_vars
          => MachinesTracked' /\ RefusedContainers' /\ RuntimeGone' /\ Accounted'
    BY TrackedStep, RefusedStep, GoneStep, AccountedStep, ExitForgetsNoMachine
  <1>3. Accounted => RuntimesAccounted
    BY DEF Accounted, AccountedFor, RuntimesAccounted
  <1> QED BY <1>1, <1>2, <1>3, LifecycleInvariant, RuntimeInvariant, PTL DEF Spec
=============================================================================

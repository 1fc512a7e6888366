------------------------ MODULE TurnLifecycleProofs ------------------------
(***************************************************************************)
(* Theorems about TurnLifecycle, for every value of its constants.         *)
(*                                                                         *)
(* The argument rests on LifecycleInv.  That the compare-and-swap of       *)
(* publishTurnCommit never fails (HeadStable) is not inductive by itself:  *)
(* it needs that a thread has one active turn (OneActive), and OneActive   *)
(* needs to know which continuation may still write the state of a turn    *)
(* (StartOwned, FinishOwned) and that recovery and shutdown write it only  *)
(* when no continuation is left (PhaseOwned).                              *)
(***************************************************************************)
EXTENDS TurnLifecycle, FiniteSetTheorems, TLAPS

----------------------------------------------------------------------------
(* The two outcomes of the actions that branch                             *)

\* start() creates or reads the workspace of a durable turn, and only of one.
LEMMA StartEffect ==
  ASSUME NEW t \in Turns, Start(t)
  PROVE  /\ t \in Durable => /\ workspaces' = workspaces \cup {ThreadOf[t]}
                            /\ base' = [base EXCEPT ![t] = refs[ThreadOf[t]]]
         /\ t \notin Durable => workspaces' = workspaces /\ base' = base
PROOF
  BY DEF Start

\* The bindings commitTurnRuntime insists on.
CommitBound(t) ==
  t \in handle /\ base[t] = expected[t] /\ inst[t] = "READY" /\ ThreadOf[t] \in workspaces

\* commitTurnRuntime begins the operation, or the turn fails and no row changes.
LEMMA BeginCommitEffect ==
  ASSUME NEW t \in Turns, BeginCommit(t)
  PROVE  /\ CommitBound(t) => /\ operation' = [operation EXCEPT ![t] = "RUNNING"]
                             /\ inst' = [inst EXCEPT ![t] = "COMMITTING"]
                             /\ finishPc' = [finishPc EXCEPT ![t] = "snapshot"]
                             /\ aborting' = aborting
         /\ ~CommitBound(t) => FailTurn(t) /\ operation' = operation /\ inst' = inst
PROOF
  BY DEF BeginCommit, CommitBound

\* What the transaction of publishTurnCommit matches rows against.
Swaps(t) ==
  /\ ThreadOf[t] \in workspaces
  /\ refs[ThreadOf[t]] = expected[t]
  /\ state[t] = "FINISHING"
  /\ t \in bound

\* The transaction moves the ref and finishes the turn, or it does neither.
LEMMA PublishEffect ==
  ASSUME NEW t \in Turns, Publish(t)
  PROVE  /\ Swaps(t) =>
              /\ refs' = [refs EXCEPT ![ThreadOf[t]] = Append(expected[t], snap[t])]
              /\ state' = [state EXCEPT ![t] = "FINISHED"]
              /\ inst' = [inst EXCEPT ![t] = "READY"]
              /\ operation' = [operation EXCEPT ![t] = "SUCCEEDED"]
              /\ finishPc' = [finishPc EXCEPT ![t] = "delete"]
              /\ aborting' = aborting
         /\ ~Swaps(t) => CommitFails(t)
         /\ snap' = [snap EXCEPT ![t] = EmptyTree]
         /\ UNCHANGED <<bound, expected, base, handle, workspaces, worldVars,
                        tracked, leases, shell, startPc, daemonVars>>
PROOF
  BY DEF Publish, Swaps

\* closeAll() finishes a turn that is still OPEN and passes over the others.
LEMMA CloseFinishEffect ==
  ASSUME NEW t \in Turns, CloseFinish(t)
  PROVE  /\ state[t] = "OPEN" => FinishRow(t) /\ waiting' = {t}
         /\ state[t] # "OPEN" => waiting' = {} /\ state' = state /\ finishPc' = finishPc
PROOF
  BY DEF CloseFinish

----------------------------------------------------------------------------
(* Type correctness                                                        *)

\* start() writes well-typed rows.
LEMMA StartType ==
  ASSUME TypeOK, NEW t \in Turns, Start(t)
  PROVE  TypeOK'
PROOF
  <1>1. CASE t \in Durable
    <2>1. workspaces' = workspaces \cup {ThreadOf[t]} /\ base' = [base EXCEPT ![t] = refs[ThreadOf[t]]]
      BY <1>1, StartEffect
    <2>2. ThreadOf[t] \in Threads /\ refs[ThreadOf[t]] \in Seq(Trees)
      BY ConstantsAssumption DEF TypeOK
    <2> QED
      BY <2>1, <2>2 DEF TypeOK, Start, TurnStates, StartPcs, worldVars, callVars, daemonVars
  <1>2. CASE t \notin Durable
    <2>1. workspaces' = workspaces /\ base' = base
      BY <1>2, StartEffect
    <2> QED
      BY <2>1 DEF TypeOK, Start, TurnStates, StartPcs, worldVars, daemonVars
  <1> QED BY <1>1, <1>2

\* commitTurnRuntime writes well-typed rows, whether or not its bindings hold.
LEMMA BeginCommitType ==
  ASSUME TypeOK, NEW t \in Turns, BeginCommit(t)
  PROVE  TypeOK'
PROOF
  <1>1. CASE CommitBound(t)
    <2>1. /\ operation' = [operation EXCEPT ![t] = "RUNNING"]
          /\ inst' = [inst EXCEPT ![t] = "COMMITTING"]
          /\ finishPc' = [finishPc EXCEPT ![t] = "snapshot"]
          /\ aborting' = aborting
      BY <1>1, BeginCommitEffect
    <2> QED
      BY <2>1 DEF BeginCommit, TypeOK, InstanceStates, FinishPcs, worldVars, daemonVars
  <1>2. CASE ~CommitBound(t)
    <2>1. FailTurn(t) /\ operation' = operation /\ inst' = inst
      BY <1>2, BeginCommitEffect
    <2> QED
      BY <2>1 DEF BeginCommit, FailTurn, TypeOK, FinishPcs, worldVars, daemonVars
  <1> QED BY <1>1, <1>2

\* publishTurnCommit appends a tree to a history, or changes no history.
LEMMA PublishType ==
  ASSUME TypeOK, NEW t \in Turns, Publish(t)
  PROVE  TypeOK'
PROOF
  <1>1. CASE Swaps(t)
    <2>1. Append(expected[t], snap[t]) \in Seq(Trees)
      BY DEF TypeOK
    <2>2. refs' = [refs EXCEPT ![ThreadOf[t]] = Append(expected[t], snap[t])]
      BY <1>1, PublishEffect
    <2>3. refs' \in [Threads -> Seq(Trees)]
      BY <2>1, <2>2 DEF TypeOK
    <2>4. /\ state' = [state EXCEPT ![t] = "FINISHED"]
          /\ inst' = [inst EXCEPT ![t] = "READY"]
          /\ operation' = [operation EXCEPT ![t] = "SUCCEEDED"]
          /\ finishPc' = [finishPc EXCEPT ![t] = "delete"]
          /\ aborting' = aborting
      BY <1>1, PublishEffect
    <2> QED
      BY <2>3, <2>4, ConstantsAssumption
      DEF Publish, TypeOK, TurnStates, InstanceStates, FinishPcs, worldVars, daemonVars
  <1>2. CASE ~Swaps(t)
    <2>1. CommitFails(t)
      BY <1>2, PublishEffect
    <2>2. /\ snap' = [snap EXCEPT ![t] = EmptyTree]
          /\ UNCHANGED <<bound, expected, base, handle, workspaces, worldVars,
                         tracked, leases, shell, startPc, daemonVars>>
      BY PublishEffect
    <2>3. snap' \in [Turns -> Trees]
      BY <2>2, ConstantsAssumption DEF TypeOK
    <2> QED
      BY <2>1, <2>2, <2>3
      DEF CommitFails, FailTurn, TypeOK, InstanceStates, FinishPcs, worldVars, daemonVars
  <1> QED BY <1>1, <1>2

\* closeAll() changes the rows of a turn as finish() does.
LEMMA CloseFinishType ==
  ASSUME TypeOK, NEW t \in Turns, CloseFinish(t)
  PROVE  TypeOK'
PROOF
  <1>1. CASE state[t] = "OPEN"
    <2>1. FinishRow(t) /\ waiting' = {t}
      BY <1>1, CloseFinishEffect
    <2> QED
      BY <2>1 DEF CloseFinish, FinishRow, TypeOK, TurnStates, FinishPcs, worldVars
  <1>2. CASE state[t] # "OPEN"
    <2>1. waiting' = {} /\ state' = state /\ finishPc' = finishPc
      BY <1>2, CloseFinishEffect
    <2> QED
      BY <2>1 DEF CloseFinish, TypeOK, worldVars
  <1> QED BY <1>1, <1>2

\* A commit has a tree.
LEMMA TreeOfType ==
  ASSUME NEW c \in Seq(Trees)
  PROVE  TreeOf(c) \in Trees
PROOF
  <1>1. CASE c = <<>>
    BY <1>1, ConstantsAssumption DEF TreeOf
  <1>2. CASE c # <<>>
    <2>1. Len(c) \in 1 .. Len(c)
      BY <1>2
    <2>2. c[Len(c)] \in Trees
      BY <2>1
    <2> QED BY <1>2, <2>2 DEF TreeOf
  <1> QED BY <1>1, <1>2

\* create() restores the tree of the base commit.
LEMMA RuntimeCreatedType ==
  ASSUME TypeOK, NEW t \in Turns, RuntimeCreated(t)
  PROVE  TypeOK'
PROOF
  <1>1. TreeOf(base[t]) \in Trees
    BY TreeOfType DEF TypeOK
  <1>2. content' \in [Turns -> Trees]
    BY <1>1 DEF TypeOK, RuntimeCreated
  <1> QED
    BY <1>2 DEF TypeOK, RuntimeCreated, StartPcs, dbVars, daemonVars

\* What destroy() changes: it takes no runtime but the ones it is asked for and
\* brings none back.
LEMMA DestroyEffect ==
  ASSUME TypeOK, NEW S, NEW failed, S \subseteq Turns, Destroy(S, failed)
  PROVE  /\ runtimes' \subseteq runtimes
         /\ \A u \in runtimes \ S : u \in runtimes'
         /\ refused' \in SUBSET Turns
         /\ tracked' = tracked \ S
         /\ content' \in [Turns -> Trees]
         /\ shell' \in [Turns -> {"none", "active", "stray"}]
         /\ \A u \in Turns : shell'[u] \in {shell[u], "none"}
         /\ \A u \in Turns \ S : shell'[u] = shell[u] /\ content'[u] = content[u]
         /\ failed # {} => "destroy" \in Faults
PROOF
  <1> DEFINE Gone(kept) == S \ (kept \cup (failed \cap Rejecting) \cup (Firecracker \ tracked))
  <1>1. PICK kept \in SUBSET ((S \ failed) \cap runtimes \cap Docker) :
          /\ failed # {} => "destroy" \in Faults
          /\ runtimes' = runtimes \ Gone(kept)
          /\ refused' = (refused \ S) \cup kept
          /\ tracked' = tracked \ S
          /\ content' = [t \in Turns |-> IF t \in Gone(kept) THEN EmptyTree ELSE content[t]]
          /\ shell' = [t \in Turns |-> IF t \in Gone(kept) THEN "none" ELSE shell[t]]
    BY DEF Destroy
  <1>2. Gone(kept) \subseteq S
    OBVIOUS
  <1> HIDE DEF Gone
  <1> QED
    BY <1>1, <1>2, ConstantsAssumption DEF TypeOK

\* The steps of start() write well-typed rows.
LEMMA StartKeepsType ==
  ASSUME TypeOK, NEW t \in Turns
  PROVE  Start(t) \/ StartStep(t) => TypeOK'
PROOF
  <1> USE ConstantsAssumption
      DEF TypeOK, TurnStates, InstanceStates, StartPcs, dbVars, worldVars, callVars, daemonVars
  <1>1. Start(t) => TypeOK'
    BY StartType
  <1>2. ASSUME Provision(t) PROVE TypeOK'
    BY <1>2 DEF Provision
  <1>3. ASSUME StartRefused(t) PROVE TypeOK'
    BY <1>3 DEF StartRefused
  <1>4. RuntimeCreated(t) => TypeOK'
    BY RuntimeCreatedType
  <1>5. ASSUME CreateFails(t) PROVE TypeOK'
    <2>1. Destroy({t}, {})
      BY <1>5 DEF CreateFails
    <2> QED
      BY <1>5, <2>1, DestroyEffect DEF CreateFails
  <1>6. ASSUME RecordHandle(t) PROVE TypeOK'
    BY <1>6 DEF RecordHandle
  <1>7. ASSUME OpenTurn(t) PROVE TypeOK'
    BY <1>7 DEF OpenTurn
  <1> QED
    BY <1>1, <1>2, <1>3, <1>4, <1>5, <1>6, <1>7 DEF StartStep

\* Tool calls and shells only touch leases, shells, contents and READY/RUNNING.
LEMMA CallKeepsType ==
  ASSUME TypeOK, NEW t \in Turns
  PROVE  CallStep(t) => TypeOK'
PROOF
  <1> USE DEF TypeOK, InstanceStates, dbVars, worldVars, callVars, daemonVars
  <1>1. ASSUME Acquire(t) PROVE TypeOK'
    BY <1>1 DEF Acquire
  <1>2. ASSUME Release(t) PROVE TypeOK'
    BY <1>2 DEF Release
  <1>3. ASSUME ToolExec(t) PROVE TypeOK'
    BY <1>3 DEF ToolExec
  <1>4. ASSUME ShellEnded(t) PROVE TypeOK'
    BY <1>4 DEF ShellEnded
  <1>5. ASSUME Abandon(t) PROVE TypeOK'
    BY <1>5 DEF Abandon
  <1>6. ASSUME ReapExpired(t) PROVE TypeOK'
    BY <1>6 DEF ReapExpired
  <1>7. ASSUME NEW tree \in Trees, ToolWrite(t, tree) \/ ShellWrite(t, tree) PROVE TypeOK'
    <2>1. /\ content' = [content EXCEPT ![t] = tree]
          /\ UNCHANGED <<dbVars, runtimes, refused, tracked, callVars, daemonVars>>
      BY <1>7 DEF ToolWrite, ShellWrite
    <2>2. content' \in [Turns -> Trees]
      BY <2>1
    <2> QED BY <2>1, <2>2
  <1> QED
    BY <1>1, <1>2, <1>3, <1>4, <1>5, <1>6, <1>7 DEF CallStep

\* The steps of finish() write well-typed rows and histories.
LEMMA FinishKeepsType ==
  ASSUME TypeOK, NEW t \in Turns
  PROVE  Finish(t) \/ FinishStep(t) => TypeOK'
PROOF
  <1> USE ConstantsAssumption
      DEF TypeOK, TurnStates, InstanceStates, FinishPcs, dbVars, worldVars, callVars, daemonVars
  <1>1. ASSUME Finish(t) PROVE TypeOK'
    BY <1>1 DEF Finish, FinishRow
  <1>2. ASSUME LeasesDrained(t) PROVE TypeOK'
    BY <1>2 DEF LeasesDrained
  <1>3. ASSUME SessionsClosed(t) PROVE TypeOK'
    BY <1>3 DEF SessionsClosed
  <1>4. ASSUME SessionsStuck(t) PROVE TypeOK'
    BY <1>4 DEF SessionsStuck, FailTurn
  <1>5. BeginCommit(t) => TypeOK'
    BY BeginCommitType
  <1>6. ASSUME SnapshotTaken(t) PROVE TypeOK'
    BY <1>6 DEF SnapshotTaken
  <1>7. ASSUME SnapshotFails(t) PROVE TypeOK'
    BY <1>7 DEF SnapshotFails, CommitFails, FailTurn
  <1>8. Publish(t) => TypeOK'
    BY PublishType
  <1>9. ASSUME BeginDelete(t) PROVE TypeOK'
    BY <1>9 DEF BeginDelete
  <1>10. ASSUME RuntimeDestroyed(t) PROVE TypeOK'
    <2>1. Destroy({t}, {})
      BY <1>10 DEF RuntimeDestroyed
    <2> QED
      BY <1>10, <2>1, DestroyEffect DEF RuntimeDestroyed
  <1>11. ASSUME DeleteDone(t) PROVE TypeOK'
    BY <1>11 DEF DeleteDone
  <1>12. ASSUME DeleteFails(t) PROVE TypeOK'
    <2>1. CASE Destroy({t}, {t})
      BY <1>12, <2>1, DestroyEffect DEF DeleteFails
    <2>2. CASE UNCHANGED <<worldVars, tracked, shell>>
      BY <1>12, <2>2 DEF DeleteFails
    <2> QED
      BY <1>12, <2>1, <2>2 DEF DeleteFails, DeleteRejects
  <1> QED
    BY <1>1, <1>2, <1>3, <1>4, <1>5, <1>6, <1>7, <1>8, <1>9, <1>10, <1>11, <1>12
    DEF FinishStep

\* A fork copies a prefix of a history.
LEMMA ForkKeepsType ==
  ASSUME TypeOK, NEW src \in Threads, NEW dst \in Threads, Fork(src, dst)
  PROVE  TypeOK'
PROOF
  <1>1. PICK n \in 0 .. Len(refs[src]) :
          refs' = [refs EXCEPT ![dst] = SubSeq(refs[src], 1, n)]
    BY DEF Fork
  <1>2. SubSeq(refs[src], 1, n) \in Seq(Trees)
    BY <1>1 DEF TypeOK
  <1> QED
    BY <1>1, <1>2 DEF Fork, TypeOK, worldVars, callVars, daemonVars

\* Crash, recovery and shutdown write well-typed rows.
LEMMA DaemonKeepsType ==
  ASSUME TypeOK
  PROVE  Crash \/ Boot \/ Close \/ RecoverStep \/ CloseStep \/ CleanupStep => TypeOK'
PROOF
  <1> USE ConstantsAssumption
      DEF TypeOK, TurnStates, InstanceStates, StartPcs, FinishPcs, Phases, Active, LiveInstance,
          dbVars, worldVars, callVars, daemonVars
  <1>1. ASSUME Crash PROVE TypeOK'
    BY <1>1 DEF Crash, ForgetMemory
  <1>2. ASSUME Boot PROVE TypeOK'
    BY <1>2 DEF Boot, CleanupTargets
  <1>3. ASSUME Close PROVE TypeOK'
    BY <1>3 DEF Close
  <1>4. ASSUME ListInterrupted PROVE TypeOK'
    BY <1>4 DEF ListInterrupted
  <1>5. ASSUME NEW t \in Turns, Interrupt(t) PROVE TypeOK'
    <2>1. CASE Destroy({t}, {})
      BY <1>5, <2>1, DestroyEffect DEF Interrupt
    <2>2. CASE UNCHANGED <<worldVars, tracked, shell>>
      BY <1>5, <2>2 DEF Interrupt
    <2> QED
      BY <1>5, <2>1, <2>2 DEF Interrupt
  <1>6. ASSUME NEW t \in Turns, InterruptFails(t) PROVE TypeOK'
    <2>1. Destroy({t}, {t})
      BY <1>6 DEF InterruptFails
    <2> QED
      BY <1>6, <2>1, DestroyEffect DEF InterruptFails
  <1>7. ASSUME Recovered PROVE TypeOK'
    BY <1>7 DEF Recovered
  <1>8. ASSUME StartsSettled PROVE TypeOK'
    BY <1>8 DEF StartsSettled
  <1>9. ASSUME NEW t \in Turns PROVE CloseFinish(t) => TypeOK'
    BY CloseFinishType
  <1>10. ASSUME FinishesSettled PROVE TypeOK'
    BY <1>10 DEF FinishesSettled
  <1>11. ASSUME CloseSweep PROVE TypeOK'
    <2>1. PICK S \in SUBSET Turns, failed \in SUBSET Turns : Destroy(S, failed)
      BY <1>11 DEF CloseSweep
    <2> QED
      BY <1>11, <2>1, DestroyEffect DEF CloseSweep
  <1>12. ASSUME CloseService PROVE TypeOK'
    <2>1. PICK S \in SUBSET Turns, failed \in SUBSET Turns : Destroy(S, failed)
      BY <1>12 DEF CloseService
    <2> QED
      BY <1>12, <2>1, DestroyEffect DEF CloseService, CleanupTargets
  <1>13. ASSUME Exit PROVE TypeOK'
    BY <1>13 DEF Exit, ForgetMemory
  <1>14. ASSUME NEW t \in Turns, CleanupFinished(t) PROVE TypeOK'
    <2>1. Destroy({t}, {})
      BY <1>14 DEF CleanupFinished
    <2> QED
      BY <1>14, <2>1, DestroyEffect DEF CleanupFinished
  <1>15. ASSUME NEW t \in Turns, CleanupFails(t) PROVE TypeOK'
    <2>1. Destroy({t}, {t})
      BY <1>15 DEF CleanupFails
    <2> QED
      BY <1>15, <2>1, DestroyEffect DEF CleanupFails
  <1> QED
    BY <1>1, <1>2, <1>3, <1>4, <1>5, <1>6, <1>7, <1>8, <1>9, <1>10, <1>11, <1>12, <1>13,
       <1>14, <1>15
    DEF RecoverStep, CloseStep, CleanupStep

\* The initial state is well typed.
LEMMA InitType == Init => TypeOK
PROOF
  BY ConstantsAssumption
  DEF Init, TypeOK, TurnStates, InstanceStates, StartPcs, FinishPcs, Phases

\* Every step keeps the types.
LEMMA TypeStep == TypeOK /\ [Next]_vars => TypeOK'
PROOF
  <1> SUFFICES ASSUME TypeOK, [Next]_vars PROVE TypeOK'
    OBVIOUS
  <1>1. ASSUME NEW t \in Turns
        PROVE  Start(t) \/ StartStep(t) \/ CallStep(t) \/ Finish(t) \/ FinishStep(t) => TypeOK'
    BY StartKeepsType, CallKeepsType, FinishKeepsType
  <1>2. ASSUME NEW src \in Threads, NEW dst \in Threads
        PROVE  Fork(src, dst) => TypeOK'
    BY ForkKeepsType
  <1>3. Crash \/ Boot \/ Close \/ RecoverStep \/ CloseStep \/ CleanupStep => TypeOK'
    BY DaemonKeepsType
  <1>4. UNCHANGED vars => TypeOK'
    BY DEF TypeOK, vars, dbVars, worldVars, callVars, daemonVars
  <1>5. Rest => TypeOK'
    BY <1>4 DEF Rest
  <1> QED
    BY <1>1, <1>2, <1>3, <1>4, <1>5 DEF Next

\* Every row, runtime and continuation of the daemon is always well typed.
THEOREM TypeCorrect == Spec => []TypeOK
PROOF
  <1> QED BY InitType, TypeStep, PTL DEF Spec

----------------------------------------------------------------------------
(* LifecycleInv                                                            *)

\* A step that makes no further turn active leaves one per thread.
LEMMA OneActiveKept ==
  ASSUME OneActive, \A u \in Turns : state'[u] \in Active => state[u] \in Active
  PROVE  OneActive'
PROOF
  BY DEF OneActive

\* Rows, runtimes and memory that LifecycleInv does not mention are free to change.
LEMMA FrameKeepsInv ==
  ASSUME LifecycleInv, TypeOK',
         UNCHANGED <<state, expected, base, workspaces, refs, startPc, finishPc, aborting, phase>>,
         phase = "finish" => queue' = queue
  PROVE  LifecycleInv'
PROOF
  <1>1. OneActive' /\ StartOwned' /\ FinishOwned' /\ HeadStable'
    BY DEF LifecycleInv, OneActive, StartOwned, FinishOwned, HeadStable
  <1>2. PhaseOwned'
    BY DEF LifecycleInv, PhaseOwned
  <1> QED BY <1>1, <1>2 DEF LifecycleInv

\* A start that fails leaves its thread idle.
LEMMA CreateFailsKeepsInv ==
  ASSUME LifecycleInv, TypeOK', NEW t \in Turns, CreateFails(t)
  PROVE  LifecycleInv'
PROOF
  <1>1. /\ state[t] = "STARTING"
        /\ state' = [state EXCEPT ![t] = "FAILED"]
        /\ startPc' = [startPc EXCEPT ![t] = "idle"]
        /\ UNCHANGED <<expected, base, workspaces, refs, finishPc, aborting, phase, queue>>
    BY DEF CreateFails, LifecycleInv, StartOwned, daemonVars
  <1> USE DEF LifecycleInv, TypeOK
  <1>2. OneActive'
    BY <1>1, OneActiveKept DEF Active
  <1>3. StartOwned'
    BY <1>1 DEF StartOwned
  <1>4. FinishOwned'
    BY <1>1 DEF FinishOwned
  <1>5. PhaseOwned'
    BY <1>1 DEF PhaseOwned
  <1>6. HeadStable'
    BY <1>1 DEF HeadStable
  <1> QED BY <1>2, <1>3, <1>4, <1>5, <1>6

\* finish() takes an OPEN turn, for the harness or for closeAll().
LEMMA FinishRowKeepsInv ==
  ASSUME LifecycleInv, TypeOK', NEW t \in Turns, FinishRow(t), Alive, state[t] = "OPEN",
         UNCHANGED <<expected, base, workspaces, refs, startPc, aborting, phase>>,
         queue \ {t} \subseteq queue'
  PROVE  LifecycleInv'
PROOF
  <1> USE DEF LifecycleInv, TypeOK, FinishRow
  <1>1. OneActive'
    BY OneActiveKept DEF Active
  <1>2. StartOwned'
    BY DEF StartOwned
  <1>3. FinishOwned'
    <2>1. t \notin aborting
      BY DEF FinishOwned, Deleting
    <2>2. \A u \in Turns : u # t => finishPc'[u] = finishPc[u] /\ state'[u] = state[u]
      OBVIOUS
    <2>3. finishPc'[t] = "leases" /\ state'[t] = "FINISHING" /\ aborting' = aborting
      OBVIOUS
    <2>4. t \in Turns /\ aborting \subseteq Turns /\ FinishOwned
      OBVIOUS
    <2> QED BY ONLY <2>1, <2>2, <2>3, <2>4 DEF FinishOwned, Deleting
  <1>4. PhaseOwned'
    BY DEF PhaseOwned, Alive, Phases
  <1>5. HeadStable'
    BY DEF HeadStable
  <1> QED BY <1>1, <1>2, <1>3, <1>4, <1>5

\* A finish that gives up goes on to delete the runtime, in failTurn.
LEMMA FailTurnKeepsInv ==
  ASSUME LifecycleInv, TypeOK', NEW t \in Turns, FailTurn(t),
         finishPc[t] \in {"sessions", "commit", "snapshot", "publish"},
         UNCHANGED <<state, expected, base, workspaces, refs, startPc, phase, queue>>
  PROVE  LifecycleInv'
PROOF
  <1> USE DEF LifecycleInv, TypeOK, FailTurn
  <1>1. OneActive'
    BY DEF OneActive
  <1>2. StartOwned'
    BY DEF StartOwned
  <1>3. FinishOwned'
    <2>1. state[t] = "FINISHING"
      BY DEF FinishOwned, Deleting
    <2> QED BY <2>1 DEF FinishOwned, Deleting
  <1>4. PhaseOwned'
    BY DEF PhaseOwned
  <1>5. HeadStable'
    BY DEF HeadStable
  <1> QED BY <1>1, <1>2, <1>3, <1>4, <1>5

\* commitTurnRuntime goes on to the snapshot or gives up.
LEMMA BeginCommitKeepsInv ==
  ASSUME LifecycleInv, TypeOK', NEW t \in Turns, BeginCommit(t)
  PROVE  LifecycleInv'
PROOF
  <1>1. CASE CommitBound(t)
    <2>1. finishPc' = [finishPc EXCEPT ![t] = "snapshot"] /\ aborting' = aborting
      BY <1>1, BeginCommitEffect
    <2>2. finishPc[t] = "commit"
      BY DEF BeginCommit
    <2>3. FinishOwned'
      BY <2>1, <2>2 DEF BeginCommit, LifecycleInv, TypeOK, FinishOwned, Deleting
    <2>4. OneActive' /\ StartOwned' /\ HeadStable'
      BY DEF BeginCommit, LifecycleInv, OneActive, StartOwned, HeadStable
    <2>5. PhaseOwned'
      BY <2>1, <2>2 DEF BeginCommit, LifecycleInv, TypeOK, PhaseOwned, daemonVars
    <2> QED BY <2>3, <2>4, <2>5 DEF LifecycleInv
  <1>2. CASE ~CommitBound(t)
    <2>1. FailTurn(t)
      BY <1>2, BeginCommitEffect
    <2> QED BY <2>1, FailTurnKeepsInv DEF BeginCommit, daemonVars
  <1> QED BY <1>1, <1>2

\* publishTurnCommit moves a head no other turn of the thread relies on.
LEMMA PublishKeepsInv ==
  ASSUME LifecycleInv, TypeOK', NEW t \in Turns, Publish(t)
  PROVE  LifecycleInv'
PROOF
  <1>1. /\ finishPc[t] = "publish"
        /\ UNCHANGED <<expected, base, workspaces, startPc, phase, queue>>
    BY DEF Publish, daemonVars
  <1>2. CASE Swaps(t)
    <2>1. /\ refs' = [refs EXCEPT ![ThreadOf[t]] = Append(expected[t], snap[t])]
          /\ state' = [state EXCEPT ![t] = "FINISHED"]
          /\ finishPc' = [finishPc EXCEPT ![t] = "delete"]
          /\ aborting' = aborting
      BY <1>2, PublishEffect
    <2>2. t \in Durable /\ t \notin aborting /\ state[t] = "FINISHING"
      BY <1>1 DEF LifecycleInv, FinishOwned, Deleting
    <2>3. OneActive'
      BY <2>1, OneActiveKept DEF LifecycleInv, TypeOK, Active
    <2>4. StartOwned'
      BY <1>1, <2>1, <2>2 DEF LifecycleInv, TypeOK, StartOwned
    <2>5. FinishOwned'
      BY <2>1, <2>2 DEF LifecycleInv, TypeOK, FinishOwned, Deleting
    <2>6. PhaseOwned'
      BY <1>1, <2>1 DEF LifecycleInv, TypeOK, PhaseOwned
    <2>7. HeadStable'
      <3> SUFFICES ASSUME NEW u \in Durable, u \in Turns,
                          \/ startPc'[u] # "idle"
                          \/ state'[u] \in {"OPEN", "FINISHING"}
                   PROVE  refs'[ThreadOf[u]] = refs[ThreadOf[u]]
                          /\ (startPc[u] # "idle" \/ state[u] \in {"OPEN", "FINISHING"})
                          /\ (state'[u] = state[u])
        BY <1>1, <2>4, ConstantsAssumption DEF LifecycleInv, HeadStable, StartOwned
      <3>1. u # t
        BY <1>1, <2>1, <2>2 DEF LifecycleInv, TypeOK, StartOwned
      <3>2. state'[u] = state[u]
        BY <2>1, <3>1 DEF LifecycleInv, TypeOK
      <3>3. state[u] \in Active
        BY <1>1, <3>2 DEF LifecycleInv, StartOwned, Active
      <3>4. ThreadOf[u] # ThreadOf[t]
        BY <2>2, <3>1, <3>3 DEF LifecycleInv, OneActive, Active
      <3> QED BY <1>1, <2>1, <3>2, <3>4, ConstantsAssumption DEF LifecycleInv, TypeOK
    <2> QED BY <2>3, <2>4, <2>5, <2>6, <2>7 DEF LifecycleInv
  <1>3. CASE ~Swaps(t)
    <2>1. FailTurn(t) /\ UNCHANGED <<state, refs>>
      BY <1>3, PublishEffect DEF CommitFails
    <2> QED BY <1>1, <2>1, FailTurnKeepsInv
  <1> QED BY <1>2, <1>3

\* closeAll() finishes what it finds OPEN and loses none of it.
LEMMA CloseFinishKeepsInv ==
  ASSUME LifecycleInv, TypeOK', NEW t \in Turns, CloseFinish(t)
  PROVE  LifecycleInv'
PROOF
  <1>1. /\ phase = "finish" /\ queue' = queue \ {t}
        /\ UNCHANGED <<expected, base, workspaces, refs, startPc, aborting, phase>>
    BY DEF CloseFinish
  <1>2. CASE state[t] = "OPEN"
    BY <1>1, <1>2, CloseFinishEffect, FinishRowKeepsInv DEF Alive
  <1>3. CASE state[t] # "OPEN"
    <2>1. state' = state /\ finishPc' = finishPc
      BY <1>3, CloseFinishEffect
    <2>2. OneActive' /\ StartOwned' /\ HeadStable'
      BY <1>1, <2>1 DEF LifecycleInv, OneActive, StartOwned, HeadStable
    <2>3. FinishOwned'
      BY <1>1, <2>1 DEF LifecycleInv, FinishOwned
    <2>4. PhaseOwned'
      BY <1>1, <1>3, <2>1 DEF LifecycleInv, PhaseOwned
    <2> QED BY <2>2, <2>3, <2>4 DEF LifecycleInv
  <1> QED BY <1>2, <1>3

\* start() claims a thread that has no active turn.
LEMMA StartRowKeepsInv ==
  ASSUME LifecycleInv, TypeOK', NEW t \in Turns, Start(t)
  PROVE  LifecycleInv'
PROOF
  <1>1. /\ state[t] = "NONE" /\ phase = "up" /\ ActiveOn(ThreadOf[t]) = {}
        /\ state' = [state EXCEPT ![t] = "STARTING"] /\ startPc' = [startPc EXCEPT ![t] = "preflight"]
        /\ UNCHANGED <<expected, refs, finishPc, aborting, phase, queue>>
    BY DEF Start, dbVars, worldVars, callVars, daemonVars
  <1>2. \A u \in Turns : /\ state'[u] = IF u = t THEN "STARTING" ELSE state[u]
                         /\ startPc'[u] = IF u = t THEN "preflight" ELSE startPc[u]
                         /\ ThreadOf[u] = ThreadOf[t] => state[u] \notin Active
    BY <1>1 DEF LifecycleInv, TypeOK, ActiveOn
  <1>3. OneActive' /\ StartOwned'
    BY <1>2 DEF LifecycleInv, OneActive, StartOwned
  <1>4. finishPc[t] = "idle" /\ aborting \subseteq Turns
    BY <1>1 DEF LifecycleInv, TypeOK, FinishOwned
  <1>5. FinishOwned'
    BY <1>1, <1>2, <1>4 DEF LifecycleInv, FinishOwned, Deleting
  <1>6. PhaseOwned'
    BY <1>1 DEF PhaseOwned
  <1>7. HeadStable'
    <2>1. /\ t \in Durable => /\ workspaces' = workspaces \cup {ThreadOf[t]}
                              /\ base' = [base EXCEPT ![t] = refs[ThreadOf[t]]]
          /\ t \notin Durable => workspaces' = workspaces /\ base' = base
      BY StartEffect
    <2>2. \A u \in Durable : /\ u \in Turns /\ workspaces \subseteq workspaces'
                             /\ base'[u] = IF u = t THEN refs[ThreadOf[t]] ELSE base[u]
      BY <2>1, ConstantsAssumption DEF LifecycleInv, TypeOK
    <2> QED BY <1>1, <1>2, <2>1, <2>2 DEF LifecycleInv, HeadStable
  <1> QED BY <1>3, <1>5, <1>6, <1>7 DEF LifecycleInv

\* start() finds its thread idle, and only its own continuation moves the turn on.
LEMMA StartKeepsInv ==
  ASSUME LifecycleInv, TypeOK', NEW t \in Turns
  PROVE  Start(t) \/ StartStep(t) => LifecycleInv'
PROOF
  <1> USE ConstantsAssumption
      DEF LifecycleInv, OneActive, StartOwned, FinishOwned, PhaseOwned, HeadStable,
          Alive, Deleting, Active, dbVars, worldVars, callVars, daemonVars
  <1>1. Start(t) => LifecycleInv'
    BY StartRowKeepsInv
  <1>2. Provision(t) => LifecycleInv'
    BY DEF TypeOK, Provision
  <1>3. StartRefused(t) => LifecycleInv'
    BY DEF TypeOK, StartRefused
  <1>4. RuntimeCreated(t) => LifecycleInv'
    BY DEF TypeOK, RuntimeCreated
  <1>5. CreateFails(t) => LifecycleInv'
    BY CreateFailsKeepsInv
  <1>6. RecordHandle(t) => LifecycleInv'
    BY DEF TypeOK, RecordHandle
  <1>7. OpenTurn(t) => LifecycleInv'
    BY DEF TypeOK, OpenTurn
  <1> QED
    BY <1>1, <1>2, <1>3, <1>4, <1>5, <1>6, <1>7
    DEF StartStep

\* Tool calls change nothing of it.
LEMMA CallKeepsInv ==
  ASSUME LifecycleInv, TypeOK', NEW t \in Turns
  PROVE  CallStep(t) => LifecycleInv'
PROOF
  <1> USE DEF callVars, daemonVars, dbVars
  <1>1. Acquire(t) => LifecycleInv'
    BY FrameKeepsInv DEF Acquire
  <1>2. Release(t) => LifecycleInv'
    BY FrameKeepsInv DEF Release
  <1>3. ToolExec(t) => LifecycleInv'
    BY FrameKeepsInv DEF ToolExec
  <1>4. ShellEnded(t) => LifecycleInv'
    BY FrameKeepsInv DEF ShellEnded
  <1>5. Abandon(t) => LifecycleInv'
    BY FrameKeepsInv DEF Abandon
  <1>6. ReapExpired(t) => LifecycleInv'
    BY FrameKeepsInv DEF ReapExpired
  <1>7. ASSUME NEW tree \in Trees PROVE ToolWrite(t, tree) \/ ShellWrite(t, tree) => LifecycleInv'
    BY FrameKeepsInv DEF ToolWrite, ShellWrite
  <1> QED
    BY <1>1, <1>2, <1>3, <1>4, <1>5, <1>6, <1>7
    DEF CallStep

\* A failed removal of the runtime ends the finish, and with it the claim on the thread.
LEMMA DeleteFailsKeepsInv ==
  ASSUME LifecycleInv, TypeOK', NEW t \in Turns, DeleteFails(t)
  PROVE  LifecycleInv'
PROOF
  <1>1. /\ finishPc[t] \in {"destroy", "record"} /\ Alive
        /\ state' = [state EXCEPT ![t] = IF t \in Durable /\ t \notin aborting THEN @ ELSE "FAILED"]
        /\ finishPc' = [finishPc EXCEPT ![t] = "idle"] /\ aborting' = aborting \ {t}
        /\ UNCHANGED <<expected, base, workspaces, refs, startPc, phase, queue>>
    BY DEF DeleteFails, DeleteRejects, daemonVars
  <1>2. state[t] \in {"FINISHED", "FINISHING"} /\ startPc[t] = "idle"
    BY <1>1 DEF LifecycleInv, FinishOwned, StartOwned
  <1>3. \A u \in Turns : /\ u # t => state'[u] = state[u] /\ finishPc'[u] = finishPc[u]
                         /\ finishPc'[t] = "idle" /\ state'[t] \in {"FINISHED", "FAILED"}
    BY <1>1, <1>2 DEF LifecycleInv, TypeOK, FinishOwned, Deleting
  <1>4. OneActive'
    BY <1>3, OneActiveKept DEF LifecycleInv, Active
  <1>5. StartOwned'
    BY <1>1, <1>2, <1>3 DEF LifecycleInv, StartOwned
  <1>6. FinishOwned'
    BY <1>1, <1>3 DEF LifecycleInv, TypeOK, FinishOwned
  <1>7. PhaseOwned'
    BY <1>1, <1>3 DEF LifecycleInv, PhaseOwned
  <1>8. HeadStable'
    BY <1>1, <1>3, ConstantsAssumption DEF LifecycleInv, HeadStable
  <1> QED BY <1>4, <1>5, <1>6, <1>7, <1>8 DEF LifecycleInv

\* A finish moves its own turn, along its own program counter.
LEMMA FinishKeepsInv ==
  ASSUME LifecycleInv, TypeOK', NEW t \in Turns
  PROVE  Finish(t) \/ FinishStep(t) => LifecycleInv'
PROOF
  <1> USE ConstantsAssumption
      DEF LifecycleInv, OneActive, StartOwned, FinishOwned, PhaseOwned, HeadStable,
          Alive, Deleting, Active, dbVars, worldVars, callVars, daemonVars
  <1>1. Finish(t) => LifecycleInv'
    BY FinishRowKeepsInv DEF Finish
  <1>2. LeasesDrained(t) => LifecycleInv'
    BY DEF TypeOK, LeasesDrained
  <1>3. SessionsClosed(t) => LifecycleInv'
    BY DEF TypeOK, SessionsClosed
  <1>4. SessionsStuck(t) => LifecycleInv'
    BY FailTurnKeepsInv DEF SessionsStuck
  <1>5. BeginCommit(t) => LifecycleInv'
    BY BeginCommitKeepsInv
  <1>6. SnapshotTaken(t) => LifecycleInv'
    BY DEF TypeOK, SnapshotTaken
  <1>7. SnapshotFails(t) => LifecycleInv'
    BY FailTurnKeepsInv DEF SnapshotFails, CommitFails
  <1>8. Publish(t) => LifecycleInv'
    BY PublishKeepsInv
  <1>9. BeginDelete(t) => LifecycleInv'
    BY DEF TypeOK, BeginDelete
  <1>10. RuntimeDestroyed(t) => LifecycleInv'
    BY DEF TypeOK, RuntimeDestroyed
  <1>11. DeleteDone(t) => LifecycleInv'
    BY DEF TypeOK, DeleteDone
  <1>12. DeleteFails(t) => LifecycleInv'
    BY DeleteFailsKeepsInv
  <1> QED
    BY <1>1, <1>2, <1>3, <1>4, <1>5, <1>6, <1>7, <1>8, <1>9, <1>10, <1>11, <1>12
    DEF FinishStep

\* A fork writes the ref of a thread that had none.
LEMMA ForkKeepsInv ==
  ASSUME LifecycleInv, TypeOK', NEW src \in Threads, NEW dst \in Threads
  PROVE  Fork(src, dst) => LifecycleInv'
PROOF
  <1> USE ConstantsAssumption
      DEF LifecycleInv, OneActive, StartOwned, FinishOwned, PhaseOwned, HeadStable,
          Alive, Deleting, Active, dbVars, worldVars, callVars, daemonVars
  <1>1. Fork(src, dst) => LifecycleInv'
    BY DEF TypeOK, Fork
  <1> QED
    BY <1>1

\* Crash, recovery and shutdown write turns only when no continuation is left.
LEMMA DaemonKeepsInv ==
  ASSUME LifecycleInv, TypeOK'
  PROVE  Crash \/ Boot \/ Close \/ RecoverStep \/ CloseStep \/ CleanupStep => LifecycleInv'
PROOF
  <1> USE ConstantsAssumption
      DEF LifecycleInv, OneActive, StartOwned, FinishOwned, PhaseOwned, HeadStable,
          Alive, Deleting, Active, dbVars, worldVars, callVars, daemonVars
  <1>1. Crash => LifecycleInv'
    BY DEF TypeOK, Crash, ForgetMemory
  <1>2. Boot => LifecycleInv'
    BY DEF TypeOK, Boot
  <1>3. Close => LifecycleInv'
    BY DEF TypeOK, Close
  <1>4. ListInterrupted => LifecycleInv'
    BY DEF TypeOK, ListInterrupted
  <1>5. Recovered => LifecycleInv'
    BY DEF TypeOK, Recovered
  <1>6. StartsSettled => LifecycleInv'
    BY DEF TypeOK, StartsSettled
  <1>7. FinishesSettled => LifecycleInv'
    BY DEF TypeOK, FinishesSettled
  <1>8. CloseSweep => LifecycleInv'
    BY DEF TypeOK, CloseSweep
  <1>9. CloseService => LifecycleInv'
    BY DEF TypeOK, CloseService
  <1>10. Exit => LifecycleInv'
    BY DEF TypeOK, Exit, ForgetMemory
  <1>11. ASSUME NEW t \in Turns PROVE Interrupt(t) => LifecycleInv'
    BY FrameKeepsInv DEF Interrupt
  <1>12. ASSUME NEW t \in Turns PROVE InterruptFails(t) => LifecycleInv'
    BY FrameKeepsInv DEF InterruptFails
  <1>13. ASSUME NEW t \in Turns PROVE CleanupFinished(t) => LifecycleInv'
    BY FrameKeepsInv DEF CleanupFinished
  <1>14. ASSUME NEW t \in Turns PROVE CleanupFails(t) => LifecycleInv'
    BY FrameKeepsInv DEF CleanupFails
  <1>15. ASSUME NEW t \in Turns PROVE CloseFinish(t) => LifecycleInv'
    BY CloseFinishKeepsInv
  <1> QED
    BY <1>1, <1>2, <1>3, <1>4, <1>5, <1>6, <1>7, <1>8, <1>9, <1>10, <1>11, <1>12, <1>13, <1>14, <1>15
    DEF RecoverStep, CloseStep, CleanupStep

\* The initial state has no turn, no continuation and no daemon.
LEMMA InitInv == Init => LifecycleInv
PROOF
  <1> SUFFICES ASSUME Init PROVE LifecycleInv
    OBVIOUS
  <1>1. TypeOK
    BY InitType
  <1>2. OneActive /\ StartOwned /\ FinishOwned /\ PhaseOwned /\ HeadStable
    BY ConstantsAssumption
    DEF Init, OneActive, StartOwned, FinishOwned, PhaseOwned, HeadStable, Active
  <1> QED BY <1>1, <1>2 DEF LifecycleInv

\* Every step keeps LifecycleInv.
LEMMA InvStep == LifecycleInv /\ [Next]_vars => LifecycleInv'
PROOF
  <1> SUFFICES ASSUME LifecycleInv, [Next]_vars PROVE LifecycleInv'
    OBVIOUS
  <1>1. TypeOK'
    BY TypeStep DEF LifecycleInv
  <1>2. ASSUME NEW t \in Turns
        PROVE  Start(t) \/ StartStep(t) \/ CallStep(t) \/ Finish(t) \/ FinishStep(t)
                 => LifecycleInv'
    BY <1>1, StartKeepsInv, CallKeepsInv, FinishKeepsInv
  <1>3. ASSUME NEW src \in Threads, NEW dst \in Threads
        PROVE  Fork(src, dst) => LifecycleInv'
    BY <1>1, ForkKeepsInv
  <1>4. Crash \/ Boot \/ Close \/ RecoverStep \/ CloseStep \/ CleanupStep => LifecycleInv'
    BY <1>1, DaemonKeepsInv
  <1>5. UNCHANGED vars => LifecycleInv'
    BY <1>1 DEF LifecycleInv, OneActive, StartOwned, FinishOwned, PhaseOwned, HeadStable,
                vars, dbVars, worldVars, callVars, daemonVars
  <1>6. Rest => LifecycleInv'
    BY <1>5 DEF Rest
  <1> QED
    BY <1>2, <1>3, <1>4, <1>5, <1>6 DEF Next

\* Which continuation owns which turn: at most one turn of a thread is active,
\* and only its own start, finish, recovery or shutdown writes its state.
THEOREM LifecycleInvariant == Spec => []LifecycleInv
PROOF
  <1> QED BY InitInv, InvStep, PTL DEF Spec

\* The head a durable turn was started from is the head of its thread until the
\* turn itself publishes: publishTurnCommit never answers HEAD_CONFLICT.
THEOREM HeadIsStable == Spec => []HeadStable
PROOF
  <1>1. LifecycleInv => HeadStable
    BY DEF LifecycleInv
  <1> QED BY <1>1, LifecycleInvariant, PTL

----------------------------------------------------------------------------
(* The rows implement ThreadHistory                                        *)

HistoryStep == History!Next \/ UNCHANGED History!vars

\* What a harness can tell of a turn.
LEMMA StatusValues ==
  /\ StatusOf("NONE") = "new"
  /\ StatusOf("STARTING") = "active"
  /\ StatusOf("OPEN") = "active"
  /\ StatusOf("FINISHING") = "active"
  /\ StatusOf("FINISHED") = "done"
  /\ StatusOf("FAILED") = "failed"
PROOF
  BY DEF StatusOf, Active

\* A step that moves no head and changes no turn's status is not seen.
LEMMA Unseen ==
  ASSUME UNCHANGED <<workspaces, refs>>,
         \A u \in Turns : StatusOf(state'[u]) = StatusOf(state[u])
  PROVE  HistoryStep
PROOF
  BY DEF HistoryStep, History!vars

\* A turn that stays active is not seen to move.
LEMMA UnseenActive ==
  ASSUME TypeOK, NEW t \in Turns, NEW s \in Active, UNCHANGED <<workspaces, refs>>,
         state[t] \in Active, state' = [state EXCEPT ![t] = s]
  PROVE  HistoryStep
PROOF
  <1>1. StatusOf(s) = StatusOf(state[t])
    BY StatusValues DEF Active
  <1>2. \A u \in Turns : StatusOf(state'[u]) = StatusOf(state[u])
    BY <1>1 DEF TypeOK
  <1> QED BY <1>2, Unseen

\* Giving up active turns is the Fail step of the abstract specification.
LEMMA SeenAsFail ==
  ASSUME NEW S \in SUBSET Turns, UNCHANGED <<workspaces, refs>>,
         \A u \in S : state[u] \in Active,
         state' = [u \in Turns |-> IF u \in S THEN "FAILED" ELSE state[u]]
  PROVE  HistoryStep
PROOF
  <1>1. \A u \in S : StatusOf(state[u]) = "active"
    BY StatusValues DEF Active
  <1>2. S \subseteq History!ActiveTurns
    BY <1>1 DEF History!ActiveTurns
  <1>3. [u \in Turns |-> StatusOf(state'[u])]
          = [u \in Turns |-> IF u \in S THEN "failed"
                             ELSE [v \in Turns |-> StatusOf(state[v])][u]]
    BY StatusValues
  <1>4. History!Fail(S)
    BY <1>2, <1>3 DEF History!Fail
  <1> QED BY <1>4 DEF HistoryStep, History!Next

\* One active turn that is given up.
LEMMA SeenAsFailed ==
  ASSUME TypeOK, NEW t \in Turns, UNCHANGED <<workspaces, refs>>, state[t] \in Active,
         state' = [state EXCEPT ![t] = "FAILED"]
  PROVE  HistoryStep
PROOF
  <1>1. state' = [u \in Turns |-> IF u \in {t} THEN "FAILED" ELSE state[u]]
    BY DEF TypeOK
  <1> QED BY <1>1, SeenAsFail

\* A turn that starts begins; the thread is free.
LEMMA SeenAsBegin ==
  ASSUME LifecycleInv, NEW t \in Turns, Start(t)
  PROVE  HistoryStep
PROOF
  <1>1. /\ state[t] = "NONE" /\ state' = [state EXCEPT ![t] = "STARTING"]
        /\ ActiveOn(ThreadOf[t]) = {} /\ refs' = refs
    BY DEF Start
  <1>2. workspaces' = IF t \in Durable THEN workspaces \cup {ThreadOf[t]} ELSE workspaces
    BY StartEffect
  <1>3. \A u \in Turns : StatusOf(state[u]) = "active" => state[u] \in Active
    <2> TAKE u \in Turns
    <2>1. state[u] \in TurnStates
      BY DEF LifecycleInv, TypeOK
    <2> QED BY <2>1, StatusValues DEF TurnStates, Active
  <1>4. \A u \in History!ActiveTurns : ThreadOf[u] # ThreadOf[t]
    BY <1>1, <1>3 DEF History!ActiveTurns, ActiveOn
  <1>5. [u \in Turns |-> StatusOf(state'[u])]
          = [[u \in Turns |-> StatusOf(state[u])] EXCEPT ![t] = "active"]
    BY <1>1, StatusValues DEF LifecycleInv, TypeOK
  <1>6. [u \in Turns |-> StatusOf(state[u])][t] = "new"
    BY <1>1, StatusValues
  <1>7. History!Begin(t)
    BY <1>1, <1>2, <1>4, <1>5, <1>6 DEF History!Begin
  <1> QED BY <1>7 DEF HistoryStep, History!Next

\* publishTurnCommit appends one tree and ends the turn, in one step.
LEMMA SeenAsPublish ==
  ASSUME LifecycleInv, NEW t \in Turns, Publish(t)
  PROVE  HistoryStep
PROOF
  <1>1. CASE Swaps(t)
    <2>1. /\ refs' = [refs EXCEPT ![ThreadOf[t]] = Append(expected[t], snap[t])]
          /\ state' = [state EXCEPT ![t] = "FINISHED"]
          /\ workspaces' = workspaces
      BY <1>1, PublishEffect
    <2>2. t \in Durable /\ snap[t] \in Trees
      BY DEF Publish, LifecycleInv, FinishOwned, TypeOK
    <2>3. state[t] = "FINISHING" /\ expected[t] = refs[ThreadOf[t]]
      BY <1>1 DEF Swaps
    <2>4. [u \in Turns |-> StatusOf(state'[u])]
            = [[u \in Turns |-> StatusOf(state[u])] EXCEPT ![t] = "done"]
      BY <2>1, StatusValues DEF LifecycleInv, TypeOK
    <2>5. [u \in Turns |-> StatusOf(state[u])][t] = "active"
      BY <2>3, StatusValues
    <2>6. History!Publish(t)
      BY <2>1, <2>2, <2>3, <2>4, <2>5 DEF History!Publish
    <2> QED BY <2>6 DEF HistoryStep, History!Next
  <1>2. CASE ~Swaps(t)
    <2>1. UNCHANGED <<workspaces, refs, state>>
      BY <1>2, PublishEffect DEF CommitFails
    <2> QED BY <2>1, Unseen
  <1> QED BY <1>1, <1>2

\* The end of a finish fails the turn, discards an instant one, or was seen before.
LEMMA DeleteDoneSeen ==
  ASSUME LifecycleInv, NEW t \in Turns, DeleteDone(t)
  PROVE  HistoryStep
PROOF
  <1>1. /\ finishPc[t] = "record" /\ UNCHANGED <<workspaces, refs>>
        /\ state' = [state EXCEPT ![t] = IF t \in aborting THEN "FAILED" ELSE "FINISHED"]
    BY DEF DeleteDone
  <1>2. state[t] = IF t \in Durable /\ t \notin aborting THEN "FINISHED" ELSE "FINISHING"
    BY <1>1 DEF LifecycleInv, FinishOwned, Deleting
  <1>3. CASE t \in aborting
    BY <1>1, <1>2, <1>3, SeenAsFailed DEF LifecycleInv, TypeOK, Active
  <1>4. CASE t \notin aborting /\ t \in Durable
    BY <1>1, <1>2, <1>4, Unseen DEF LifecycleInv, TypeOK
  <1>5. CASE t \notin aborting /\ t \notin Durable
    <2>1. [u \in Turns |-> StatusOf(state'[u])]
            = [[u \in Turns |-> StatusOf(state[u])] EXCEPT ![t] = "done"]
      BY <1>1, <1>5, StatusValues DEF LifecycleInv, TypeOK
    <2>2. [u \in Turns |-> StatusOf(state[u])][t] = "active"
      BY <1>2, <1>5, StatusValues
    <2>3. History!Discard(t)
      BY <1>1, <1>5, <2>1, <2>2 DEF History!Discard
    <2> QED BY <2>3 DEF HistoryStep, History!Next
  <1> QED BY <1>3, <1>4, <1>5

\* A cleanup that fails fails the turn, unless it has published.
LEMMA DeleteFailsSeen ==
  ASSUME LifecycleInv, NEW t \in Turns, DeleteFails(t)
  PROVE  HistoryStep
PROOF
  <1>1. /\ finishPc[t] \in {"destroy", "record"} /\ UNCHANGED <<workspaces, refs>>
        /\ state' = [state EXCEPT ![t] = IF t \in Durable /\ t \notin aborting
                                        THEN @ ELSE "FAILED"]
    BY DEF DeleteFails, DeleteRejects
  <1>2. CASE t \in Durable /\ t \notin aborting
    BY <1>1, <1>2, Unseen DEF LifecycleInv, TypeOK
  <1>3. CASE ~(t \in Durable /\ t \notin aborting)
    <2>1. state[t] = "FINISHING"
      BY <1>1, <1>3 DEF LifecycleInv, FinishOwned, Deleting
    <2> QED BY <1>1, <1>3, <2>1, SeenAsFailed DEF LifecycleInv, Active
  <1> QED BY <1>2, <1>3

\* A fork of the daemon is a fork of the abstract specification.
LEMMA ForkSeen ==
  ASSUME LifecycleInv, NEW src \in Threads, NEW dst \in Threads, Fork(src, dst)
  PROVE  HistoryStep
PROOF
  <1>1. \A u \in Turns : StatusOf(state[u]) = "active" => state[u] \in Active
    <2> TAKE u \in Turns
    <2>1. state[u] \in TurnStates
      BY DEF LifecycleInv, TypeOK
    <2> QED BY <2>1, StatusValues DEF TurnStates, Active
  <1>2. \A u \in History!ActiveTurns : ThreadOf[u] # src
    BY <1>1 DEF Fork, ActiveOn, History!ActiveTurns
  <1>3. History!Fork(src, dst)
    BY <1>2 DEF Fork, History!Fork
  <1> QED BY <1>3 DEF HistoryStep, History!Next

\* Only the end of a start, of a finish or of the daemon is seen by the harness.
LEMMA TurnStepSeen ==
  ASSUME LifecycleInv, NEW t \in Turns
  PROVE  Start(t) \/ StartStep(t) \/ CallStep(t) \/ Finish(t) \/ FinishStep(t) => HistoryStep
PROOF
  <1> USE Unseen DEF dbVars
  <1>1. Start(t) => HistoryStep
    BY SeenAsBegin
  <1>2. Provision(t) \/ StartRefused(t) \/ RuntimeCreated(t) \/ RecordHandle(t) => HistoryStep
    BY DEF Provision, StartRefused, RuntimeCreated, RecordHandle
  <1>3. CreateFails(t) => HistoryStep
    BY SeenAsFailed DEF CreateFails, LifecycleInv, StartOwned, Active
  <1>4. OpenTurn(t) => HistoryStep
    BY UnseenActive DEF OpenTurn, LifecycleInv, StartOwned, Active
  <1>5. Acquire(t) \/ Release(t) \/ ToolExec(t) \/ ShellEnded(t) \/ Abandon(t)
          \/ ReapExpired(t) => HistoryStep
    BY DEF Acquire, Release, ToolExec, ShellEnded, Abandon, ReapExpired
  <1>6. ASSUME NEW tree \in Trees PROVE ToolWrite(t, tree) \/ ShellWrite(t, tree) => HistoryStep
    BY DEF ToolWrite, ShellWrite
  <1>7. Finish(t) => HistoryStep
    BY UnseenActive DEF Finish, FinishRow, LifecycleInv, Active
  <1>8. LeasesDrained(t) \/ SessionsClosed(t) \/ SessionsStuck(t) \/ BeginCommit(t)
          \/ SnapshotTaken(t) => HistoryStep
    BY DEF LeasesDrained, SessionsClosed, SessionsStuck, BeginCommit, SnapshotTaken
  <1>9. SnapshotFails(t) \/ BeginDelete(t) \/ RuntimeDestroyed(t) => HistoryStep
    BY DEF SnapshotFails, CommitFails, BeginDelete, RuntimeDestroyed
  <1>10. Publish(t) => HistoryStep
    BY SeenAsPublish
  <1>11. DeleteDone(t) => HistoryStep
    BY DeleteDoneSeen
  <1>12. DeleteFails(t) => HistoryStep
    BY DeleteFailsSeen
  <1> QED
    BY <1>1, <1>2, <1>3, <1>4, <1>5, <1>6, <1>7, <1>8, <1>9, <1>10, <1>11, <1>12
    DEF StartStep, CallStep, FinishStep

\* Recovery and shutdown fail the turns they find active, and no other.
LEMMA DaemonStepSeen ==
  ASSUME LifecycleInv
  PROVE  Crash \/ Boot \/ Close \/ RecoverStep \/ CloseStep \/ CleanupStep => HistoryStep
PROOF
  <1> USE Unseen DEF dbVars
  <1>1. Crash \/ Boot \/ Close \/ ListInterrupted \/ StartsSettled \/ FinishesSettled
          \/ CloseService \/ Exit => HistoryStep
    BY DEF Crash, Boot, Close, ListInterrupted, StartsSettled, FinishesSettled, CloseService, Exit
  <1>2. ASSUME NEW t \in Turns
        PROVE  Interrupt(t) \/ InterruptFails(t) \/ CleanupFinished(t) \/ CleanupFails(t)
                 => HistoryStep
    BY DEF Interrupt, InterruptFails, CleanupFinished, CleanupFails
  <1>3. ASSUME Recovered PROVE HistoryStep
    <2> DEFINE S == {u \in Turns : state[u] \in Active}
    <2>1. state' = [u \in Turns |-> IF u \in S THEN "FAILED" ELSE state[u]]
      BY <1>3 DEF Recovered
    <2> QED BY <1>3, <2>1, SeenAsFail DEF Recovered
  <1>4. ASSUME CloseSweep PROVE HistoryStep
    <2> DEFINE S == {u \in Turns : state[u] \in {"STARTING", "FINISHING"}}
    <2>1. state' = [u \in Turns |-> IF u \in S THEN "FAILED" ELSE state[u]]
      BY <1>4 DEF CloseSweep
    <2>2. UNCHANGED <<workspaces, refs>>
      BY <1>4 DEF CloseSweep
    <2>3. \A u \in S : state[u] \in Active
      BY DEF Active
    <2> QED BY <2>1, <2>2, <2>3, SeenAsFail
  <1>5. ASSUME NEW t \in Turns, CloseFinish(t) PROVE HistoryStep
    <2>1. UNCHANGED <<workspaces, refs>>
      BY <1>5 DEF CloseFinish
    <2>2. CASE state[t] = "OPEN"
      BY <1>5, <2>1, <2>2, CloseFinishEffect, UnseenActive DEF FinishRow, LifecycleInv, Active
    <2>3. CASE state[t] # "OPEN"
      BY <1>5, <2>1, <2>3, CloseFinishEffect
    <2> QED BY <2>2, <2>3
  <1> QED
    BY <1>1, <1>2, <1>3, <1>4, <1>5 DEF RecoverStep, CloseStep, CleanupStep

\* Every step of the daemon is a step of the abstract specification, or is not seen.
LEMMA NextSeen == LifecycleInv /\ [Next]_vars => [History!Next]_(History!vars)
PROOF
  <1> SUFFICES ASSUME LifecycleInv, [Next]_vars PROVE HistoryStep
    BY DEF HistoryStep
  <1>1. UNCHANGED vars => HistoryStep
    BY Unseen DEF vars, dbVars
  <1>2. Rest => HistoryStep
    BY <1>1 DEF Rest
  <1> QED
    BY <1>1, <1>2, TurnStepSeen, ForkSeen, DaemonStepSeen DEF Next

\* No thread owns a workspace and no turn exists at first.
LEMMA InitSeen == Init => History!Init
PROOF
  <1> SUFFICES ASSUME Init PROVE History!Init
    OBVIOUS
  <1>1. [t \in Turns |-> StatusOf(state[t])] = [t \in Turns |-> "new"]
    BY StatusValues DEF Init
  <1> QED BY <1>1 DEF Init, History!Init

\* The rows keep the promise of ThreadHistory through failures, crashes,
\* recoveries and shutdowns.
THEOREM RowsImplementHistory == Spec => ImplementsHistory
PROOF
  <1> QED BY InitSeen, NextSeen, LifecycleInvariant, PTL DEF Spec, ImplementsHistory, History!Spec

----------------------------------------------------------------------------
(* What a step may never do                                                *)

\* What is done or failed for the harness stays so, and the rows say no more.
LEMMA TerminalStep ==
  ASSUME TypeOK, TypeOK', HistoryStep, NEW t \in Turns, state[t] \in Terminal
  PROVE  state'[t] = state[t]
PROOF
  <1> DEFINE st == [u \in Turns |-> StatusOf(state[u])]
  <1>1. \/ st[t] = "done" /\ state[t] = "FINISHED"
        \/ st[t] = "failed" /\ state[t] = "FAILED"
    BY StatusValues DEF Terminal
  <1>2. state'[t] \in TurnStates
    BY DEF TypeOK
  <1>3. SUFFICES st'[t] = st[t]
    <2>1. StatusOf(state'[t]) = StatusOf(state[t]) => state'[t] = state[t]
      BY <1>1, <1>2, StatusValues DEF TurnStates
    <2> QED BY <2>1
  <1>4. CASE UNCHANGED History!vars
    BY <1>4 DEF History!vars
  <1>5. ASSUME NEW u \in Turns, History!Begin(u) \/ History!Publish(u) \/ History!Discard(u)
        PROVE  st'[t] = st[t]
    <2>1. st[u] \in {"new", "active"}
      BY <1>5 DEF History!Begin, History!Publish, History!Discard
    <2>2. PICK v \in {"active", "done"} : st' = [st EXCEPT ![u] = v]
      BY <1>5 DEF History!Begin, History!Publish, History!Discard
    <2>3. u # t
      BY <1>1, <2>1
    <2> QED BY <2>2, <2>3
  <1>6. ASSUME NEW S \in SUBSET Turns, History!Fail(S)
        PROVE  st'[t] = st[t]
    <2>1. S \subseteq {u \in Turns : st[u] = "active"}
      BY <1>6 DEF History!Fail, History!ActiveTurns
    <2>2. st' = [u \in Turns |-> IF u \in S THEN "failed" ELSE st[u]]
      BY <1>6 DEF History!Fail
    <2>3. t \notin S
      BY <1>1, <2>1
    <2> QED BY <2>2, <2>3
  <1>7. ASSUME NEW src \in Threads, NEW dst \in Threads, History!Fork(src, dst)
        PROVE  st'[t] = st[t]
    BY <1>7 DEF History!Fork
  <1> QED
    BY <1>4, <1>5, <1>6, <1>7 DEF HistoryStep, History!Next

\* A FINISHED or FAILED turn keeps its state through failed cleanups, crashes,
\* recovery and shutdown.
THEOREM TerminalStaysFinal == Spec => TerminalIsFinal
PROOF
  <1>1. LifecycleInv /\ [Next]_vars
          => [\A t \in Turns : state[t] \in Terminal => state'[t] = state[t]]_vars
    BY NextSeen, TypeStep, TerminalStep DEF HistoryStep, LifecycleInv
  <1> QED BY <1>1, LifecycleInvariant, PTL DEF Spec, TerminalIsFinal

\* A step that moves no head and finishes no durable turn publishes nothing.
Publishes ==
  /\ \A th \in workspaces : refs'[th] # refs[th] =>
       \E t \in Durable : ThreadOf[t] = th /\ state[t] # "FINISHED" /\ state'[t] = "FINISHED"
  /\ \A t \in Durable : state[t] # "FINISHED" /\ state'[t] = "FINISHED" =>
       refs'[ThreadOf[t]] = Append(refs[ThreadOf[t]], snap[t])

LEMMA NothingPublished ==
  ASSUME UNCHANGED refs, \A t \in Durable : state'[t] = "FINISHED" => state[t] = "FINISHED"
  PROVE  Publishes
PROOF
  BY DEF Publishes

\* publishTurnCommit moves the head of its own thread by the captured tree.
LEMMA PublishPublishes ==
  ASSUME LifecycleInv, NEW t \in Turns, Publish(t)
  PROVE  Publishes
PROOF
  <1>1. CASE Swaps(t)
    <2>1. /\ refs' = [refs EXCEPT ![ThreadOf[t]] = Append(expected[t], snap[t])]
          /\ state' = [state EXCEPT ![t] = "FINISHED"]
      BY <1>1, PublishEffect
    <2>2. t \in Durable
      BY DEF Publish, LifecycleInv, FinishOwned
    <2>3. state[t] = "FINISHING" /\ expected[t] = refs[ThreadOf[t]]
      BY <1>1 DEF Swaps
    <2>4. ThreadOf[t] \in Threads
      BY ConstantsAssumption
    <2>5. \A u \in Durable : u # t => state'[u] = state[u]
      BY <2>1, ConstantsAssumption DEF LifecycleInv, TypeOK
    <2>6. \A th \in workspaces : th # ThreadOf[t] => refs'[th] = refs[th]
      BY <2>1 DEF LifecycleInv, TypeOK
    <2>7. refs'[ThreadOf[t]] = Append(refs[ThreadOf[t]], snap[t]) /\ state'[t] = "FINISHED"
      BY <2>1, <2>3, <2>4 DEF LifecycleInv, TypeOK
    <2> QED BY <2>2, <2>3, <2>5, <2>6, <2>7 DEF Publishes
  <1>2. CASE ~Swaps(t)
    <2>1. UNCHANGED <<refs, state>>
      BY <1>2, PublishEffect DEF CommitFails
    <2> QED BY <2>1, NothingPublished
  <1> QED BY <1>1, <1>2

\* No other step of a turn finishes a durable turn or moves a head.
LEMMA TurnStepPublishes ==
  ASSUME LifecycleInv, NEW t \in Turns
  PROVE  Start(t) \/ StartStep(t) \/ CallStep(t) \/ Finish(t) \/ FinishStep(t) => Publishes
PROOF
  <1> USE NothingPublished DEF dbVars
  <1>1. Start(t) \/ CreateFails(t) \/ OpenTurn(t) \/ Finish(t) => Publishes
    BY ConstantsAssumption
    DEF Start, CreateFails, OpenTurn, Finish, FinishRow, LifecycleInv, TypeOK
  <1>2. Provision(t) \/ StartRefused(t) \/ RuntimeCreated(t) \/ RecordHandle(t) => Publishes
    BY DEF Provision, StartRefused, RuntimeCreated, RecordHandle
  <1>3. Acquire(t) \/ Release(t) \/ ToolExec(t) \/ ShellEnded(t) \/ Abandon(t)
          \/ ReapExpired(t) => Publishes
    BY DEF Acquire, Release, ToolExec, ShellEnded, Abandon, ReapExpired
  <1>4. ASSUME NEW tree \in Trees PROVE ToolWrite(t, tree) \/ ShellWrite(t, tree) => Publishes
    BY DEF ToolWrite, ShellWrite
  <1>5. LeasesDrained(t) \/ SessionsClosed(t) \/ SessionsStuck(t) \/ BeginCommit(t)
          \/ SnapshotTaken(t) => Publishes
    BY DEF LeasesDrained, SessionsClosed, SessionsStuck, BeginCommit, SnapshotTaken
  <1>6. SnapshotFails(t) \/ BeginDelete(t) \/ RuntimeDestroyed(t) => Publishes
    BY DEF SnapshotFails, CommitFails, BeginDelete, RuntimeDestroyed
  <1>7. Publish(t) => Publishes
    BY PublishPublishes
  <1>8. ASSUME DeleteDone(t) PROVE Publishes
    <2>1. t \in Durable => t \in aborting \/ state[t] = "FINISHED"
      BY <1>8 DEF DeleteDone, LifecycleInv, FinishOwned, Deleting
    <2> QED BY <1>8, <2>1, ConstantsAssumption DEF DeleteDone, LifecycleInv, TypeOK
  <1>9. ASSUME DeleteFails(t) PROVE Publishes
    BY <1>9, ConstantsAssumption DEF DeleteFails, LifecycleInv, TypeOK
  <1> QED
    BY <1>1, <1>2, <1>3, <1>4, <1>5, <1>6, <1>7, <1>8, <1>9 DEF StartStep, CallStep, FinishStep

\* Recovery and shutdown never publish.
LEMMA DaemonStepPublishes ==
  ASSUME LifecycleInv
  PROVE  Crash \/ Boot \/ Close \/ RecoverStep \/ CloseStep \/ CleanupStep => Publishes
PROOF
  <1> USE NothingPublished DEF dbVars
  <1>1. Crash \/ Boot \/ Close \/ ListInterrupted \/ StartsSettled \/ FinishesSettled
          \/ CloseService \/ Exit => Publishes
    BY DEF Crash, Boot, Close, ListInterrupted, StartsSettled, FinishesSettled, CloseService, Exit
  <1>2. ASSUME NEW t \in Turns
        PROVE  Interrupt(t) \/ InterruptFails(t) \/ CleanupFinished(t) \/ CleanupFails(t)
                 => Publishes
    BY DEF Interrupt, InterruptFails, CleanupFinished, CleanupFails
  <1>3. Recovered \/ CloseSweep => Publishes
    BY ConstantsAssumption DEF Recovered, CloseSweep
  <1>4. ASSUME NEW t \in Turns, CloseFinish(t) PROVE Publishes
    <2>1. refs' = refs
      BY <1>4 DEF CloseFinish
    <2>2. state' = state \/ state' = [state EXCEPT ![t] = "FINISHING"]
      BY <1>4, CloseFinishEffect DEF FinishRow
    <2> QED BY <2>1, <2>2, ConstantsAssumption DEF LifecycleInv, TypeOK
  <1> QED
    BY <1>1, <1>2, <1>3, <1>4 DEF RecoverStep, CloseStep, CleanupStep

\* The head of a thread moves exactly when a durable turn of the thread becomes
\* FINISHED, and by the one tree that publishTurnCommit was given.
THEOREM PublicationIsAtomic == Spec => PublicationAtomic
PROOF
  <1>1. LifecycleInv /\ [Next]_vars => [Publishes]_vars
    <2> SUFFICES ASSUME LifecycleInv, Next PROVE Publishes
      OBVIOUS
    <2>1. ASSUME NEW src \in Threads, NEW dst \in Threads, Fork(src, dst)
          PROVE  Publishes
      BY <2>1 DEF Fork, Publishes, LifecycleInv, TypeOK
    <2>2. Rest => Publishes
      BY NothingPublished DEF Rest, vars, dbVars
    <2> QED
      BY <2>1, <2>2, TurnStepPublishes, DaemonStepPublishes DEF Next
  <1> QED BY <1>1, LifecycleInvariant, PTL DEF Spec, PublicationAtomic, Publishes

----------------------------------------------------------------------------
(* The histories of the threads have one commit per finished durable turn  *)

\* The durable turns of a thread that are FINISHED.
FinishedOn(th) == {t \in Durable : ThreadOf[t] = th /\ state[t] = "FINISHED"}

\* A step finishes one durable turn and appends one commit to the history of its
\* thread, or it leaves the history and the finished turns of the thread alone, or
\* it is a fork to a thread without a workspace.
CommitStep(th) ==
  \/ \E t \in Durable \ FinishedOn(th) :
       /\ th \in workspaces' /\ FinishedOn(th)' = FinishedOn(th) \cup {t}
       /\ Len(refs'[th]) = Len(refs[th]) + 1
  \/ FinishedOn(th)' = FinishedOn(th) /\ refs'[th] = refs[th]
  \/ FinishedOn(th)' = FinishedOn(th) /\ th \notin workspaces /\ th \in workspaces'

\* What the harness sees of a turn tells whether it is FINISHED.
LEMMA DoneIsFinished ==
  ASSUME NEW s \in TurnStates
  PROVE  /\ StatusOf(s) = "done" <=> s = "FINISHED"
         /\ StatusOf(s) \in {"new", "active", "done", "failed"}
PROOF
  BY StatusValues DEF TurnStates

\* A step that finishes no durable turn leaves the finished turns alone.
LEMMA SameFinished ==
  ASSUME TypeOK, TypeOK', NEW th \in Threads,
         \A u \in Durable : StatusOf(state'[u]) = "done" <=> StatusOf(state[u]) = "done"
  PROVE  FinishedOn(th)' = FinishedOn(th)
PROOF
  <1>1. \A u \in Durable : state'[u] = "FINISHED" <=> state[u] = "FINISHED"
    BY DoneIsFinished, ConstantsAssumption DEF TypeOK
  <1> QED BY <1>1 DEF FinishedOn

\* A durable turn that is active or done has made its thread own a workspace.
OwnersHaveWorkspace ==
  \A t \in Durable : StatusOf(state[t]) \in {"active", "done"} => ThreadOf[t] \in workspaces

\* Each step of the abstract specification is such a step, for every thread.
LEMMA HistoryStepCommits ==
  ASSUME TypeOK, TypeOK', HistoryStep, OwnersHaveWorkspace
  PROVE  OwnersHaveWorkspace' /\ \A th \in Threads : CommitStep(th)
PROOF
  <1> DEFINE st == [u \in Turns |-> StatusOf(state[u])]
  <1>0. \A u \in Turns : st[u] = StatusOf(state[u]) /\ st'[u] = StatusOf(state'[u])
    OBVIOUS
  <1>7. Durable \subseteq Turns /\ \A u \in Durable : ThreadOf[u] \in Threads
    BY ConstantsAssumption
  <1> SUFFICES ASSUME NEW th \in Threads PROVE OwnersHaveWorkspace' /\ CommitStep(th)
    BY <1>7 DEF OwnersHaveWorkspace
  <1>1. CASE UNCHANGED History!vars
    <2>1. st' = st /\ workspaces' = workspaces /\ refs' = refs
      BY <1>1 DEF History!vars
    <2>2. \A u \in Durable : StatusOf(state'[u]) = StatusOf(state[u])
      BY <1>0, <1>7, <2>1
    <2> QED BY <2>1, <2>2, SameFinished DEF OwnersHaveWorkspace, CommitStep
  <1>2. ASSUME NEW t \in Turns, History!Begin(t) PROVE OwnersHaveWorkspace' /\ CommitStep(th)
    <2>1. /\ st[t] = "new" /\ st' = [st EXCEPT ![t] = "active"] /\ refs' = refs
          /\ workspaces' = IF t \in Durable THEN workspaces \cup {ThreadOf[t]} ELSE workspaces
      BY <1>2 DEF History!Begin
    <2>2. \A u \in Durable : st'[u] = IF u = t THEN "active" ELSE st[u]
      BY <1>7, <2>1
    <2>3. FinishedOn(th)' = FinishedOn(th)
      BY <1>0, <1>7, <2>1, <2>2, SameFinished
    <2>4. OwnersHaveWorkspace'
      BY <1>0, <1>7, <2>1, <2>2 DEF OwnersHaveWorkspace
    <2> QED BY <2>1, <2>3, <2>4 DEF CommitStep
  <1>3. ASSUME NEW t \in Turns, History!Publish(t) PROVE OwnersHaveWorkspace' /\ CommitStep(th)
    <2>1. /\ t \in Durable /\ st[t] = "active" /\ st' = [st EXCEPT ![t] = "done"]
          /\ workspaces' = workspaces
      BY <1>3 DEF History!Publish
    <2>2. PICK tree \in Trees : refs' = [refs EXCEPT ![ThreadOf[t]] = Append(refs[ThreadOf[t]], tree)]
      BY <1>3 DEF History!Publish
    <2>3. \A u \in Durable : st'[u] = IF u = t THEN "done" ELSE st[u]
      BY <1>7, <2>1
    <2>4. OwnersHaveWorkspace'
      BY <1>0, <1>7, <2>1, <2>3 DEF OwnersHaveWorkspace
    <2>5. \A u \in Durable : /\ state'[u] = "FINISHED" <=> st'[u] = "done"
                             /\ state[u] = "FINISHED" <=> st[u] = "done"
      BY <1>0, <1>7, DoneIsFinished DEF TypeOK
    <2>8. \A u \in Durable : state'[u] = "FINISHED" <=> u = t \/ state[u] = "FINISHED"
      BY <2>3, <2>5
    <2>9. t \in Durable /\ state[t] # "FINISHED"
      BY <2>1, <2>5
    <2>6. CASE ThreadOf[t] = th
      <3>1. FinishedOn(th)' = FinishedOn(th) \cup {t} /\ t \notin FinishedOn(th)
        BY <2>8, <2>9, <2>6 DEF FinishedOn
      <3>2. refs'[th] = Append(refs[th], tree) /\ refs[th] \in Seq(Trees)
        BY <2>2, <2>6 DEF TypeOK
      <3>3. Len(refs'[th]) = Len(refs[th]) + 1
        BY <3>2
      <3>4. th \in workspaces'
        BY <1>0, <1>7, <2>1, <2>6 DEF OwnersHaveWorkspace
      <3> QED BY <2>1, <2>4, <3>1, <3>3, <3>4 DEF CommitStep
    <2>7. CASE ThreadOf[t] # th
      <3>1. FinishedOn(th)' = FinishedOn(th)
        BY <2>8, <2>7 DEF FinishedOn
      <3>2. refs'[th] = refs[th]
        BY <2>2, <2>7 DEF TypeOK
      <3> QED BY <2>4, <3>1, <3>2 DEF CommitStep
    <2> QED BY <2>6, <2>7
  <1>4. ASSUME NEW t \in Turns, History!Discard(t) PROVE OwnersHaveWorkspace' /\ CommitStep(th)
    <2>1. /\ t \notin Durable /\ st' = [st EXCEPT ![t] = "done"]
          /\ workspaces' = workspaces /\ refs' = refs
      BY <1>4 DEF History!Discard
    <2>2. \A u \in Durable : st'[u] = st[u]
      BY <1>7, <2>1
    <2> QED BY <1>0, <1>7, <2>1, <2>2, SameFinished DEF OwnersHaveWorkspace, CommitStep
  <1>5. ASSUME NEW S \in SUBSET Turns, History!Fail(S) PROVE OwnersHaveWorkspace' /\ CommitStep(th)
    <2>1. /\ \A u \in S : st[u] = "active"
          /\ st' = [u \in Turns |-> IF u \in S THEN "failed" ELSE st[u]]
          /\ workspaces' = workspaces /\ refs' = refs
      BY <1>5 DEF History!Fail, History!ActiveTurns
    <2>2. \A u \in Durable : st'[u] = IF u \in S THEN "failed" ELSE st[u]
      BY <1>7, <2>1
    <2>3. FinishedOn(th)' = FinishedOn(th)
      BY <1>0, <1>7, <2>1, <2>2, SameFinished
    <2> QED BY <1>0, <1>7, <2>1, <2>2, <2>3 DEF OwnersHaveWorkspace, CommitStep
  <1>6. ASSUME NEW src \in Threads, NEW dst \in Threads, History!Fork(src, dst)
        PROVE  OwnersHaveWorkspace' /\ CommitStep(th)
    <2>1. /\ st' = st /\ dst \notin workspaces /\ workspaces' = workspaces \cup {dst}
      BY <1>6 DEF History!Fork
    <2>2. th # dst => refs'[th] = refs[th]
      BY <1>6 DEF History!Fork, TypeOK
    <2>3. \A u \in Durable : StatusOf(state'[u]) = StatusOf(state[u])
      BY <1>0, <1>7, <2>1
    <2>4. FinishedOn(th)' = FinishedOn(th)
      BY <2>3, SameFinished
    <2> QED BY <2>1, <2>2, <2>3, <2>4 DEF OwnersHaveWorkspace, CommitStep
  <1> QED BY <1>1, <1>2, <1>3, <1>4, <1>5, <1>6 DEF HistoryStep, History!Next

\* Every finished durable turn has its commit in the history of its thread, forks
\* included: a history is at least as long as the turns that extended it.
HistoryCoversTurns ==
  \A th \in Threads :
    /\ Cardinality(FinishedOn(th)) <= Len(refs[th])
    /\ th \notin workspaces => FinishedOn(th) = {}

\* One more finished turn is one more in number.
LEMMA OneMore ==
  ASSUME IsFiniteSet(Turns), NEW th \in Threads
  PROVE  /\ IsFiniteSet(FinishedOn(th)) /\ Cardinality(FinishedOn(th)) \in Nat
         /\ \A t \in Durable \ FinishedOn(th) :
              Cardinality(FinishedOn(th) \cup {t}) = Cardinality(FinishedOn(th)) + 1
PROOF
  <1>1. FinishedOn(th) \in SUBSET Turns
    BY ConstantsAssumption DEF FinishedOn
  <1>2. IsFiniteSet(FinishedOn(th))
    BY <1>1, FS_Subset
  <1> QED BY <1>2, FS_CardinalityType, FS_AddElement

\* No history loses the commit of a finished durable turn, whatever forks, crashes
\* and shutdowns come between (turn-service.ts, publishTurnCommit).
THEOREM HistoriesCoverTurns ==
  ASSUME IsFiniteSet(Turns)
  PROVE  Spec => []HistoryCoversTurns
PROOF
  <1>1. Init => OwnersHaveWorkspace /\ HistoryCoversTurns
    <2> SUFFICES ASSUME Init PROVE OwnersHaveWorkspace /\ HistoryCoversTurns
      OBVIOUS
    <2>1. \A t \in Durable : StatusOf(state[t]) = "new"
      BY StatusValues, ConstantsAssumption DEF Init
    <2>2. \A th \in Threads : FinishedOn(th) = {} /\ Len(refs[th]) = 0
      BY ConstantsAssumption DEF Init, FinishedOn
    <2>3. \A th \in Threads : Cardinality(FinishedOn(th)) = 0
      BY <2>2, FS_EmptySet
    <2> QED BY <2>1, <2>2, <2>3 DEF OwnersHaveWorkspace, HistoryCoversTurns
  <1>2. LifecycleInv /\ OwnersHaveWorkspace /\ HistoryCoversTurns /\ [Next]_vars
          => (OwnersHaveWorkspace /\ HistoryCoversTurns)'
    <2> SUFFICES ASSUME LifecycleInv, OwnersHaveWorkspace, HistoryCoversTurns, [Next]_vars
                 PROVE  OwnersHaveWorkspace' /\ HistoryCoversTurns'
      OBVIOUS
    <2>1. TypeOK /\ TypeOK' /\ HistoryStep
      BY NextSeen, InvStep DEF HistoryStep, LifecycleInv
    <2>2. OwnersHaveWorkspace' /\ \A th \in Threads : CommitStep(th)
      BY <2>1, HistoryStepCommits
    <2>3. ASSUME NEW th \in Threads
          PROVE  /\ Cardinality(FinishedOn(th)') <= Len(refs'[th])
                 /\ th \notin workspaces' => FinishedOn(th)' = {}
      <3>1. Len(refs[th]) \in Nat /\ Len(refs'[th]) \in Nat
        BY <2>1 DEF TypeOK
      <3>2. CASE \E t \in Durable \ FinishedOn(th) :
                   /\ th \in workspaces' /\ FinishedOn(th)' = FinishedOn(th) \cup {t}
                   /\ Len(refs'[th]) = Len(refs[th]) + 1
        BY <3>1, <3>2, OneMore DEF HistoryCoversTurns
      <3>3. CASE FinishedOn(th)' = FinishedOn(th) /\ refs'[th] = refs[th]
        <4>1. th \in workspaces => th \in workspaces'
          BY <2>1 DEF HistoryStep, History!Next, History!vars, History!Begin, History!Publish,
                      History!Discard, History!Fail, History!Fork
        <4> QED BY <3>3, <4>1 DEF HistoryCoversTurns
      <3>4. CASE FinishedOn(th)' = FinishedOn(th) /\ th \notin workspaces /\ th \in workspaces'
        <4>1. Cardinality(FinishedOn(th)') = 0
          BY <3>4, FS_EmptySet DEF HistoryCoversTurns
        <4> QED BY <3>1, <3>4, <4>1
      <3> QED BY <2>2, <3>2, <3>3, <3>4 DEF CommitStep
    <2> QED BY <2>2, <2>3 DEF HistoryCoversTurns
  <1> QED BY <1>1, <1>2, LifecycleInvariant, PTL DEF Spec

\* Only start() and fork() make a thread own a workspace.
LEMMA WorkspacesKept ==
  ASSUME Next, \A t \in Turns : ~Start(t), \A src, dst \in Threads : ~Fork(src, dst)
  PROVE  workspaces' = workspaces
PROOF
  <1> USE DEF dbVars
  <1>1. ASSUME NEW t \in Turns, StartStep(t) PROVE workspaces' = workspaces
    BY <1>1 DEF StartStep, Provision, StartRefused, RuntimeCreated, CreateFails, RecordHandle, OpenTurn
  <1>2. ASSUME NEW t \in Turns, CallStep(t) PROVE workspaces' = workspaces
    BY <1>2 DEF CallStep, Acquire, Release, ToolExec, ShellEnded, Abandon, ReapExpired, ToolWrite, ShellWrite
  <1>3. ASSUME NEW t \in Turns, Finish(t) \/ FinishStep(t) PROVE workspaces' = workspaces
    BY <1>3 DEF Finish, FinishStep, LeasesDrained, SessionsClosed, SessionsStuck, BeginCommit, SnapshotTaken,
                SnapshotFails, Publish, BeginDelete, RuntimeDestroyed, DeleteDone, DeleteFails, CommitFails
  <1>4. Crash \/ Boot \/ Close \/ Rest => workspaces' = workspaces
    BY DEF Crash, Boot, Close, Rest, vars
  <1>5. RecoverStep \/ CloseStep \/ CleanupStep => workspaces' = workspaces
    BY DEF RecoverStep, ListInterrupted, Recovered, Interrupt, InterruptFails, CloseStep, StartsSettled,
           CloseFinish, FinishesSettled, CloseSweep, CloseService, Exit, CleanupStep, CleanupFinished, CleanupFails
  <1> QED BY <1>1, <1>2, <1>3, <1>4, <1>5 DEF Next

\* Without a fork a history has as many commits as durable turns of its thread are
\* FINISHED: none is lost, published twice or published by a turn that failed.
THEOREM OneCommitPerFinishedTurn ==
  ASSUME IsFiniteSet(Turns)
  PROVE  Spec /\ [][\A src, dst \in Threads : ~Fork(src, dst)]_vars => []OneCommitPerTurn
PROOF
  <1> DEFINE NoFork == \A src, dst \in Threads : ~Fork(src, dst)
  <1> DEFINE Counted == \A th \in Threads : Len(refs[th]) = Cardinality(FinishedOn(th))
  <1>1. Init => OwnersHaveWorkspace /\ Counted
    <2> SUFFICES ASSUME Init PROVE OwnersHaveWorkspace /\ Counted
      OBVIOUS
    <2>1. \A t \in Durable : StatusOf(state[t]) = "new"
      BY StatusValues, ConstantsAssumption DEF Init
    <2>2. \A th \in Threads : FinishedOn(th) = {} /\ Len(refs[th]) = 0
      BY ConstantsAssumption DEF Init, FinishedOn
    <2> QED BY <2>1, <2>2, FS_EmptySet DEF OwnersHaveWorkspace
  <1>2. LifecycleInv /\ OwnersHaveWorkspace /\ Counted /\ [Next]_vars /\ [NoFork]_vars
          => (OwnersHaveWorkspace /\ Counted)'
    <2> SUFFICES ASSUME LifecycleInv, OwnersHaveWorkspace, Counted, [Next]_vars, [NoFork]_vars
                 PROVE  OwnersHaveWorkspace' /\ Counted'
      OBVIOUS
    <2>1. TypeOK /\ TypeOK' /\ HistoryStep
      BY NextSeen, InvStep DEF HistoryStep, LifecycleInv
    <2>2. OwnersHaveWorkspace' /\ \A th \in Threads : CommitStep(th)
      BY <2>1, HistoryStepCommits
    <2>3. refs' = refs \/ workspaces' = workspaces
      <3>1. CASE UNCHANGED vars
        BY <3>1 DEF vars, dbVars
      <3>2. CASE Next /\ NoFork
        BY <3>2, WorkspacesKept DEF Start
      <3> QED BY <3>1, <3>2
    <2>4. ASSUME NEW th \in Threads PROVE Len(refs'[th]) = Cardinality(FinishedOn(th)')
      BY <2>2, <2>3, OneMore DEF CommitStep
    <2> QED BY <2>2, <2>4
  <1>3. Counted => OneCommitPerTurn
    BY DEF FinishedOn, OneCommitPerTurn
  <1> QED BY <1>1, <1>2, <1>3, LifecycleInvariant, PTL DEF Spec
=============================================================================

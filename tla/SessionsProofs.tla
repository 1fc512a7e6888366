--------------------------- MODULE SessionsProofs ---------------------------
(***************************************************************************)
(* Theorems about Sessions, for every set of calls and instances and every *)
(* capacity.                                                               *)
(*                                                                         *)
(* CommandsKnown is not inductive: while closeInstance works through its   *)
(* list, a command that runs must also be on what is left of the list,     *)
(* which in turn needs that no call of the instance is in flight.  The     *)
(* invariant SessionsInv says so; one lemma per action shows that it is    *)
(* kept, most of them from the frame lemmas.                               *)
(***************************************************************************)
EXTENDS Sessions, TLAPS

\* A call in flight belongs to a turn that has not begun to close, and is
\* about a session of its own instance.
CallsInv ==
  \A c \in Calls : pc[c] \in Waiting =>
    /\ closePc[At[c]] \in {"open", "draining"}
    /\ sid[c] \in Calls
    /\ At[sid[c]] = At[c]

\* The state of an instance follows the progress of its finish.
CloseInv ==
  \A i \in Instances :
    /\ closePc[i] \in {"open", "draining", "next", "kill", "poll", "failed"} => Usable(i)
    /\ closePc[i] = "closed" => inst[i] = "READY"
    /\ closePc[i] = "committing" => inst[i] = "COMMITTING"
    /\ closePc[i] = "gone" => inst[i] = "TERMINATED"
    /\ closePc[i] = "kill" => killed[i] \in {0, 1}
    /\ closePc[i] \in {"kill", "poll"} => ending[i] \in SessionsOf(i)
    /\ toClose[i] \subseteq SessionsOf(i)

\* A command that runs is known, and closeInstance still has it before it.
RunsInv ==
  \A s \in Calls : Runs(s) /\ At[s] \notin broken =>
    /\ s \in sessions \cap active \cap recorded
    /\ closePc[At[s]] \in {"open", "draining", "next", "kill", "poll"}
    /\ closePc[At[s]] \in {"next", "kill", "poll"} =>
         \/ s \in toClose[At[s]]
         \/ closePc[At[s]] = "kill" /\ ending[At[s]] = s

\* A call on a session comes after the answer of its exec(), and when kill()
\* polls, the command has ended.
KillsInv ==
  \A c \in Calls : pc[c] \in Waiting /\ op[c] # "exec" =>
    /\ pc[c] # "exec"
    /\ pc[c] = "writing" => op[c] # "kill"
    /\ pc[sid[c]] = "done"
    /\ pc[c] = "polling" /\ op[c] = "kill" /\ At[c] \notin broken => ~Runs(sid[c])

SessionsInv == TypeOK /\ CallsInv /\ CloseInv /\ RunsInv /\ KillsInv

----------------------------------------------------------------------------
(* frame lemmas: what an action may change without harm                    *)

LEMMA CallsFrame ==
  ASSUME CallsInv, UNCHANGED <<sid, closePc>>,
         \A c \in Calls : pc'[c] \in Waiting => pc[c] \in Waiting
  PROVE  CallsInv'
BY DEF CallsInv, Waiting

LEMMA CloseFrame ==
  ASSUME CloseInv, UNCHANGED <<closePc, inst, killed, ending, toClose>>
  PROVE  CloseInv'
BY DEF CloseInv, Usable, SessionsOf

\* setInstanceState() of SessionManager, before the instance closes.
LEMMA ReadyFrame ==
  ASSUME TypeOK, CloseInv, UNCHANGED <<closePc, killed, ending, toClose>>,
         NEW i \in Instances, closePc[i] \in {"open", "draining"},
         NEW v \in {"READY", "RUNNING"}, inst' = [inst EXCEPT ![i] = v]
  PROVE  CloseInv'
BY DEF TypeOK, CloseInv, Usable, SessionsOf

LEMMA RunsFrame ==
  ASSUME RunsInv, UNCHANGED <<closePc, toClose, ending>>, broken \subseteq broken',
         \A s \in Calls : Runs(s)' /\ At[s] \notin broken' =>
           /\ Runs(s)
           /\ s \in sessions \cap active \cap recorded
              => s \in (sessions \cap active \cap recorded)'
  PROVE  RunsInv'
BY DEF RunsInv

LEMMA KillsFrame ==
  ASSUME CallsInv, KillsInv, UNCHANGED <<op, sid>>, broken \subseteq broken',
         \A c \in Calls : pc'[c] \in Waiting =>
           /\ pc[c] \in Waiting
           /\ pc'[c] = "exec" => pc[c] = "exec"
           /\ pc'[c] = "writing" => pc[c] = "writing" \/ op[c] # "kill"
           /\ pc'[c] = "polling" /\ op[c] = "kill" =>
                pc[c] = "polling" \/ At[c] \in broken \/ ~Runs(sid[c])',
         \A c \in Calls : pc[c] = "done" =>
           /\ pc'[c] = "done"
           /\ Runs(c)' => Runs(c)
  PROVE  KillsInv'
BY DEF CallsInv, KillsInv

\* What kill() of a backend does: nothing, or the command of s ends; and it
\* fails only on a lost connection.
LEMMA KillEffect ==
  ASSUME TypeOK, RunsInv, NEW s \in Calls, NEW answer \in KillAnswers, BackendKill(s, answer)
  PROVE  /\ recorded' \in SUBSET Calls
         /\ proc' \in [Calls -> {"none", "up", "orphan", "ended"}]
         /\ Runs(s)' => Runs(s) /\ At[s] \in broken
         /\ \A r \in Calls \ {s} : proc'[r] = proc[r] /\ (r \in recorded' <=> r \in recorded)
         /\ answer = "error" => At[s] \in broken
<1>1. CASE s \notin recorded
  BY <1>1 DEF BackendKill, TypeOK, RunsInv, Runs
<1>2. CASE s \in recorded /\ At[s] \in broken
  BY <1>2 DEF BackendKill, TypeOK, Runs
<1>3. CASE s \in recorded /\ At[s] \notin broken
  BY <1>3 DEF BackendKill, TypeOK, Runs
<1> QED  BY <1>1, <1>2, <1>3

\* The session of a call in flight.
LEMMA CallOf ==
  ASSUME TypeOK, CallsInv, NEW c \in Calls, pc[c] \in Waiting
  PROVE  /\ sid[c] \in Calls
         /\ At[c] \in Instances
         /\ At[sid[c]] = At[c]
         /\ closePc[At[c]] \in {"open", "draining"}
BY SessionConstants DEF CallsInv

----------------------------------------------------------------------------
(* the guest                                                               *)

LEMMA GuestKeeps ==
  ASSUME SessionsInv, NEW s \in Calls,
         \/ WriteBlocks(s) \/ CommandEnds(s) \/ ShellEnds(s)
         \/ OrphanEnds(s) \/ PollJoins(s) \/ KillJoins(s)
  PROVE  SessionsInv'
<1> USE SessionConstants DEF SessionsInv, callVars, managerVars, closeVars
<1>1. TypeOK'
  <2>1. CommandEnds(s) => TypeOK'
    BY DEF TypeOK, CommandEnds
  <2>2. ShellEnds(s) => TypeOK'
    BY DEF TypeOK, ShellEnds
  <2>3. OrphanEnds(s) => TypeOK'
    BY DEF TypeOK, OrphanEnds
  <2>4. PollJoins(s) => TypeOK'
    BY DEF TypeOK, PollJoins
  <2>5. KillJoins(s) => TypeOK'
    BY DEF TypeOK, KillJoins
  <2>6. WriteBlocks(s) => TypeOK'
    BY DEF TypeOK, WriteBlocks
  <2> QED  BY <2>1, <2>2, <2>3, <2>4, <2>5, <2>6
<1>2. CallsInv' /\ CloseInv'
  BY CallsFrame, CloseFrame DEF WriteBlocks, CommandEnds, ShellEnds, OrphanEnds,
         PollJoins, KillJoins
<1>3. \A r \in Calls : Runs(r)' => Runs(r)
  BY DEF TypeOK, WriteBlocks, CommandEnds, ShellEnds, OrphanEnds,
         PollJoins, KillJoins, Runs
<1>4. RunsInv'
  BY <1>3, RunsFrame DEF WriteBlocks, CommandEnds, ShellEnds, OrphanEnds,
         PollJoins, KillJoins
<1>5. KillsInv'
  BY <1>3, KillsFrame DEF WriteBlocks, CommandEnds, ShellEnds, OrphanEnds,
         PollJoins, KillJoins
<1> QED  BY <1>1, <1>2, <1>4, <1>5

LEMMA FaultKeeps ==
  ASSUME SessionsInv, NEW i \in Instances, ConnectionBreaks(i) \/ DiskFills(i)
  PROVE  SessionsInv'
<1> USE DEF SessionsInv, callVars, managerVars, closeVars
<1>1. TypeOK'
  BY DEF TypeOK, ConnectionBreaks, DiskFills
<1>2. CallsInv' /\ CloseInv'
  BY CallsFrame, CloseFrame DEF ConnectionBreaks, DiskFills
<1>3. RunsInv'
  BY RunsFrame DEF ConnectionBreaks, DiskFills, Runs
<1>4. KillsInv'
  BY KillsFrame DEF ConnectionBreaks, DiskFills, Runs
<1> QED  BY <1>1, <1>2, <1>3, <1>4

LEMMA TimeKeeps ==
  ASSUME SessionsInv, NEW s \in Calls, Expire(s) \/ Reap(s)
  PROVE  SessionsInv'
<1> USE DEF SessionsInv, callVars, managerVars, closeVars, guestVars
<1>1. TypeOK'
  BY DEF TypeOK, Expire, Reap
<1>2. CallsInv' /\ CloseInv'
  BY CallsFrame, CloseFrame DEF Expire, Reap
<1>3. RunsInv'
  BY RunsFrame DEF Expire, Reap, Runs
<1>4. KillsInv'
  BY KillsFrame DEF Expire, Reap, Runs
<1> QED  BY <1>1, <1>2, <1>3, <1>4

LEMMA ReapKilledKeeps ==
  ASSUME SessionsInv, NEW s \in Calls, ReapKilled(s)
  PROVE  SessionsInv'
<1> USE DEF SessionsInv, callVars, closeVars
<1>1. PICK answer \in KillAnswers : BackendKill(s, answer)
  BY DEF ReapKilled
<1>2. TypeOK'
  BY <1>1, KillEffect DEF TypeOK, ReapKilled
<1>3. CallsInv' /\ CloseInv'
  BY CallsFrame, CloseFrame DEF ReapKilled
<1>4. \A r \in Calls : Runs(r)' /\ At[r] \notin broken =>
        Runs(r) /\ r # s /\ (r \in recorded <=> r \in recorded')
  BY <1>1, KillEffect DEF Runs
<1>5. RunsInv'
  BY <1>4, RunsFrame DEF ReapKilled
<1>6. KillsInv'
  <2>1. \A r \in Calls : Runs(r)' => Runs(r)
    BY <1>1, KillEffect DEF Runs
  <2> QED  BY <2>1, KillsFrame DEF ReapKilled
<1> QED  BY <1>2, <1>3, <1>5, <1>6

----------------------------------------------------------------------------
(* shell calls                                                             *)

\* Leaving the chain of a session keeps the chains sequences of calls.
LEMMA LeaveType ==
  ASSUME TypeOK, NEW c \in Calls, sid[c] \in Calls, Leave(c)
  PROVE  queue' \in [Calls -> Seq(Calls)]
<1>1. queue[sid[c]] \in Seq(Calls)
  BY DEF TypeOK
<1>2. queue[sid[c]] # <<>> => Tail(queue[sid[c]]) \in Seq(Calls)
  BY <1>1
<1> QED  BY <1>1, <1>2 DEF TypeOK, Leave

LEMMA EntryKeeps ==
  ASSUME SessionsInv, NEW c \in Calls, NEW s \in Calls, NEW o \in Ops,
         Exec(c) \/ Call(c, s, o)
  PROVE  SessionsInv'
<1> USE SessionConstants DEF SessionsInv, closeVars, guestVars
<1>1. Exec(c) => TypeOK'
  BY DEF TypeOK, Exec, Waiting, Ops
<1>2. Call(c, s, o) => TypeOK'
  <2> SUFFICES ASSUME Call(c, s, o) PROVE TypeOK'
    OBVIOUS
  <2>1. queue' \in [Calls -> Seq(Calls)]
    <3>1. Append(queue[s], c) \in Seq(Calls)
      BY DEF TypeOK
    <3>2. queue' = queue \/ queue' = [queue EXCEPT ![s] = Append(queue[s], c)]
      BY DEF Call
    <3>3. queue \in [Calls -> Seq(Calls)]
      BY DEF TypeOK
    <3> QED  BY <3>1, <3>2, <3>3
  <2>2. pc' \in [Calls -> Waiting \cup {"idle", "done"}]
    BY DEF TypeOK, Call, Return, Waiting
  <2>3. op' \in [Calls -> Ops \cup {"none"}] /\ sid' \in [Calls -> Calls \cup {none}]
    BY DEF TypeOK, Call
  <2> QED  BY <2>1, <2>2, <2>3 DEF TypeOK, Call
<1>3. Exec(c) => CallsInv'
  BY DEF TypeOK, CallsInv, Exec, Admitted, Waiting
<1>4. Call(c, s, o) => CallsInv'
  BY DEF TypeOK, CallsInv, Call, Admitted, Return, Waiting
<1>5. CloseInv'
  BY CloseFrame DEF Exec, Call
<1>6. Exec(c) => RunsInv'
  <2> SUFFICES ASSUME Exec(c) PROVE RunsInv'
    OBVIOUS
  <2>1. PICK kept \in SUBSET sessions : Reaped(kept) /\ sessions' = kept
    BY DEF Exec
  <2>2. sessions \cap active \subseteq sessions'
    BY <2>1 DEF Reaped
  <2> QED  BY <2>2, RunsFrame DEF Exec, Runs
<1>7. Call(c, s, o) => RunsInv'
  BY RunsFrame DEF Call, Runs
<1>8. KillsInv'
  <2>1. Exec(c) => KillsInv'
    BY DEF TypeOK, KillsInv, CallsInv, Exec, Admitted, Waiting, Runs
  <2>2. Call(c, s, o) => KillsInv'
    BY DEF TypeOK, KillsInv, CallsInv, Call, Admitted, Return, Waiting, Runs
  <2> QED  BY <2>1, <2>2
<1> QED  BY <1>1, <1>2, <1>3, <1>4, <1>5, <1>6, <1>7, <1>8

LEMMA ExecStartsKeeps ==
  ASSUME SessionsInv, NEW c \in Calls, ExecStarts(c)
  PROVE  SessionsInv'
<1> USE SessionConstants DEF SessionsInv, closeVars
<1>1. At[c] \in Instances /\ closePc[At[c]] \in {"open", "draining"}
  BY CallOf DEF ExecStarts, Waiting
<1>2. TypeOK'
  BY <1>1 DEF TypeOK, ExecStarts, Waiting
<1>3. CallsInv'
  BY CallsFrame DEF TypeOK, ExecStarts, Waiting
<1>4. CloseInv'
  BY <1>1, ReadyFrame DEF ExecStarts
<1>5. RunsInv'
  <2>1. \A s \in Calls \ {c} : Runs(s)' <=> Runs(s)
    BY DEF TypeOK, ExecStarts, Runs
  <2>2. c \in (sessions \cap active \cap recorded)'
    BY DEF ExecStarts
  <2> QED  BY <1>1, <2>1, <2>2 DEF RunsInv, ExecStarts
<1>6. KillsInv'
  <2>1. op[c] = "exec"
    BY DEF KillsInv, ExecStarts, Waiting
  <2>2. \A s \in Calls \ {c} : Runs(s)' <=> Runs(s)
    BY DEF TypeOK, ExecStarts, Runs
  <2> QED  BY <2>1, <2>2, KillsFrame DEF TypeOK, ExecStarts, Waiting
<1> QED  BY <1>2, <1>3, <1>4, <1>5, <1>6

LEMMA ExecFailsKeeps ==
  ASSUME SessionsInv, NEW c \in Calls, ExecRefused(c) \/ ExecFails(c) \/ ExecLost(c)
  PROVE  SessionsInv'
<1> USE SessionConstants DEF SessionsInv, managerVars, closeVars, guestVars, Return
<1>1. TypeOK'
  <2>1. ExecRefused(c) => TypeOK'
    BY DEF TypeOK, ExecRefused, Waiting
  <2>2. ExecFails(c) => TypeOK'
    BY DEF TypeOK, ExecFails, Waiting
  <2>3. ExecLost(c) => TypeOK'
    BY DEF TypeOK, ExecLost, Waiting
  <2> QED  BY <2>1, <2>2, <2>3
<1>2. CallsInv'
  BY CallsFrame DEF TypeOK, ExecRefused, ExecFails, ExecLost, Waiting
<1>3. CloseInv'
  BY CloseFrame DEF ExecRefused, ExecFails, ExecLost
<1>4. ExecRefused(c) => RunsInv'
  BY RunsFrame DEF ExecRefused, Runs
<1>5. ExecFails(c) => RunsInv'
  BY RunsFrame DEF ExecFails, Runs
<1>6. ExecLost(c) => RunsInv'
  BY RunsFrame DEF TypeOK, ExecLost, Runs
<1>7. KillsInv'
  <2>1. ExecRefused(c) => KillsInv'
    BY KillsFrame DEF TypeOK, ExecRefused, Waiting, Runs
  <2>2. ExecFails(c) => KillsInv'
    BY KillsFrame DEF TypeOK, ExecFails, Waiting, Runs
  <2>3. ExecLost(c) => KillsInv'
    BY KillsFrame DEF TypeOK, ExecLost, Waiting, Runs
  <2> QED  BY <2>1, <2>2, <2>3
<1> QED  BY <1>1, <1>2, <1>3, <1>4, <1>5, <1>6, <1>7

LEMMA WaitKeeps ==
  ASSUME SessionsInv, NEW c \in Calls, Run(c) \/ Written(c) \/ BlockedWritten(c)
  PROVE  SessionsInv'
<1> USE SessionConstants DEF SessionsInv, closeVars, guestVars
<1>1. TypeOK'
  <2>1. Run(c) => TypeOK'
    <3> SUFFICES ASSUME Run(c) PROVE TypeOK'
      OBVIOUS
    <3>1. sid[c] \in Calls
      BY CallOf DEF Run, Waiting
    <3>2. queue' \in [Calls -> Seq(Calls)]
      BY <3>1, LeaveType DEF TypeOK, Run
    <3>3. pc' \in [Calls -> Waiting \cup {"idle", "done"}]
      <4>1. CASE op[c] = "write" /\ sid[c] \notin Tty
        BY <4>1 DEF TypeOK, Run, Return
      <4>2. CASE ~(op[c] = "write" /\ sid[c] \notin Tty)
        <5>1. PICK w \in Waiting : pc' = [pc EXCEPT ![c] = w]
          BY <4>2 DEF Run, Waiting
        <5> QED  BY <5>1 DEF TypeOK
      <4> QED  BY <4>1, <4>2
    <3> QED  BY <3>2, <3>3 DEF TypeOK, Run
  <2>2. Written(c) => TypeOK'
    BY DEF TypeOK, Written, Waiting, managerVars
  <2>3. BlockedWritten(c) => TypeOK'
    BY DEF TypeOK, BlockedWritten, Waiting, managerVars
  <2> QED  BY <2>1, <2>2, <2>3
<1>2. CallsInv'
  BY CallsFrame DEF TypeOK, Run, Written, BlockedWritten, Return, Waiting
<1>3. CloseInv'
  BY CloseFrame DEF Run, Written, BlockedWritten
<1>4. RunsInv'
  BY RunsFrame DEF Run, Written, BlockedWritten, Runs, managerVars
<1>5. KillsInv'
  <2>1. Run(c) => KillsInv'
    BY KillsFrame DEF TypeOK, Run, Return, Waiting, Runs
  <2>2. Written(c) => KillsInv'
    BY KillsFrame DEF TypeOK, KillsInv, Written, Waiting, Runs
  <2>3. BlockedWritten(c) => KillsInv'
    BY KillsFrame DEF TypeOK, KillsInv, BlockedWritten, Waiting, Runs
  <2> QED  BY <2>1, <2>2, <2>3
<1> QED  BY <1>1, <1>2, <1>3, <1>4, <1>5

LEMMA KilledKeeps ==
  ASSUME SessionsInv, NEW c \in Calls, Killed(c)
  PROVE  SessionsInv'
<1> USE SessionConstants DEF SessionsInv, closeVars
<1>1. PICK answer \in KillAnswers :
        /\ BackendKill(sid[c], answer)
        /\ IF answer = "ok" THEN pc' = [pc EXCEPT ![c] = "polling"] /\ UNCHANGED queue
           ELSE IF op[c] = "kill" THEN Return(c) /\ Leave(c)
           ELSE pc' = [pc EXCEPT ![c] = "abandon"] /\ UNCHANGED queue
  BY DEF Killed
<1>2. sid[c] \in Calls
  BY CallOf DEF Killed, Waiting
<1>3. queue' \in [Calls -> Seq(Calls)] /\ pc' \in [Calls -> Waiting \cup {"idle", "done"}]
  BY <1>1, <1>2, LeaveType DEF TypeOK, Return, Waiting
<1>4. TypeOK'
  BY <1>1, <1>2, <1>3, KillEffect DEF TypeOK, Killed
<1>5. CallsInv'
  BY <1>1, CallsFrame DEF TypeOK, Killed, Return, Waiting
<1>6. CloseInv'
  BY CloseFrame DEF Killed
<1>7. \A r \in Calls : Runs(r)' /\ At[r] \notin broken =>
        Runs(r) /\ (r \in recorded <=> r \in recorded')
  BY <1>1, <1>2, KillEffect DEF Runs
<1>8. RunsInv'
  BY <1>7, RunsFrame DEF Killed
<1>9. KillsInv'
  <2>1. \A r \in Calls : Runs(r)' => Runs(r)
    BY <1>1, <1>2, KillEffect DEF Runs
  <2>2. Runs(sid[c])' => At[c] \in broken
    BY <1>1, <1>2, KillEffect, CallOf DEF Killed, Waiting
  <2>3. \A d \in Calls : /\ pc'[d] \in Waiting => pc[d] \in Waiting
                         /\ pc'[d] \notin {"exec", "writing"} \/ pc'[d] = pc[d]
                         /\ pc[d] = "done" => pc'[d] = "done"
                         /\ d # c => pc'[d] = pc[d]
    BY <1>1 DEF TypeOK, Killed, Return, Waiting
  <2> QED  BY <2>1, <2>2, <2>3, KillsFrame DEF Killed
<1> QED  BY <1>4, <1>5, <1>6, <1>8, <1>9

LEMMA AbandonKeeps ==
  ASSUME SessionsInv, NEW c \in Calls, Abandon(c)
  PROVE  SessionsInv'
<1> USE SessionConstants DEF SessionsInv, closeVars, End
<1>1. PICK answer \in KillAnswers : BackendKill(sid[c], answer)
  BY DEF Abandon
<1>2. /\ sid[c] \in Calls /\ At[sid[c]] = At[c] /\ At[c] \in Instances
      /\ closePc[At[c]] \in {"open", "draining"}
  BY CallOf DEF Abandon, Waiting
<1>3. queue' \in [Calls -> Seq(Calls)] /\ pc' \in [Calls -> Waiting \cup {"idle", "done"}]
  BY <1>2, LeaveType DEF TypeOK, Abandon, Return
<1>4. inst' = [inst EXCEPT ![At[c]] = "READY"]
  BY <1>2 DEF Abandon
<1>5. TypeOK'
  BY <1>1, <1>2, <1>3, <1>4, KillEffect DEF TypeOK, Abandon
<1>6. CallsInv'
  BY CallsFrame DEF TypeOK, Abandon, Return, Waiting
<1>7. CloseInv'
  BY <1>2, <1>4, ReadyFrame DEF Abandon
<1>8. \A r \in Calls : Runs(r)' /\ At[r] \notin broken =>
        Runs(r) /\ r # sid[c] /\ (r \in recorded <=> r \in recorded')
  BY <1>1, <1>2, KillEffect DEF Runs
<1>9. RunsInv'
  BY <1>8, RunsFrame DEF Abandon
<1>10. KillsInv'
  <2>1. \A r \in Calls : Runs(r)' => Runs(r)
    BY <1>1, <1>2, KillEffect DEF Runs
  <2> QED  BY <2>1, KillsFrame DEF TypeOK, Abandon, Return, Waiting
<1> QED  BY <1>5, <1>6, <1>7, <1>9, <1>10

\* A poll that reports the end of a command on a live connection tells the
\* truth, and one that reports anything else leaves the record RUNNING.
LEMMA PollEffect ==
  ASSUME TypeOK, NEW s \in Calls, NEW result \in PollResults(s), RecordPolled(s, result)
  PROVE  /\ result \in {"error", "RUNNING", "COMPLETED"}
         /\ recorded' \in SUBSET Calls
         /\ result = "COMPLETED" => proc[s] \notin {"up", "orphan"}
         /\ \A r \in Calls : r \in recorded /\ (Runs(r) \/ r # s) => r \in recorded'
<1>1. /\ result \in {"error", "RUNNING", "COMPLETED"}
      /\ result = "COMPLETED" => proc[s] \notin {"up", "orphan"}
  BY DEF PollResults
<1>2. CASE result = "error"
  BY <1>2 DEF RecordPolled, TypeOK
<1>3. CASE result = "RUNNING"
  BY <1>3 DEF RecordPolled, TypeOK
<1>4. CASE result = "COMPLETED"
  BY <1>1, <1>4 DEF RecordPolled, TypeOK, Runs
<1> QED  BY <1>1, <1>2, <1>3, <1>4

LEMMA PolledKeeps ==
  ASSUME SessionsInv, NEW c \in Calls, Polled(c)
  PROVE  SessionsInv'
<1> USE SessionConstants DEF SessionsInv, closeVars
<1> DEFINE s == sid[c]
<1>1. PICK result \in PollResults(s) :
        /\ RecordPolled(s, result)
        /\ IF result = "error" /\ op[c] # "kill"
           THEN pc' = [pc EXCEPT ![c] = "abandon"] /\ UNCHANGED <<queue, active, inst>>
           ELSE /\ Return(c) /\ Leave(c)
                /\ IF result # "error" /\ (result = "COMPLETED" \/ op[c] = "kill" \/ s \notin active)
                   THEN End(s) ELSE UNCHANGED <<active, inst>>
  BY DEF Polled
<1>2. s \in Calls /\ At[s] \in Instances /\ closePc[At[s]] \in {"open", "draining"}
  BY CallOf DEF Polled, Waiting
<1>3. queue' \in [Calls -> Seq(Calls)] /\ pc' \in [Calls -> Waiting \cup {"idle", "done"}]
  <2>1. queue' = queue \/ Leave(c)
    BY <1>1
  <2>2. queue' \in [Calls -> Seq(Calls)]
    BY <1>2, <2>1, LeaveType DEF TypeOK
  <2>3. pc' = [pc EXCEPT ![c] = "abandon"] \/ pc' = [pc EXCEPT ![c] = "done"]
    BY <1>1 DEF Return
  <2>4. pc \in [Calls -> Waiting \cup {"idle", "done"}] /\ "abandon" \in Waiting
    BY DEF TypeOK, Waiting
  <2>5. pc' \in [Calls -> Waiting \cup {"idle", "done"}]
    BY ONLY <2>3, <2>4
  <2> QED  BY <2>2, <2>5
<1>4. recorded' \in SUBSET Calls
  BY <1>1, <1>2, PollEffect
<1>5. \/ UNCHANGED <<active, inst>>
      \/ active' = active \ {s} /\ inst' = [inst EXCEPT ![At[s]] = "READY"]
  BY <1>1 DEF End
<1>6. TypeOK'
  <2>1. CASE UNCHANGED <<active, inst>>
    BY <1>3, <1>4, <2>1 DEF TypeOK, Polled
  <2>2. CASE active' = active \ {s} /\ inst' = [inst EXCEPT ![At[s]] = "READY"]
    BY <1>2, <1>3, <1>4, <2>2 DEF TypeOK, Polled
  <2> QED  BY <1>5, <2>1, <2>2
<1>7. CallsInv'
  BY <1>1, CallsFrame DEF TypeOK, Polled, Return, Waiting
<1>8. CloseInv'
  BY <1>2, <1>5, CloseFrame, ReadyFrame DEF Polled
<1>9. RunsInv'
  <2>1. active' # active /\ At[s] \notin broken => ~Runs(s)
    <3> SUFFICES ASSUME active' # active, At[s] \notin broken PROVE ~Runs(s)
      OBVIOUS
    <3>1. s \in active
      BY <1>5
    <3>2. result = "COMPLETED" \/ op[c] = "kill"
      BY <1>1, <3>1
    <3>3. CASE result = "COMPLETED"
      BY <1>1, <1>2, <3>3, PollEffect DEF Runs
    <3>4. CASE op[c] = "kill"
      BY <3>4, CallOf DEF KillsInv, Polled, Waiting
    <3> QED  BY <3>2, <3>3, <3>4
  <2>2. CASE active' = active
    <3>1. UNCHANGED <<closePc, toClose, ending, broken, sessions, proc>>
      BY DEF Polled
    <3>2. \A r \in Calls : Runs(r) /\ At[r] \notin broken /\ r \in recorded => r \in recorded'
      BY <1>1, <1>2, PollEffect
    <3> QED  BY <2>2, <3>1, <3>2, RunsFrame DEF RunsInv, Runs
  <2>3. CASE active' # active
    BY <1>1, <1>2, <1>5, <2>1, <2>3, PollEffect, RunsFrame DEF Polled, Runs
  <2> QED  BY <2>2, <2>3
<1>10. KillsInv'
  BY <1>1, KillsFrame DEF TypeOK, Polled, Return, Waiting, Runs
<1> QED  BY <1>6, <1>7, <1>8, <1>9, <1>10

----------------------------------------------------------------------------
(* finish                                                                  *)

\* Once the calls are drained, they stay so.
LEMMA ClosingKeepsCalls ==
  ASSUME TypeOK, CallsInv, UNCHANGED callVars, NEW i \in Instances,
         closePc[i] \in {"open", "draining"} =>
           closePc'[i] = "draining" \/ InFlight(i) = {},
         \A k \in Instances \ {i} : closePc'[k] = closePc[k]
  PROVE  CallsInv'
BY SessionConstants DEF CallsInv, callVars, InFlight, SessionsOf

\* The steps of finish leave the calls alone and start no command.
LEMMA ClosingKeepsKills ==
  ASSUME CallsInv, KillsInv, UNCHANGED <<callVars, broken>>,
         \A s \in Calls : Runs(s)' => Runs(s)
  PROVE  KillsInv'
BY KillsFrame DEF callVars

LEMMA FinishKeeps ==
  ASSUME SessionsInv, NEW i \in Instances, Finish(i) \/ BeginClose(i)
  PROVE  SessionsInv'
<1> USE SessionConstants DEF SessionsInv, callVars, guestVars
<1>1. TypeOK'
  <2>1. Finish(i) => TypeOK'
    BY DEF TypeOK, Finish, ClosePcs, managerVars
  <2>2. BeginClose(i) => TypeOK'
    BY DEF TypeOK, BeginClose, ClosePcs, SessionsOf
  <2> QED  BY <2>1, <2>2
<1>2. CallsInv'
  BY ClosingKeepsCalls DEF TypeOK, Finish, BeginClose
<1>3. CloseInv'
  BY DEF TypeOK, CloseInv, Finish, BeginClose, Usable, SessionsOf
<1>4. Finish(i) => RunsInv'
  BY DEF TypeOK, RunsInv, Finish, Runs, managerVars
<1>5. BeginClose(i) => RunsInv'
  BY DEF TypeOK, RunsInv, BeginClose, Runs, SessionsOf
<1>6. KillsInv'
  BY ClosingKeepsKills DEF Finish, BeginClose, Runs
<1> QED  BY <1>1, <1>2, <1>3, <1>4, <1>5, <1>6

LEMMA CloseNextKeeps ==
  ASSUME SessionsInv, NEW i \in Instances, NEW s \in Calls, CloseNext(i, s)
  PROVE  SessionsInv'
<1> USE SessionConstants DEF SessionsInv, callVars, guestVars
<1>0. At[s] = i
  BY DEF CloseInv, CloseNext, SessionsOf
<1>1. TypeOK'
  BY DEF TypeOK, CloseNext, ClosePcs
<1>2. CallsInv'
  BY ClosingKeepsCalls DEF TypeOK, CloseNext
<1>3. CloseInv'
  BY <1>0 DEF TypeOK, CloseInv, CloseNext, Usable, SessionsOf
<1>4. RunsInv'
  BY <1>0 DEF TypeOK, RunsInv, CloseNext, Runs
<1>5. KillsInv'
  BY ClosingKeepsKills DEF CloseNext, Runs
<1> QED  BY <1>1, <1>2, <1>3, <1>4, <1>5

LEMMA CloseKilledKeeps ==
  ASSUME SessionsInv, NEW i \in Instances, CloseKilled(i)
  PROVE  SessionsInv'
<1> USE SessionConstants DEF SessionsInv, callVars, managerVars
<1>1. PICK answer \in KillAnswers :
        /\ BackendKill(ending[i], answer)
        /\ closePc' = [closePc EXCEPT ![i] = IF answer = "ok" THEN "poll" ELSE "next"]
        /\ failures' = IF answer = "ok" THEN failures ELSE failures \cup {i}
  BY DEF CloseKilled
<1>2. ending[i] \in Calls /\ At[ending[i]] = i /\ killed[i] \in {0, 1}
  BY DEF CloseInv, CloseKilled, SessionsOf
<1>3. TypeOK'
  BY <1>1, <1>2, KillEffect DEF TypeOK, CloseKilled, ClosePcs
<1>4. CallsInv'
  BY <1>1, ClosingKeepsCalls DEF TypeOK, CloseKilled
<1>5. CloseInv'
  BY <1>1, <1>2 DEF TypeOK, CloseInv, CloseKilled, Usable, SessionsOf
<1>6. \A r \in Calls : Runs(r)' =>
        Runs(r) /\ (At[r] \notin broken => r # ending[i] /\ (r \in recorded <=> r \in recorded'))
  BY <1>1, <1>2, KillEffect DEF Runs
<1>7. RunsInv'
  BY <1>1, <1>2, <1>6 DEF TypeOK, RunsInv, CloseKilled
<1>8. KillsInv'
  BY <1>6, ClosingKeepsKills DEF CloseKilled
<1> QED  BY <1>3, <1>4, <1>5, <1>7, <1>8

LEMMA ClosePolledKeeps ==
  ASSUME SessionsInv, NEW i \in Instances, ClosePolled(i)
  PROVE  SessionsInv'
<1> USE SessionConstants DEF SessionsInv, callVars
<1>1. PICK result \in PollResults(ending[i]) :
        /\ RecordPolled(ending[i], result)
        /\ active' = IF result = "COMPLETED" THEN active \ {ending[i]} ELSE active
        /\ closePc' = [closePc EXCEPT ![i] =
                         IF result = "RUNNING" /\ killed[i] = 1 THEN "kill" ELSE "next"]
        /\ failures' = IF result = "error" \/ (result = "RUNNING" /\ killed[i] = 2)
                       THEN failures \cup {i} ELSE failures
  BY DEF ClosePolled
<1>2. ending[i] \in Calls /\ At[ending[i]] = i
  BY DEF CloseInv, ClosePolled, SessionsOf
<1>3. recorded' \in SUBSET Calls
  BY <1>1, <1>2, PollEffect
<1>4. TypeOK'
  BY <1>1, <1>2, <1>3 DEF TypeOK, ClosePolled, ClosePcs
<1>5. CallsInv'
  BY <1>1, ClosingKeepsCalls DEF TypeOK, ClosePolled
<1>6. CloseInv'
  BY <1>1, <1>2 DEF TypeOK, CloseInv, ClosePolled, Usable, SessionsOf
<1>7. \A r \in Calls : Runs(r)' <=> Runs(r)
  BY DEF ClosePolled, Runs
<1>8. \A r \in Calls : Runs(r) /\ r \in active \cap recorded => r \in active' \cap recorded'
  BY <1>1, <1>2, PollEffect DEF Runs
<1>9. RunsInv'
  BY <1>1, <1>7, <1>8 DEF TypeOK, RunsInv, ClosePolled
<1>10. KillsInv'
  BY <1>7, ClosingKeepsKills DEF ClosePolled
<1> QED  BY <1>4, <1>5, <1>6, <1>9, <1>10

LEMMA CloseEndsKeeps ==
  ASSUME SessionsInv, NEW i \in Instances, CloseEnds(i) \/ BeginCommit(i)
  PROVE  SessionsInv'
<1> USE SessionConstants DEF SessionsInv, callVars, managerVars, guestVars
<1>1. TypeOK'
  <2>1. /\ UNCHANGED <<callVars, managerVars, toClose, ending, killed, failures, guestVars>>
        /\ \/ inst' = inst \/ inst' = [inst EXCEPT ![i] = "COMMITTING"]
           \/ inst' = [inst EXCEPT ![i] = IF @ = "RUNNING" THEN "READY" ELSE @]
    BY DEF CloseEnds, BeginCommit
  <2>2. closePc' \in [Instances -> ClosePcs]
    <3>1. CloseEnds(i) => closePc' \in [Instances -> ClosePcs]
      BY DEF TypeOK, CloseEnds, ClosePcs
    <3>2. BeginCommit(i) => closePc' \in [Instances -> ClosePcs]
      BY DEF TypeOK, BeginCommit, ClosePcs
    <3> QED  BY <3>1, <3>2
  <2>3. inst' \in [Instances -> {"READY", "RUNNING", "COMMITTING", "TERMINATED"}]
    <3>1. inst \in [Instances -> {"READY", "RUNNING", "COMMITTING", "TERMINATED"}] /\ i \in Instances
      BY DEF TypeOK
    <3>2. CASE inst' = inst \/ inst' = [inst EXCEPT ![i] = "COMMITTING"]
      BY ONLY <3>1, <3>2
    <3>3. CASE inst' = [inst EXCEPT ![i] = IF @ = "RUNNING" THEN "READY" ELSE @]
      BY ONLY <3>1, <3>3
    <3> QED  BY ONLY <2>1, <3>2, <3>3
  <2>4. /\ UNCHANGED <<op, sid, pc, sessions, active, expired, queue, reaping, closing>>
        /\ UNCHANGED <<toClose, ending, killed, failures, recorded, proc, stuck, broken, full>>
    BY ONLY <2>1 DEF callVars, managerVars, guestVars
  <2> QED  BY <2>2, <2>3, <2>4 DEF TypeOK
<1>2. CallsInv'
  BY ClosingKeepsCalls DEF TypeOK, CloseEnds, BeginCommit
<1>3. CloseInv'
  <2>1. CloseEnds(i) => CloseInv'
    BY DEF TypeOK, CloseInv, CloseEnds, Usable, SessionsOf
  <2>2. BeginCommit(i) => CloseInv'
    BY DEF TypeOK, CloseInv, BeginCommit, Usable, SessionsOf
  <2> QED  BY <2>1, <2>2
<1>4. RunsInv'
  <2>1. CloseEnds(i) => RunsInv'
    BY DEF TypeOK, RunsInv, CloseEnds, Runs
  <2>2. BeginCommit(i) => RunsInv'
    BY DEF TypeOK, RunsInv, BeginCommit, Runs
  <2> QED  BY <2>1, <2>2
<1>5. KillsInv'
  BY ClosingKeepsKills DEF CloseEnds, BeginCommit, Runs
<1> QED  BY <1>1, <1>2, <1>3, <1>4, <1>5

LEMMA DestroyKeeps ==
  ASSUME SessionsInv, NEW i \in Instances, Destroy(i)
  PROVE  SessionsInv'
<1> USE SessionConstants DEF SessionsInv, callVars, managerVars
<1>1. TypeOK'
  BY DEF TypeOK, Destroy, ClosePcs, SessionsOf, Runs
<1>2. CallsInv'
  BY ClosingKeepsCalls DEF TypeOK, Destroy
<1>3. CloseInv'
  BY DEF TypeOK, CloseInv, Destroy, Usable, SessionsOf
<1>4. \A s \in Calls : Runs(s)' => Runs(s) /\ At[s] # i
  BY DEF Destroy, Runs
<1>5. RunsInv'
  BY <1>4 DEF TypeOK, RunsInv, Destroy, SessionsOf
<1>6. KillsInv'
  BY <1>4, ClosingKeepsKills DEF Destroy
<1> QED  BY <1>1, <1>2, <1>3, <1>5, <1>6

LEMMA CloseManagerKeeps ==
  ASSUME SessionsInv, CloseManager
  PROVE  SessionsInv'
<1> USE SessionConstants DEF SessionsInv, callVars, closeVars, guestVars
<1>1. TypeOK'
  BY DEF TypeOK, CloseManager
<1>2. CallsInv' /\ CloseInv'
  BY CallsFrame, CloseFrame DEF CloseManager
<1>3. \A s \in Calls : Runs(s) => At[s] \in broken
  BY DEF RunsInv, CloseManager
<1>4. RunsInv'
  BY <1>3, RunsFrame DEF CloseManager, Runs
<1>5. KillsInv'
  BY KillsFrame DEF CloseManager, Runs
<1> QED  BY <1>1, <1>2, <1>4, <1>5

----------------------------------------------------------------------------
(* theorems                                                                *)

LEMMA InitSessions == Init => SessionsInv
BY DEF Init, SessionsInv, TypeOK, CallsInv, CloseInv, RunsInv, KillsInv,
       Waiting, ClosePcs, Usable, Runs, SessionsOf

LEMMA NextSessions == SessionsInv /\ [Next]_vars => SessionsInv'
<1> SUFFICES ASSUME SessionsInv, [Next]_vars PROVE SessionsInv'
  OBVIOUS
<1>1. CASE \E c \in Calls : Exec(c)
  BY <1>1, EntryKeeps DEF Ops
<1>2. CASE \E c \in Calls : CallStep(c) \/ WriteBlocks(c) \/ BlockedWritten(c)
  BY <1>2, ExecStartsKeeps, ExecFailsKeeps, WaitKeeps, KilledKeeps, PolledKeeps, AbandonKeeps, GuestKeeps
     DEF CallStep
<1>3. CASE \E c, s \in Calls, o \in Ops : Call(c, s, o)
  BY <1>3, EntryKeeps
<1>4. CASE \E s \in Calls :
             \/ CommandEnds(s) \/ ShellEnds(s) \/ OrphanEnds(s) \/ PollJoins(s) \/ KillJoins(s)
             \/ Expire(s) \/ Reap(s) \/ ReapKilled(s)
  BY <1>4, GuestKeeps, TimeKeeps, ReapKilledKeeps
<1>5. CASE \E i \in Instances : ConnectionBreaks(i) \/ DiskFills(i) \/ Finish(i)
  BY <1>5, FaultKeeps, FinishKeeps
<1>6. CASE \E i \in Instances : CloseStep(i)
  BY <1>6, FinishKeeps, CloseNextKeeps, CloseKilledKeeps, ClosePolledKeeps, CloseEndsKeeps,
     DestroyKeeps DEF CloseStep
<1>7. CASE CloseManager
  BY <1>7, CloseManagerKeeps
<1>8. CASE UNCHANGED vars
  <2>1. TypeOK'
    BY <1>8 DEF SessionsInv, TypeOK, vars, callVars, managerVars, closeVars, guestVars
  <2>2. CallsInv' /\ CloseInv' /\ RunsInv' /\ KillsInv'
    BY <1>8, CallsFrame, CloseFrame, RunsFrame, KillsFrame
       DEF SessionsInv, Runs, vars, callVars, managerVars, closeVars, guestVars
  <2> QED  BY <2>1, <2>2 DEF SessionsInv
<1> QED  BY <1>1, <1>2, <1>3, <1>4, <1>5, <1>6, <1>7, <1>8 DEF Next

LEMMA SessionsInvariant == Spec => []SessionsInv
<1> QED  BY InitSessions, NextSessions, PTL DEF Spec

\* Every variable keeps its type: the maps of SessionManager hold calls, and
\* closeInstance kills a session at most twice.
THEOREM SessionsTypeCorrect == Spec => []TypeOK
<1>1. SessionsInv => TypeOK
  BY DEF SessionsInv
<1> QED  BY <1>1, SessionsInvariant, PTL

\* Neither eviction, expiry, abandonment nor a kill beside a poll loses track
\* of a command that runs behind a live connection (session-manager.ts).
THEOREM CommandsStayKnown == Spec => []CommandsKnown
<1>1. SessionsInv => CommandsKnown
  BY DEF SessionsInv, RunsInv, CommandsKnown
<1> QED  BY <1>1, SessionsInvariant, PTL

\* When closeInstance() has returned, the snapshot that follows finds no call
\* and, behind a live connection, no command in the workspace.
THEOREM ClosedIsQuiet == Spec => []CloseQuiesces
<1>1. SessionsInv => CloseQuiesces
  BY SessionConstants DEF SessionsInv, CallsInv, CloseInv, RunsInv, CloseQuiesces, InFlight, SessionsOf
<1> QED  BY <1>1, SessionsInvariant, PTL

\* No late answer of a shell call overwrites the state of an instance that is
\* being committed or is gone.
THEOREM FinishOwnsTheState == Spec => FinishOwnsState
<1> DEFINE Owned ==
      \A i \in Instances :
        /\ inst[i] = "COMMITTING" => inst'[i] \in {"COMMITTING", "TERMINATED"}
        /\ inst[i] = "TERMINATED" => inst'[i] = "TERMINATED"
<1>1. SessionsInv /\ [Next]_vars => [Owned]_vars
  <2> SUFFICES ASSUME SessionsInv, Next PROVE Owned
    BY DEF vars
  <2> USE SessionConstants DEF SessionsInv
  <2>1. CASE \E c \in Calls : ExecStarts(c)
    <3>1. PICK c \in Calls : ExecStarts(c)
      BY <2>1
    <3>2. At[c] \in Instances /\ inst[At[c]] \in {"READY", "RUNNING"}
      BY <3>1, CallOf DEF ExecStarts, Waiting, CloseInv, Usable
    <3> QED  BY <3>1, <3>2 DEF TypeOK, ExecStarts
  <2>2. CASE \E c \in Calls : Polled(c) \/ Abandon(c)
    <3>1. PICK c \in Calls : Polled(c) \/ Abandon(c)
      BY <2>2
    <3>2. At[sid[c]] \in Instances /\ inst[At[sid[c]]] \in {"READY", "RUNNING"}
      BY <3>1, CallOf DEF Polled, Abandon, Waiting, CloseInv, Usable
    <3>3. inst' = inst \/ inst' = [inst EXCEPT ![At[sid[c]]] = "READY"]
      BY <3>1 DEF Polled, Abandon, End
    <3> QED  BY <3>2, <3>3 DEF TypeOK
  <2>3. CASE \E i \in Instances : CloseEnds(i) \/ BeginCommit(i) \/ Destroy(i)
    <3>1. PICK i \in Instances : CloseEnds(i) \/ BeginCommit(i) \/ Destroy(i)
      BY <2>3
    <3>2. \A k \in Instances \ {i} : inst'[k] = inst[k]
      BY <3>1 DEF TypeOK, CloseEnds, BeginCommit, Destroy
    <3>3. CASE CloseEnds(i) \/ BeginCommit(i)
      BY <3>2, <3>3 DEF TypeOK, CloseInv, Usable, CloseEnds, BeginCommit
    <3>4. CASE Destroy(i)
      BY <3>2, <3>4 DEF TypeOK, Destroy
    <3> QED  BY <3>1, <3>3, <3>4
  <2>4. CASE inst' = inst
    BY <2>4
  <2> QED  BY <2>1, <2>2, <2>3, <2>4 DEF Next, CallStep, CloseStep, Exec, ExecRefused, ExecFails, ExecLost,
              Run, Written, Killed, Call, WriteBlocks, BlockedWritten, CommandEnds, ShellEnds,
              OrphanEnds, PollJoins, KillJoins,
              Expire, Reap, ReapKilled, ConnectionBreaks, DiskFills, Finish, BeginClose, CloseKilled,
              ClosePolled, CloseNext, CloseManager
<1> QED  BY <1>1, SessionsInvariant, PTL DEF Spec, FinishOwnsState

=============================================================================

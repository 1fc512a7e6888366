------------------------------ MODULE Sessions ------------------------------
(***************************************************************************)
(* SessionManager, the execution calls of the backends and the part of the *)
(* guest agent that runs commands: concurrent shell calls of several turns *)
(* until finish has closed the sessions and destroyed the runtime.         *)
(*                                                                         *)
(* A session, its execution and its command are named by the call of       *)
(* exec() that made them; the runtime is named by its instance.  Every     *)
(* call runs under the lease of its turn (TurnLifecycle), so finish closes *)
(* the sessions of an instance when none of its calls is in flight.        *)
(***************************************************************************)
EXTENDS Naturals, Sequences, FiniteSets

CONSTANTS
  Instances,      \* the runtimes of the open turns
  Calls,          \* shell calls of the harness
  At,             \* the instance whose turn each call belongs to
  Tty,            \* the calls whose exec() asks for a terminal
  Capacity,       \* sessions of the daemon, 64 in the code
  AgentCapacity,  \* executions of one guest agent, 64 in the code
  Breakable,      \* the instances whose agent connection may break
  none            \* no session

ASSUME SessionConstants ==
  /\ At \in [Calls -> Instances]
  /\ Tty \subseteq Calls
  /\ Capacity \in Nat \ {0} /\ AgentCapacity \in Nat \ {0}
  /\ Breakable \subseteq Instances
  /\ none \notin Calls

VARIABLES
  \* the calls
  op,         \* what the call does: the shell tool's action; "interrupt" is a write of Ctrl-C
  sid,        \* the session it is about
  pc,         \* the await at which it stands
  \* SessionManager
  sessions,   \* the keys of the map
  active,     \* the sessions whose flag active is set, in the map or not
  expired,    \* the sessions whose expiresAt is past
  queue,      \* the calls chained on the tail of a session; the first one runs
  reaping,    \* the sessions reapExpired() is killing
  closing,    \* closingInstances
  \* the turn of an instance
  closePc,    \* where finish and closeInstance stand
  toClose,    \* the sessions closeInstance has yet to end
  ending,     \* the session it is at
  killed,     \* how often it has killed that one
  failures,   \* the instances of which a session could not be closed
  inst,       \* instances.state
  \* the backend and the guest
  recorded,   \* the executions whose record in the backend says RUNNING
  proc,       \* the command: "up", "orphan" when its shell has ended and a
              \* descendant keeps the output open, "ended"
  stuck,      \* the execution whose pipes the agent is waiting on
  broken,     \* the instances whose connection is lost
  full        \* the instances whose disk is full

callVars == <<op, sid, pc>>
managerVars == <<sessions, active, expired, queue, reaping, closing>>
closeVars == <<closePc, toClose, ending, killed, failures>>
guestVars == <<recorded, proc, stuck, broken, full>>
vars == <<callVars, managerVars, closeVars, inst, guestVars>>

Ops == {"exec", "poll", "write", "interrupt", "kill"}
Waiting == {"exec", "queued", "killing", "writing", "polling", "abandon"}
ClosePcs == {"open", "draining", "next", "kill", "poll", "closed", "committing", "failed", "gone"}

TypeOK ==
  /\ op \in [Calls -> Ops \cup {"none"}]
  /\ sid \in [Calls -> Calls \cup {none}]
  /\ pc \in [Calls -> Waiting \cup {"idle", "done"}]
  /\ sessions \subseteq Calls /\ active \subseteq Calls /\ expired \subseteq Calls
  /\ queue \in [Calls -> Seq(Calls)]
  /\ reaping \subseteq Calls
  /\ closing \subseteq Instances
  /\ closePc \in [Instances -> ClosePcs]
  /\ toClose \in [Instances -> SUBSET Calls]
  /\ ending \in [Instances -> Calls \cup {none}]
  /\ killed \in [Instances -> 0..2]
  /\ failures \subseteq Instances
  /\ inst \in [Instances -> {"READY", "RUNNING", "COMMITTING", "TERMINATED"}]
  /\ recorded \subseteq Calls
  /\ proc \in [Calls -> {"none", "up", "orphan", "ended"}]
  /\ stuck \in [Instances -> Calls \cup {none}]
  /\ broken \subseteq Instances /\ full \subseteq Instances

Init ==
  /\ op = [c \in Calls |-> "none"]
  /\ sid = [c \in Calls |-> none]
  /\ pc = [c \in Calls |-> "idle"]
  /\ sessions = {} /\ active = {} /\ expired = {} /\ reaping = {} /\ closing = {}
  /\ queue = [c \in Calls |-> <<>>]
  /\ closePc = [i \in Instances |-> "open"]
  /\ toClose = [i \in Instances |-> {}]
  /\ ending = [i \in Instances |-> none]
  /\ killed = [i \in Instances |-> 0]
  /\ failures = {}
  /\ inst = [i \in Instances |-> "READY"]
  /\ recorded = {}
  /\ proc = [c \in Calls |-> "none"]
  /\ stuck = [i \in Instances |-> none]
  /\ broken = {} /\ full = {}

----------------------------------------------------------------------------
(* requests of the backend to the guest agent.  The channel keeps the order *)
(* and the agent serves one request at a time, so a request takes effect in *)
(* the step in which its answer is seen; until then its call stands at pc.  *)

SessionsOf(i) == {s \in Calls : At[s] = i}
Runs(s) == proc[s] \in {"up", "orphan"}

\* getTurnHandle(): the runtime can be used.
Usable(i) == inst[i] \in {"READY", "RUNNING"}

\* The connection of i answers, be it with the error of a lost connection.
Answers(i) == i \in broken \/ stuck[i] = none

\* What pollBackend of s may come back with, once it does: the state of the
\* command, or an error.  A command that ended unsuccessfully on a full disk
\* is an error; which commands do is left open.
PollResults(s) ==
  CASE ~Usable(At[s])      -> {"error"}
    [] At[s] \in broken    -> {"error"}
    [] stuck[At[s]] # none -> {}
    [] proc[s] = "up"      -> {"RUNNING"}
    [] proc[s] = "orphan"  -> {}
    [] OTHER               -> {"COMPLETED"} \cup (IF At[s] \in full THEN {"error"} ELSE {})

\* The record of s in the backend after such a poll.
RecordPolled(s, result) ==
  recorded' = CASE result = "error"   -> recorded
                [] result = "RUNNING" -> recorded \cup {s}
                [] OTHER              -> recorded \ {s}

\* kill() of the backend has come back with this answer.  It asks the agent
\* only while the record says RUNNING, and then the command is ended.
KillAnswers == {"ok", "error"}
BackendKill(s, answer) ==
  IF s \notin recorded
  THEN answer = "ok" /\ UNCHANGED <<recorded, proc>>
  ELSE IF At[s] \in broken
       THEN answer = "error" /\ UNCHANGED <<recorded, proc>>
       ELSE /\ stuck[At[s]] = none
            /\ answer = "ok"
            /\ recorded' = recorded \ {s}
            /\ proc' = [proc EXCEPT ![s] = "ended"]

\* A request about s that the agent may be serving.
PollPending(s) ==
  \/ \E c \in Calls : sid[c] = s /\ pc[c] = "polling"
  \/ closePc[At[s]] = "poll" /\ ending[At[s]] = s
KillPending(s) ==
  \/ \E c \in Calls : sid[c] = s /\ pc[c] \in {"killing", "abandon"}
  \/ closePc[At[s]] = "kill" /\ ending[At[s]] = s
  \/ s \in reaping

----------------------------------------------------------------------------
(* the guest                                                               *)

\* The command ends by itself, or its timeout ends it.
CommandEnds(s) ==
  /\ proc[s] = "up"
  /\ proc' = [proc EXCEPT ![s] = "ended"]
  /\ stuck' = [stuck EXCEPT ![At[s]] = IF @ = s THEN none ELSE @]
  /\ UNCHANGED <<callVars, managerVars, closeVars, inst, recorded, broken, full>>

\* Its shell ends and leaves a process that holds the output pipe.
ShellEnds(s) ==
  /\ proc[s] = "up"
  /\ proc' = [proc EXCEPT ![s] = "orphan"]
  /\ UNCHANGED <<callVars, managerVars, closeVars, inst, recorded, stuck, broken, full>>

\* The last process that holds the output ends, and join_drains returns.
OrphanEnds(s) ==
  /\ proc[s] = "orphan"
  /\ proc' = [proc EXCEPT ![s] = "ended"]
  /\ stuck' = [stuck EXCEPT ![At[s]] = IF @ = s THEN none ELSE @]
  /\ UNCHANGED <<callVars, managerVars, closeVars, inst, recorded, broken, full>>

\* A request to write finds the input pipe of the command full: write_all
\* keeps the agent until the command has read, or has ended.
WriteBlocks(c) ==
  /\ pc[c] = "writing"
  /\ proc[sid[c]] = "up" /\ At[c] \notin broken /\ stuck[At[c]] = none
  /\ stuck' = [stuck EXCEPT ![At[c]] = sid[c]]
  /\ UNCHANGED <<callVars, managerVars, closeVars, inst, recorded, proc, broken, full>>

\* poll_execution finds the shell ended and joins the drains of its output:
\* the loop of the agent serves no other request until they are done.
PollJoins(s) ==
  /\ proc[s] = "orphan" /\ PollPending(s)
  /\ Usable(At[s]) /\ At[s] \notin broken /\ stuck[At[s]] = none
  /\ stuck' = [stuck EXCEPT ![At[s]] = s]
  /\ UNCHANGED <<callVars, managerVars, closeVars, inst, recorded, proc, broken, full>>

\* kill_execution: the shell obeys SIGTERM and a process that ignores it
\* holds the output.
KillJoins(s) ==
  /\ Runs(s) /\ KillPending(s)
  /\ s \in recorded /\ At[s] \notin broken /\ stuck[At[s]] = none
  /\ proc' = [proc EXCEPT ![s] = "orphan"]
  /\ stuck' = [stuck EXCEPT ![At[s]] = s]
  /\ UNCHANGED <<callVars, managerVars, closeVars, inst, recorded, broken, full>>

\* The connection to the agent fails: every request to come is rejected.
ConnectionBreaks(i) ==
  /\ i \in Breakable \ broken
  /\ closePc[i] # "gone"
  /\ broken' = broken \cup {i}
  /\ UNCHANGED <<callVars, managerVars, closeVars, inst, recorded, proc, stuck, full>>

DiskFills(i) ==
  /\ i \in Breakable \ full
  /\ closePc[i] # "gone"
  /\ full' = full \cup {i}
  /\ UNCHANGED <<callVars, managerVars, closeVars, inst, recorded, proc, stuck, broken>>

----------------------------------------------------------------------------
(* shell calls                                                             *)

\* A call of an OPEN turn gets a lease.
Admitted(c) == pc[c] = "idle" /\ closePc[At[c]] = "open"

InFlight(i) == {c \in SessionsOf(i) : pc[c] \in Waiting}

\* The call returns or throws, and releases its lease.
Return(c) == pc' = [pc EXCEPT ![c] = "done"]

\* Mutant: room is made at the expense of any session, active or not.
EvictAny(kept) ==
  /\ kept \subseteq sessions
  /\ \/ kept = sessions /\ Cardinality(sessions) < Capacity
     \/ Cardinality(sessions) >= Capacity /\ Cardinality(kept) = Capacity - 1

\* reap(): expired inactive sessions go, then inactive ones, as few as make
\* room for another.  The code takes the least recently used.
Reaped(kept) ==
  LET fresh == sessions \ (expired \ active)
  IN  /\ kept \subseteq fresh
      /\ fresh \cap active \subseteq kept
      /\ \/ kept = fresh /\ Cardinality(fresh) < Capacity
         \/ Cardinality(fresh) >= Capacity /\ Cardinality(kept) = Capacity - 1
         \/ Cardinality(fresh) >= Capacity /\ kept = fresh \cap active /\ Cardinality(kept) >= Capacity

\* exec() up to its first await.
Exec(c) ==
  /\ Admitted(c)
  /\ \E kept \in SUBSET sessions :
       /\ Reaped(kept)
       /\ sessions' = kept
       /\ expired' = expired \cap kept
       /\ pc' = [pc EXCEPT ![c] =
                   IF At[c] \notin closing /\ Cardinality(kept) < Capacity /\ Usable(At[c])
                   THEN "exec" ELSE "done"]
  /\ op' = [op EXCEPT ![c] = "exec"]
  /\ sid' = [sid EXCEPT ![c] = c]
  /\ UNCHANGED <<active, queue, reaping, closing, closeVars, inst, guestVars>>

\* Executions the agent of i has; it never forgets one.
Executions(i) == {s \in SessionsOf(i) : proc[s] # "none"}

\* The agent started the command: the session is entered.
ExecStarts(c) ==
  /\ pc[c] = "exec"
  /\ At[c] \notin broken /\ stuck[At[c]] = none
  /\ Cardinality(Executions(At[c])) < AgentCapacity
  /\ proc' = [proc EXCEPT ![c] = "up"]
  /\ recorded' = recorded \cup {c}
  /\ sessions' = sessions \cup {c}
  /\ active' = active \cup {c}
  /\ inst' = [inst EXCEPT ![At[c]] = "RUNNING"]
  /\ pc' = [pc EXCEPT ![c] = "polling"]
  /\ UNCHANGED <<op, sid, expired, queue, reaping, closing, closeVars, stuck, broken, full>>

\* The agent has no room for another execution.
ExecRefused(c) ==
  /\ pc[c] = "exec"
  /\ At[c] \notin broken /\ stuck[At[c]] = none
  /\ Cardinality(Executions(At[c])) >= AgentCapacity
  /\ Return(c)
  /\ UNCHANGED <<op, sid, managerVars, closeVars, inst, guestVars>>

\* spawn_execution fails, for want of the directory or of a process.
ExecFails(c) ==
  /\ pc[c] = "exec"
  /\ At[c] \notin broken /\ stuck[At[c]] = none
  /\ Return(c)
  /\ UNCHANGED <<op, sid, managerVars, closeVars, inst, guestVars>>

\* The connection is lost before the answer, maybe after the command started.
ExecLost(c) ==
  /\ pc[c] = "exec"
  /\ At[c] \in broken
  /\ \E started \in {"none", "up"} : proc' = [proc EXCEPT ![c] = started]
  /\ Return(c)
  /\ UNCHANGED <<op, sid, managerVars, closeVars, inst, recorded, stuck, broken, full>>

\* poll(), write() and kill() up to the await of serial(): requireSession,
\* closingInstances, then the tail of the session.  A client learns a session
\* id from the answer of exec().
Call(c, s, o) ==
  /\ Admitted(c)
  /\ o # "exec" /\ op[s] = "exec" /\ pc[s] = "done"
  /\ op' = [op EXCEPT ![c] = o]
  /\ sid' = [sid EXCEPT ![c] = s]
  /\ IF /\ s \in sessions \ expired
        /\ At[s] = At[c]
        /\ o \in {"write", "interrupt"} => At[s] \notin closing
     THEN /\ queue' = [queue EXCEPT ![s] = Append(@, c)]
          /\ pc' = [pc EXCEPT ![c] = "queued"]
     ELSE Return(c) /\ UNCHANGED queue
  /\ UNCHANGED <<sessions, active, expired, reaping, closing, closeVars, inst, guestVars>>

\* Mutant: a call that was abandoned does not release the next one.
LeaveOnSuccess(c) ==
  queue' = [queue EXCEPT ![sid[c]] =
              IF @ # <<>> /\ Head(@) = c /\ pc[c] # "abandon" THEN Tail(@) ELSE @]

\* The release() of serial(): the next call of the session may run.  The
\* first poll of exec() is outside the chain.
Leave(c) ==
  queue' = [queue EXCEPT ![sid[c]] = IF @ # <<>> /\ Head(@) = c THEN Tail(@) ELSE @]

\* The prior call has released: the session is renewed and the action begins.
Run(c) ==
  /\ pc[c] = "queued"
  /\ queue[sid[c]] # <<>> /\ Head(queue[sid[c]]) = c
  /\ expired' = expired \ {sid[c]}
  /\ IF op[c] = "write" /\ sid[c] \notin Tty
     THEN Return(c) /\ Leave(c)
     ELSE /\ pc' = [pc EXCEPT ![c] =
                      CASE op[c] = "poll" -> "polling"
                        [] op[c] = "kill" -> "killing"
                        [] OTHER -> IF sid[c] \in Tty THEN "writing" ELSE "killing"]
          /\ UNCHANGED queue
  /\ UNCHANGED <<op, sid, sessions, active, reaping, closing, closeVars, inst, guestVars>>

\* The bytes are in the terminal of the command, or nobody reads it any more.
Written(c) ==
  /\ pc[c] = "writing"
  /\ Answers(At[c])
  /\ \E next \in {"polling", "abandon"} :
       /\ next = "polling" => At[c] \notin broken
       /\ next = "abandon" => At[c] \in broken \/ proc[sid[c]] # "up"
       /\ pc' = [pc EXCEPT ![c] = next]
  /\ UNCHANGED <<op, sid, managerVars, closeVars, inst, guestVars>>

\* The write that kept the agent is done.
BlockedWritten(c) ==
  /\ pc[c] = "writing"
  /\ proc[sid[c]] = "up" /\ stuck[At[c]] = sid[c]
  /\ stuck' = [stuck EXCEPT ![At[c]] = none]
  /\ pc' = [pc EXCEPT ![c] = "polling"]
  /\ UNCHANGED <<op, sid, managerVars, closeVars, inst, recorded, proc, broken, full>>

\* The kill of kill() and of Ctrl-C.
Killed(c) ==
  /\ pc[c] = "killing"
  /\ \E answer \in KillAnswers :
       /\ BackendKill(sid[c], answer)
       /\ IF answer = "ok" THEN pc' = [pc EXCEPT ![c] = "polling"] /\ UNCHANGED queue
          ELSE IF op[c] = "kill" THEN Return(c) /\ Leave(c)
          ELSE pc' = [pc EXCEPT ![c] = "abandon"] /\ UNCHANGED queue
  /\ UNCHANGED <<op, sid, sessions, active, expired, reaping, closing, closeVars, inst,
                 stuck, broken, full>>

\* The session has ended: active is cleared and the instance is READY.
End(s) ==
  /\ active' = active \ {s}
  /\ inst' = [inst EXCEPT ![At[s]] = "READY"]

\* pollBackend has come back: response(), or the catch.
Polled(c) ==
  /\ pc[c] = "polling"
  /\ \E result \in PollResults(sid[c]) :
       /\ RecordPolled(sid[c], result)
       /\ IF result = "error" /\ op[c] # "kill"
          THEN pc' = [pc EXCEPT ![c] = "abandon"] /\ UNCHANGED <<queue, active, inst>>
          ELSE /\ Return(c) /\ Leave(c)
               /\ IF result # "error"
                      /\ (result = "COMPLETED" \/ op[c] = "kill" \/ sid[c] \notin active)
                  THEN End(sid[c]) ELSE UNCHANGED <<active, inst>>
  /\ UNCHANGED <<op, sid, sessions, expired, reaping, closing, closeVars,
                 proc, stuck, broken, full>>

\* abandon(): the outcome of the kill is ignored.
Abandon(c) ==
  /\ pc[c] = "abandon"
  /\ \E answer \in KillAnswers : BackendKill(sid[c], answer)
  /\ End(sid[c])
  /\ Return(c) /\ Leave(c)
  /\ UNCHANGED <<op, sid, sessions, expired, reaping, closing, closeVars, stuck, broken, full>>

----------------------------------------------------------------------------
(* time                                                                    *)

\* Half an hour without a call.  An id that leaves the map leaves expired too.
Expire(s) ==
  /\ s \in sessions \ expired
  /\ expired' = expired \cup {s}
  /\ UNCHANGED <<callVars, sessions, active, queue, reaping, closing, closeVars, inst, guestVars>>

\* reapExpired() at an expired session.
Reap(s) ==
  /\ s \in (sessions \cap expired) \ reaping
  /\ IF s \in active THEN reaping' = reaping \cup {s} /\ UNCHANGED sessions
     ELSE sessions' = sessions \ {s} /\ UNCHANGED reaping
  /\ expired' = IF s \in active THEN expired ELSE expired \ {s}
  /\ UNCHANGED <<callVars, active, queue, closing, closeVars, inst, guestVars>>

\* It has killed it, or failed to: the session is forgotten.
ReapKilled(s) ==
  /\ s \in reaping
  /\ \E answer \in KillAnswers : BackendKill(s, answer)
  /\ active' = active \ {s}
  /\ sessions' = sessions \ {s}
  /\ expired' = expired \ {s}
  /\ reaping' = reaping \ {s}
  /\ UNCHANGED <<callVars, queue, closing, closeVars, inst, stuck, broken, full>>

----------------------------------------------------------------------------
(* finish: closeInstance() between the leases and the snapshot             *)

\* finish() on the OPEN turn: no call is admitted any more.
Finish(i) ==
  /\ closePc[i] = "open"
  /\ closePc' = [closePc EXCEPT ![i] = "draining"]
  /\ UNCHANGED <<callVars, managerVars, toClose, ending, killed, failures, inst, guestVars>>

\* Mutant: closeInstance does not wait for the calls in flight.
BeginCloseEarly(i) ==
  /\ closePc[i] = "draining"
  /\ closing' = closing \cup {i}
  /\ toClose' = [toClose EXCEPT ![i] = SessionsOf(i) \cap sessions \cap active]
  /\ closePc' = [closePc EXCEPT ![i] = "next"]
  /\ UNCHANGED <<callVars, sessions, active, expired, queue, reaping,
                 ending, killed, failures, inst, guestVars>>

\* The leases are back and closeInstance lists the active sessions.
BeginClose(i) ==
  /\ closePc[i] = "draining"
  /\ InFlight(i) = {}
  /\ closing' = closing \cup {i}
  /\ toClose' = [toClose EXCEPT ![i] = SessionsOf(i) \cap sessions \cap active]
  /\ closePc' = [closePc EXCEPT ![i] = "next"]
  /\ UNCHANGED <<callVars, sessions, active, expired, queue, reaping,
                 ending, killed, failures, inst, guestVars>>

\* Mutant: the count of kills is not reset from one session to the next.
CloseNextKeepsCount(i, s) ==
  /\ closePc[i] = "next"
  /\ s \in toClose[i] /\ queue[s] = <<>>
  /\ toClose' = [toClose EXCEPT ![i] = @ \ {s}]
  /\ ending' = [ending EXCEPT ![i] = s]
  /\ expired' = expired \ {s}
  /\ closePc' = [closePc EXCEPT ![i] = "kill"]
  /\ UNCHANGED <<callVars, sessions, active, queue, reaping, closing,
                 killed, failures, inst, guestVars>>

\* Mutant: a session stays on the list of those to close.
CloseNextAgain(i, s) ==
  /\ closePc[i] = "next"
  /\ s \in toClose[i] /\ queue[s] = <<>>
  /\ ending' = [ending EXCEPT ![i] = s]
  /\ killed' = [killed EXCEPT ![i] = 0]
  /\ expired' = expired \ {s}
  /\ closePc' = [closePc EXCEPT ![i] = "kill"]
  /\ UNCHANGED <<callVars, sessions, active, queue, reaping, closing,
                 toClose, failures, inst, guestVars>>

\* serial() on the next session; nobody is chained before it.
CloseNext(i, s) ==
  /\ closePc[i] = "next"
  /\ s \in toClose[i] /\ queue[s] = <<>>
  /\ toClose' = [toClose EXCEPT ![i] = @ \ {s}]
  /\ ending' = [ending EXCEPT ![i] = s]
  /\ killed' = [killed EXCEPT ![i] = 0]
  /\ expired' = expired \ {s}
  /\ closePc' = [closePc EXCEPT ![i] = "kill"]
  /\ UNCHANGED <<callVars, sessions, active, queue, reaping, closing, failures, inst, guestVars>>

\* The kill of the session; a rejection is a failure to close it.
CloseKilled(i) ==
  /\ closePc[i] = "kill"
  /\ \E answer \in KillAnswers :
       /\ BackendKill(ending[i], answer)
       /\ closePc' = [closePc EXCEPT ![i] = IF answer = "ok" THEN "poll" ELSE "next"]
       /\ failures' = IF answer = "ok" THEN failures ELSE failures \cup {i}
  /\ killed' = [killed EXCEPT ![i] = @ + 1]
  /\ UNCHANGED <<callVars, managerVars, toClose, ending, inst, stuck, broken, full>>

\* The poll after it: the session has ended, or is killed a second time.
ClosePolled(i) ==
  /\ closePc[i] = "poll"
  /\ \E result \in PollResults(ending[i]) :
       /\ RecordPolled(ending[i], result)
       /\ active' = IF result = "COMPLETED" THEN active \ {ending[i]} ELSE active
       /\ closePc' = [closePc EXCEPT ![i] =
                        IF result = "RUNNING" /\ killed[i] = 1 THEN "kill" ELSE "next"]
       /\ failures' = IF result = "error" \/ (result = "RUNNING" /\ killed[i] = 2)
                      THEN failures \cup {i} ELSE failures
  /\ UNCHANGED <<callVars, sessions, expired, queue, reaping, closing, toClose, ending, killed,
                 inst, proc, stuck, broken, full>>

\* Mutant: the instance keeps the state its last poll or kill left.
CloseEndsAsIs(i) ==
  /\ closePc[i] = "next"
  /\ toClose[i] = {}
  /\ closePc' = [closePc EXCEPT ![i] = IF i \in failures THEN "failed" ELSE "closed"]
  /\ UNCHANGED <<callVars, managerVars, toClose, ending, killed, failures, inst, guestVars>>

\* Every session was tried: the instance is READY, or the turn fails.
CloseEnds(i) ==
  /\ closePc[i] = "next"
  /\ toClose[i] = {}
  /\ IF i \in failures
     THEN closePc' = [closePc EXCEPT ![i] = "failed"] /\ UNCHANGED inst
     ELSE /\ closePc' = [closePc EXCEPT ![i] = "closed"]
          /\ inst' = [inst EXCEPT ![i] = IF @ = "RUNNING" THEN "READY" ELSE @]
  /\ UNCHANGED <<callVars, managerVars, toClose, ending, killed, failures, guestVars>>

\* commitTurnRuntime up to its first await.
BeginCommit(i) ==
  /\ closePc[i] = "closed"
  /\ IF inst[i] = "READY"
     THEN /\ closePc' = [closePc EXCEPT ![i] = "committing"]
          /\ inst' = [inst EXCEPT ![i] = "COMMITTING"]
     ELSE closePc' = [closePc EXCEPT ![i] = "failed"] /\ UNCHANGED inst
  /\ UNCHANGED <<callVars, managerVars, toClose, ending, killed, failures, guestVars>>

\* deleteTurnRuntime: the runtime and what runs in it are gone, and the
\* backend forgets its executions.
Destroy(i) ==
  /\ closePc[i] \in {"committing", "failed"}
  /\ closePc' = [closePc EXCEPT ![i] = "gone"]
  /\ inst' = [inst EXCEPT ![i] = "TERMINATED"]
  /\ proc' = [s \in Calls |-> IF At[s] = i /\ Runs(s) THEN "ended" ELSE proc[s]]
  /\ recorded' = recorded \ SessionsOf(i)
  /\ UNCHANGED <<callVars, managerVars, toClose, ending, killed, failures, stuck, broken, full>>

\* sessions.close() after turns.close(): what is left in the map is dropped.
\* The runtimes are gone, so the kill of an active session asks nobody.
CloseManager ==
  /\ \A i \in Instances : closePc[i] = "gone"
  /\ sessions # {}
  /\ reaping = {}
  /\ active' = active \ sessions
  /\ sessions' = {} /\ expired' = {} /\ closing' = {}
  /\ UNCHANGED <<callVars, queue, reaping, closeVars, inst, guestVars>>

----------------------------------------------------------------------------
(* the specification                                                       *)

CallStep(c) ==
  \/ ExecStarts(c) \/ ExecRefused(c) \/ ExecFails(c) \/ ExecLost(c)
  \/ Run(c) \/ Written(c) \/ Killed(c) \/ Polled(c) \/ Abandon(c)

CloseStep(i) ==
  \/ BeginClose(i) \/ CloseKilled(i) \/ ClosePolled(i) \/ CloseEnds(i)
  \/ BeginCommit(i) \/ Destroy(i)
  \/ \E s \in Calls : CloseNext(i, s)

Next ==
  \/ \E c \in Calls : Exec(c) \/ CallStep(c) \/ WriteBlocks(c) \/ BlockedWritten(c)
  \/ \E c, s \in Calls, o \in Ops : Call(c, s, o)
  \/ \E s \in Calls :
       \/ CommandEnds(s) \/ ShellEnds(s) \/ OrphanEnds(s) \/ PollJoins(s) \/ KillJoins(s)
       \/ Expire(s) \/ Reap(s) \/ ReapKilled(s)
  \/ \E i \in Instances :
       ConnectionBreaks(i) \/ DiskFills(i) \/ Finish(i) \/ CloseStep(i)
  \/ CloseManager

Spec == Init /\ [][Next]_vars

\* The event loop runs every continuation; the agent answers each request it
\* can; a backend poll returns at its deadline.  Commands need not end.
FairSpec ==
  /\ Spec
  /\ \A c \in Calls : WF_vars(CallStep(c))
  /\ \A s \in Calls : WF_vars(ReapKilled(s))
  /\ \A i \in Instances : WF_vars(CloseStep(i))

\* And no command leaves its input unread for ever, or a process that holds
\* its output for ever.
DrainingSpec == FairSpec /\ \A s \in Calls : WF_vars(OrphanEnds(s)) /\ WF_vars(BlockedWritten(s))

----------------------------------------------------------------------------
(* properties                                                              *)

\* Whatever runs in a runtime the daemon can talk to belongs to a session
\* that closeInstance() would find and kill() would not skip: neither reap(),
\* reapExpired(), abandon() nor a poll racing a kill loses track of a command.
CommandsKnown ==
  \A s \in Calls : Runs(s) /\ At[s] \notin broken =>
    s \in sessions \cap active \cap recorded

\* When closeInstance() has returned, the instance is READY to be committed,
\* no call uses it, and none of its commands runs unless the connection is lost.
CloseQuiesces ==
  \A i \in Instances : closePc[i] = "closed" =>
    /\ inst[i] = "READY"
    /\ InFlight(i) = {}
    /\ i \notin broken => \A s \in SessionsOf(i) : ~Runs(s)

\* Once the commit has taken the instance, no late answer of a poll, kill or
\* abandoned session writes READY or RUNNING over its state.
FinishOwnsState ==
  [][\A i \in Instances :
       /\ inst[i] = "COMMITTING" => inst'[i] \in {"COMMITTING", "TERMINATED"}
       /\ inst[i] = "TERMINATED" => inst'[i] = "TERMINATED"]_vars

\* A shell call returns: it waits for the calls chained before it, for the
\* agent and for the deadline of its poll, and for nothing else.
CallsEnd == \A c \in Calls : pc[c] \in Waiting ~> pc[c] = "done"

\* README.md:52, "Turn finish closes active sessions, creates a CFS snapshot,
\* ... and destroys the runtime": a finish gets there.
FinishEnds == \A i \in Instances : closePc[i] = "draining" ~> closePc[i] = "gone"

\* main.rs:639, "session capacity reached": the agent refuses a command for
\* want of room only while a command of its runtime is running.
RefusalMeansBusy ==
  [][\A c \in Calls : ExecRefused(c) => \E s \in SessionsOf(At[c]) : Runs(s)]_vars
=============================================================================

--------------------------- MODULE ThreadHistory ---------------------------
(***************************************************************************)
(* What the daemon promises a harness about threads and turns, without     *)
(* runtimes, rows, continuations or crashes: a thread has one active turn  *)
(* at a time; a durable turn that is done has appended one commit to its   *)
(* thread's history, at the instant it became done; a turn that failed has *)
(* left every history alone; a fork starts with a prefix of its source.    *)
(***************************************************************************)
EXTENDS Naturals, Sequences

CONSTANTS Threads, Turns, ThreadOf, Durable, Trees

VARIABLES
  owned,   \* the threads that own a workspace
  head,    \* the head commit of each thread, as the sequence of its trees
  status   \* what became of each turn

vars == <<owned, head, status>>

Statuses == {"new", "active", "done", "failed"}

ActiveTurns == {t \in Turns : status[t] = "active"}

Init ==
  /\ owned = {}
  /\ head = [th \in Threads |-> <<>>]
  /\ status = [t \in Turns |-> "new"]

\* A turn begins; the first durable turn of a thread creates its workspace.
Begin(t) ==
  /\ status[t] = "new"
  /\ \A u \in ActiveTurns : ThreadOf[u] # ThreadOf[t]
  /\ status' = [status EXCEPT ![t] = "active"]
  /\ owned' = IF t \in Durable THEN owned \cup {ThreadOf[t]} ELSE owned
  /\ UNCHANGED head

\* A durable turn is done: its thread has one more commit.
Publish(t) ==
  LET th == ThreadOf[t] IN
  /\ t \in Durable
  /\ status[t] = "active"
  /\ status' = [status EXCEPT ![t] = "done"]
  /\ \E tree \in Trees : head' = [head EXCEPT ![th] = Append(head[th], tree)]
  /\ UNCHANGED owned

\* An instant turn is done: nothing of it is kept.
Discard(t) ==
  /\ t \notin Durable
  /\ status[t] = "active"
  /\ status' = [status EXCEPT ![t] = "done"]
  /\ UNCHANGED <<owned, head>>

\* Turns fail, several at once when recovery or shutdown gives them up.
Fail(S) ==
  /\ S \subseteq ActiveTurns
  /\ status' = [t \in Turns |-> IF t \in S THEN "failed" ELSE status[t]]
  /\ UNCHANGED <<owned, head>>

\* A thread without a workspace gets one that shares a prefix of src's history.
Fork(src, dst) ==
  /\ src \in owned
  /\ dst \notin owned
  /\ \A u \in ActiveTurns : ThreadOf[u] # src
  /\ owned' = owned \cup {dst}
  /\ \E n \in 0 .. Len(head[src]) : head' = [head EXCEPT ![dst] = SubSeq(head[src], 1, n)]
  /\ UNCHANGED status

Next ==
  \/ \E t \in Turns : Begin(t) \/ Publish(t) \/ Discard(t)
  \/ \E S \in SUBSET Turns : Fail(S)
  \/ \E src, dst \in Threads : Fork(src, dst)

Spec == Init /\ [][Next]_vars
=============================================================================

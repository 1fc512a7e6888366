-------------------------- MODULE MCTurnLifecycle --------------------------
(***************************************************************************)
(* Small instances of TurnLifecycle for TLC.  Each configuration picks the *)
(* turn requests, what may fail, and how often the daemon may stop.        *)
(***************************************************************************)
EXTENDS TurnLifecycle, TLC

CONSTANTS a, b, t1, t2, t3, empty, x

\* t1 and t2 contend for thread a; t3 uses thread b.
MCThreadOf == [t \in Turns |-> IF t = t3 /\ b \in Threads THEN b ELSE a]

\* t1 and t2 make the same request of the same thread.
MCSymmetry == Permutations({t1, t2})
=============================================================================

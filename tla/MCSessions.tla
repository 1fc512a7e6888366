----------------------------- MODULE MCSessions -----------------------------
(***************************************************************************)
(* Small instances of Sessions for TLC: the calls of one turn.             *)
(***************************************************************************)
EXTENDS Sessions, TLC

CONSTANTS i, c1, c2, c3

MCAt == [c \in Calls |-> i]

\* c2 and c3 are alike: neither asks for a terminal.
MCSymmetry == Permutations({c2, c3})
=============================================================================

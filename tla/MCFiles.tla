------------------------------ MODULE MCFiles ------------------------------
(***************************************************************************)
(* The small instances of FileTransfers and Paging that Files.cfg checks,  *)
(* side by side: a behavior is one of the file tools over the channel, or  *)
(* one read in pages, with the other at rest.                              *)
(***************************************************************************)
EXTENDS FileTransfers, Paging, TLC

CONSTANTS w1, w2, w3, e1, e2, m1, r1, p, q, n

\* All calls are about p, which the move brings from q; but for two writes of a new
\* file in a directory that is not there.
MCTarget == (w1 :> p) @@ (w2 :> n) @@ (w3 :> n) @@ (e1 :> p) @@ (e2 :> p) @@ (m1 :> p) @@ (r1 :> p)
MCSource == (m1 :> q)
MCInitial == [x \in {p, q, n} |-> IF x = n THEN <<>> ELSE <<<<x, 1>>, <<x, 2>>>>]
MCMixes == {{}} \cup {{w2, w3}, {e1, e2}, {w1, e1}, {e1, m1}, {w1, r1}}

MCInputs == UNION {[1 .. k -> 1 .. 4] : k \in 0 .. 4}
\* No ranges; ranges apart, overlapping, in the wrong order, and open ended.
MCRangeLists ==
  {<<>>, <<<<1, 1>>, <<3, 4>>>>, <<<<2, 3>>, <<3, 4>>>>, <<<<3, 3>>, <<1, 1>>>>, <<<<2, 9>>>>}

Quiet == \A c \in Calls : result[c] = "idle"
MCInit ==
  \/ FilesInit /\ PagingIdle
  \/ FilesInit /\ Quiet /\ PagingInit
MCNext ==
  \/ (~Quiet /\ FilesNext /\ UNCHANGED pageVars)
  \/ (Quiet /\ ReadPage /\ UNCHANGED transferVars)
MCSpec == MCInit /\ [][MCNext]_<<transferVars, pageVars>> /\ FilesFairness /\ CommandsLetGo
=============================================================================

----------------------------- MODULE MCStorage -----------------------------
(***************************************************************************)
(* The small instances of ObjectStore, Archives and ArtifactStore that     *)
(* Storage.cfg checks, side by side: a behavior is one of the object       *)
(* store, the extraction of one archive, or one of the artifact store,     *)
(* with the other two at rest.                                             *)
(***************************************************************************)
EXTENDS ObjectStore, Archives, ArtifactStore, TLC

CONSTANTS a, b, t1, t2, t3, t4, empty, full, n1, n2, n3, back, raw, text, u1, u2, u3

\* t1 and t2 follow each other on thread a, beside t3 and the instant t4 on b.
MCThreadOf == (t1 :> a) @@ (t2 :> a) @@ (t3 :> b) @@ (t4 :> b)

\* A directory or something else at n1, what is in it, two more names, the name
\* n1\n2 ("back"), and one that is not UTF-8 ("raw") with its decoded form ("text").
MCPathOrder == <<<<n1>>, <<n1, n2>>, <<back>>, <<n2>>, <<n3>>, <<text>>, <<raw>>>>
MCLongPaths == {<<n1, n2>>, <<"..", n2>>}

Targets == {<<n1>>, <<n2>>, <<"..">>, <<"..", n2>>}
Texts == Paths \cup Targets \cup {<<>>}
MCTextOf == [x \in Texts |-> IF x = <<raw>> THEN <<text>> ELSE x]
MCSlashed == [x \in Paths |-> IF x = <<back>> THEN <<n1, n2>> ELSE x]

Node(k, m, g) == [kind |-> k, mode |-> m, arg |-> g]
Files(p) == {Node("file", "rw", q) : q \in {MCPathOrder[i] : i \in 1 .. 5}}
Nodes(p) ==
  IF p \in {<<n3>>, <<back>>} THEN Files(p)
  ELSE {Node("dir", m, <<>>) : m \in {"rw", "ro", "sticky"}}
         \cup {Node("symlink", "rw", g) : g \in Targets} \cup Files(p)

\* Every workspace over the first five whose inodes are named by their first path,
\* and some with what is refused or not UTF-8.
MCWorkspaces ==
  LET InOrder(t) ==
        /\ \A p \in DOMAIN t : Len(p) = 2 => <<n1>> \in DOMAIN t /\ t[<<n1>>].kind = "dir"
        /\ \A p \in DOMAIN t : t[p].kind = "file" =>
             t[p].arg \in DOMAIN t /\ t[t[p].arg].kind = "file" /\ FirstLink(t, p) = t[p].arg
      All == UNION {{t \in [S -> UNION {Nodes(p) : p \in S}] :
                       (\A p \in S : t[p] \in Nodes(p)) /\ InOrder(t)} : S \in SUBSET {MCPathOrder[i] : i \in 1 .. 5}}
      Odd == {<<n1>> :> Node("dir", "suid", <<>>), <<n2>> :> Node("fifo", "rw", <<>>),
              <<raw>> :> Node("dir", "rw", <<>>), <<n2>> :> Node("symlink", "rw", <<raw>>),
              (<<text>> :> Node("file", "rw", <<text>>)) @@ (<<raw>> :> Node("file", "rw", <<raw>>))} IN
  All \cup Odd

\* Every archive of at most three entries over three of the paths.
HandMadeEntries ==
  LET P == {<<n1>>, <<n1, n2>>, <<n2>>} IN
  {[path |-> p, mode |-> "rw", type |-> k, payload |-> <<>>] : p \in P, k \in {"dir", "file"}}
    \cup {[path |-> p, mode |-> "rw", type |-> "symlink", payload |-> g] : p \in P, g \in Targets}
    \cup {[path |-> p, mode |-> m, type |-> "hardlink", payload |-> g] : p \in P, g \in P, m \in {"rw", "ro"}}
    \cup {[path |-> p, mode |-> "rw", type |-> "other", payload |-> <<>>] : p \in P}
    \cup {[path |-> <<n2>>, mode |-> "suid", type |-> "file", payload |-> <<>>]}
MCHandMade == UNION {[1 .. n -> HandMadeEntries] : n \in 1 .. 3}

\* Two uploads on thread a and one on b, of a file that may change its size or not.
MCUploadThread == (u1 :> a) @@ (u2 :> a) @@ (u3 :> b)
MCVersions == {<<n1>>, <<n1, n2>>, <<n2, n1>>}

MCInit ==
  \/ StoreInit /\ ArchiveIdle /\ ArtifactIdle
  \/ StoreInit /\ device = "one" /\ ArchiveInit /\ ArtifactIdle
  \/ StoreInit /\ device = "one" /\ ArchiveIdle /\ ArtifactInit
AtRest == \A u \in Uploads : upload[u] = "done" /\ size[u] = 0
MCNext ==
  \/ (verdict = "idle" /\ AtRest /\ StoreNext /\ UNCHANGED <<archiveVars, artifactVars>>)
  \/ (ArchiveNext /\ UNCHANGED <<storeVars, artifactVars>>)
  \/ (~AtRest /\ ArtifactNext /\ UNCHANGED <<storeVars, archiveVars>>)
MCSpec == MCInit /\ [][MCNext]_<<storeVars, archiveVars, artifactVars>>
=============================================================================

--------------------------- MODULE ArchivesProofs ---------------------------
(***************************************************************************)
(* Theorems about Archives: what a writer stored is extracted under the    *)
(* names it stored, and as it was where it kept them; what extractCfs      *)
(* accepts is a workspace that can be exported and restored; no entry      *)
(* replaces what an earlier one made; for any paths, workspaces, archives. *)
(***************************************************************************)
EXTENDS Archives, FiniteSetTheorems, WellFoundedInduction, TLAPS

----------------------------------------------------------------------------
(* the inductive invariant                                                 *)

\* The archive and the place in it.
ArchiveTypes ==
  /\ archive \in Seq(Range(archive))
  /\ \A i \in DOMAIN archive :
       /\ TextOf[archive[i].path] = archive[i].path
       /\ archive[i].type = "symlink" => TextOf[archive[i].payload] = archive[i].payload
  /\ next \in 1 .. Len(archive) + 1
  /\ verdict \in {"extracting", "accepted", "rejected"}
  /\ verdict = "accepted" => next = Len(archive) + 1

\* What is below a directory hangs from it, and every node could be exported.
Grown(t) ==
  /\ DOMAIN t \subseteq Paths
  /\ \A p \in DOMAIN t :
       /\ \A q \in Ancestors(p) : q \in DOMAIN t /\ t[q].kind = "dir"
       /\ t[p].kind \in {"dir", "file", "symlink"}
       /\ t[p].mode # "suid"
       /\ TextOf[p] = p
       /\ t[p].kind = "symlink" => Inside(p, t[p].arg) /\ TextOf[t[p].arg] = t[p].arg

\* The staging directory is such a tree, and extractCfs remembers its links: this
\* is why no entry is ever made behind one.
BuiltGrown ==
  /\ Grown(built)
  /\ \A p \in DOMAIN built :
       /\ DOMAIN built[p] = {"kind", "mode", "arg"}
       /\ built[p].kind = "symlink" => p \in Taken({"symlink"})

\* An archive that a writer made.
FromWriter ==
  writer # "none" =>
    /\ source \in Workspaces
    /\ \/ writer = "guest" /\ GuestAccepts(source)
       \/ writer = "daemon" /\ DaemonAccepts(source)
    /\ archive = ArchiveOf(source, writer)

\* The paths whose entries were taken.
Done == {Collected(source)[j] : j \in 1 .. next - 1}

\* u has every path of D as the entry of writer w made it, no two under one name.
Holds(u, t, w, D) ==
  \A p \in D :
    LET s == StoredPath(p, w) IN
    /\ s \in DOMAIN u /\ u[s].kind = t[p].kind /\ u[s].mode = Masked(t[p].mode)
    /\ t[p].kind = "symlink" => u[s].arg = StoredTarget(t[p].arg)
    /\ t[p].kind = "file" => u[s].arg = StoredPath(t[p].arg, w)
    /\ \A q \in D : StoredPath(q, w) = s => q = p

\* Of such an archive the entries taken are there; where the names were kept, nothing
\* else is.
BuiltSame ==
  writer # "none" /\ verdict # "rejected" =>
    /\ Holds(built, source, writer, Done)
    /\ NamesKept(source, writer) => DOMAIN built = Done

\* An archive with the names as they were is rejected at a directory its owner may
\* not write only.
RejectedLocked ==
  writer # "none" /\ verdict = "rejected" /\ NamesKept(source, writer) => ~Root /\ LockedDirectory(source)

ArchiveInv ==
  /\ ArchiveTypes
  /\ BuiltGrown
  /\ FromWriter
  /\ BuiltSame
  /\ RejectedLocked

----------------------------------------------------------------------------
(* the order of the paths                                                  *)

\* Every nonempty set of numbers has a least one.  (The library's principle has
\* an operator parameter; this is a consequence of its theorem on finite sets.)
LEMMA LeastNumber ==
  ASSUME NEW S, S \in SUBSET Nat, S # {}
  PROVE  \E n \in S : \A m \in S : n <= m
<1> DEFINE T == {0 .. n - 1 : n \in S}
<1>1. T \subseteq FiniteSubsetsOf(Nat) /\ T # {}
  <2>1. \A n \in S : IsFiniteSet(0 .. n - 1) /\ 0 .. n - 1 \in SUBSET Nat
    BY FS_Interval
  <2> QED BY <2>1 DEF FiniteSubsetsOf
<1>2. \E x \in T : \A y \in T : ~ (<<y, x>> \in StrictSubsetOrdering(Nat))
  <2> HIDE DEF T
  <2> QED BY ONLY <1>1, FS_StrictSubsetOrderingWellFounded, WFMin
<1>3. PICK n \in S : \A m \in S : ~ (<<0 .. m - 1, 0 .. n - 1>> \in StrictSubsetOrdering(Nat))
  BY <1>2
<1>4. ASSUME NEW m \in S, m < n
      PROVE  <<0 .. m - 1, 0 .. n - 1>> \in StrictSubsetOrdering(Nat)
  <2>1. 0 .. m - 1 \subseteq 0 .. n - 1 /\ m \in 0 .. n - 1 /\ m \notin 0 .. m - 1
    BY <1>4
  <2>2. 0 .. m - 1 \in SUBSET Nat /\ 0 .. n - 1 \in SUBSET Nat
    OBVIOUS
  <2>3. 0 .. m - 1 # 0 .. n - 1
    BY <2>1
  <2> QED BY ONLY <2>1, <2>2, <2>3, SMT DEF StrictSubsetOrdering
<1> HIDE DEF T
<1>5. \A m \in S : ~(m < n) /\ m \in Nat /\ n \in Nat
  BY <1>3, <1>4
<1> QED BY ONLY <1>5, n \in S

\* A path has one position.
LEMMA PositionShape ==
  /\ DOMAIN PathOrder = 1 .. Len(PathOrder) /\ Len(PathOrder) \in Nat
  /\ \A p \in Paths : /\ Position(p) \in DOMAIN PathOrder /\ Position(p) \in Nat
                      /\ PathOrder[Position(p)] = p
  /\ \A i \in DOMAIN PathOrder : PathOrder[i] \in Paths /\ Position(PathOrder[i]) = i
<1>1. DOMAIN PathOrder = 1 .. Len(PathOrder) /\ Len(PathOrder) \in Nat
  BY PathsAssumption
<1>2. ASSUME NEW p \in Paths
      PROVE  /\ Position(p) \in DOMAIN PathOrder /\ Position(p) \in Nat
             /\ PathOrder[Position(p)] = p
  <2>1. \E i \in DOMAIN PathOrder : PathOrder[i] = p
    BY DEF Paths, Range
  <2> QED BY <2>1, <1>1 DEF Position
<1>3. ASSUME NEW i \in DOMAIN PathOrder
      PROVE  PathOrder[i] \in Paths /\ Position(PathOrder[i]) = i
  <2>1. PathOrder[i] \in Paths
    BY DEF Paths, Range
  <2> QED BY <2>1, <1>2, PathsAssumption
<1> QED BY <1>1, <1>2, <1>3

\* There are finitely many paths.
LEMMA PathsFinite == IsFiniteSet(Paths)
<1>1. IsFiniteSet(1 .. Len(PathOrder))
  BY PositionShape, FS_Interval
<1>2. PathOrder \in Surjection(1 .. Len(PathOrder), Paths)
  BY PositionShape, PathsAssumption DEF Surjection, Paths, Range
<1> QED BY ONLY <1>1, <1>2, FS_Surjection

\* How many of a tree's paths come no later than p.
Rank(t, p) == Cardinality({q \in DOMAIN t : Position(q) <= Position(p)})

LEMMA RankShape ==
  ASSUME NEW t, DOMAIN t \subseteq Paths
  PROVE  /\ Cardinality(DOMAIN t) \in Nat
         /\ \A p \in DOMAIN t : Rank(t, p) \in 1 .. Cardinality(DOMAIN t)
         /\ \A p, q \in DOMAIN t : Position(p) < Position(q) => Rank(t, p) < Rank(t, q)
<1> DEFINE Upto(p) == {q \in DOMAIN t : Position(q) <= Position(p)}
<1>1. IsFiniteSet(DOMAIN t)
  BY PathsFinite, FS_Subset
<1>2. Cardinality(DOMAIN t) \in Nat
  BY <1>1, FS_CardinalityType
<1>3. \A p \in DOMAIN t : Position(p) \in Nat
  BY PositionShape
<1>4. ASSUME NEW p \in DOMAIN t
      PROVE  IsFiniteSet(Upto(p)) /\ Cardinality(Upto(p)) \in 1 .. Cardinality(DOMAIN t)
  <2>1. Upto(p) \in SUBSET DOMAIN t /\ p \in Upto(p)
    BY <1>3
  <2> HIDE DEF Upto
  <2>2. IsFiniteSet(Upto(p)) /\ Cardinality(Upto(p)) <= Cardinality(DOMAIN t)
    BY <2>1, <1>1, FS_Subset
  <2>3. Cardinality(Upto(p)) \in Nat /\ Cardinality(Upto(p)) # 0
    BY <2>1, <2>2, FS_CardinalityType, FS_EmptySet
  <2> QED BY <2>2, <2>3, <1>2
<1>5. ASSUME NEW p \in DOMAIN t, NEW q \in DOMAIN t, Position(p) < Position(q)
      PROVE  Cardinality(Upto(p)) < Cardinality(Upto(q))
  <2>1. Upto(p) \subseteq Upto(q) /\ q \in Upto(q) /\ q \notin Upto(p)
    BY <1>5, <1>3
  <2>2. IsFiniteSet(Upto(q)) /\ IsFiniteSet(Upto(p))
    BY <1>4
  <2> HIDE DEF Upto
  <2>3. Cardinality(Upto(p)) <= Cardinality(Upto(q)) /\ Cardinality(Upto(p)) # Cardinality(Upto(q))
    BY <2>1, <2>2, FS_Subset
  <2> QED BY <2>2, <2>3, FS_CardinalityType
<1> QED BY <1>2, <1>4, <1>5 DEF Rank

\* Collected lists the paths of a tree once each, in their order.
LEMMA CollectedShape ==
  ASSUME NEW t, DOMAIN t \subseteq Paths
  PROVE  /\ Collected(t) \in [1 .. Cardinality(DOMAIN t) -> DOMAIN t]
         /\ Cardinality(DOMAIN t) \in Nat
         /\ \A p \in DOMAIN t : \E i \in DOMAIN Collected(t) : Collected(t)[i] = p
         /\ \A i, j \in DOMAIN Collected(t) :
              i < j <=> Position(Collected(t)[i]) < Position(Collected(t)[j])
         /\ \A i, j \in DOMAIN Collected(t) : Collected(t)[i] = Collected(t)[j] => i = j
<1> DEFINE n == Cardinality(DOMAIN t)
           r == [p \in DOMAIN t |-> Rank(t, p)]
           s == Collected(t)
<1>1. n \in Nat /\ r \in [DOMAIN t -> 1 .. n]
  BY RankShape
<1>2. \A p \in DOMAIN t : Position(p) \in Nat /\ PathOrder[Position(p)] = p
  BY PositionShape
<1>3. \A p, q \in DOMAIN t : /\ Position(p) < Position(q) => r[p] < r[q]
                             /\ r[p] = r[q] => p = q
  <2>1. \A p, q \in DOMAIN t : Position(p) < Position(q) => r[p] < r[q]
    BY RankShape
  <2> HIDE DEF r, n
  <2>2. \A p, q \in DOMAIN t : r[p] = r[q] => ~(r[p] < r[q]) /\ ~(r[q] < r[p])
    BY <1>1
  <2>3. \A p, q \in DOMAIN t : r[p] = r[q] => Position(p) = Position(q)
    BY <2>1, <2>2, <1>2
  <2> QED BY <2>1, <2>3, <1>2
<1>4. \A i \in 1 .. n : \E p \in DOMAIN t : r[p] = i
  <2>1. r \in Injection(DOMAIN t, 1 .. n)
    BY <1>1, <1>3 DEF Injection, IsInjective
  <2>2. IsFiniteSet(1 .. n) /\ Cardinality(1 .. n) = n
    BY <1>1, FS_Interval
  <2> HIDE DEF r
  <2>3. r \in Surjection(DOMAIN t, 1 .. n)
    BY ONLY <2>1, <2>2, FS_Injection
  <2> QED BY <2>3 DEF Surjection
<1>5. ASSUME NEW i \in 1 .. n
      PROVE  s[i] \in DOMAIN t /\ r[s[i]] = i
  BY <1>4 DEF Collected, Rank
<1>6. s \in [1 .. n -> DOMAIN t]
  <2>1. s = [i \in 1 .. n |-> s[i]]
    BY DEF Collected
  <2> HIDE DEF s, n
  <2> QED BY <2>1, <1>5
<1> HIDE DEF s, n, r
<1>7. DOMAIN s = 1 .. n
  BY <1>6
<1>8. ASSUME NEW p \in DOMAIN t
      PROVE  \E i \in DOMAIN s : s[i] = p
  <2>1. r[p] \in 1 .. n /\ s[r[p]] = p
    BY <1>1, <1>3, <1>5
  <2> QED BY <2>1, <1>7
<1>9. ASSUME NEW i \in DOMAIN s, NEW j \in DOMAIN s
      PROVE  (i < j <=> Position(s[i]) < Position(s[j])) /\ (s[i] = s[j] => i = j)
  <2>1. s[i] \in DOMAIN t /\ s[j] \in DOMAIN t /\ r[s[i]] = i /\ r[s[j]] = j /\ i \in Nat /\ j \in Nat
    BY <1>5, <1>7
  <2>2. /\ Position(s[i]) < Position(s[j]) => i < j
        /\ Position(s[j]) < Position(s[i]) => j < i
    BY <2>1, <1>3
  <2>3. Position(s[i]) = Position(s[j]) => i = j
    BY <2>1, <1>2
  <2>4. Position(s[i]) \in Nat /\ Position(s[j]) \in Nat
    BY <2>1, <1>2
  <2> QED BY <2>1, <2>2, <2>3, <2>4
<1>10. QED
  BY <1>1, <1>6, <1>8, <1>9 DEF s, n

----------------------------------------------------------------------------
(* the first path of an inode                                              *)

\* The positions of the names of p's inode.
Names(t, p) ==
  {i \in DOMAIN PathOrder :
     /\ PathOrder[i] \in DOMAIN t
     /\ t[PathOrder[i]].kind = "file" /\ t[PathOrder[i]].arg = t[p].arg}

\* The first of them is the one FirstLink finds, and no other path is.
LEMMA FirstLinkIs ==
  ASSUME NEW t, NEW p, NEW f \in Paths,
         Position(f) \in Names(t, p),
         \A j \in Names(t, p) : Position(f) <= j
  PROVE  FirstLink(t, p) = f
<1> DEFINE P(i) == /\ PathOrder[i] \in DOMAIN t
                   /\ t[PathOrder[i]].kind = "file" /\ t[PathOrder[i]].arg = t[p].arg
<1>1. \A i \in DOMAIN PathOrder : i \in Nat /\ 1 .. i - 1 \subseteq DOMAIN PathOrder
  BY PositionShape
<1>2. Position(f) \in DOMAIN PathOrder /\ PathOrder[Position(f)] = f
  BY PositionShape
<1>3. P(Position(f)) /\ \A j \in 1 .. Position(f) - 1 : ~P(j)
  <2>1. \A j \in DOMAIN PathOrder : P(j) => Position(f) <= j
    BY DEF Names
  <2>2. P(Position(f))
    BY DEF Names
  <2> HIDE DEF P
  <2> QED BY <2>1, <2>2, <1>1, <1>2
<1>4. ASSUME NEW i \in DOMAIN PathOrder, P(i), \A j \in 1 .. i - 1 : ~P(j)
      PROVE  i = Position(f)
  <2>1. Position(f) <= i
    BY <1>4 DEF Names
  <2>2. Position(f) \notin 1 .. i - 1
    BY <1>3, <1>4
  <2> HIDE DEF P
  <2> QED BY <2>1, <2>2, <1>1, <1>2, PositionShape
<1>5. (CHOOSE i \in DOMAIN PathOrder : P(i) /\ \A j \in 1 .. i - 1 : ~P(j)) = Position(f)
  <2> HIDE DEF P
  <2> QED BY <1>2, <1>3, <1>4
<1>6. FirstLink(t, p) = PathOrder[CHOOSE i \in DOMAIN PathOrder : P(i) /\ \A j \in 1 .. i - 1 : ~P(j)]
  <2>1. FirstLink(t, p) =
          PathOrder[CHOOSE i \in DOMAIN PathOrder :
            /\ PathOrder[i] \in DOMAIN t
            /\ t[PathOrder[i]].kind = "file" /\ t[PathOrder[i]].arg = t[p].arg
            /\ \A j \in 1 .. i - 1 :
                 ~(PathOrder[j] \in DOMAIN t /\ t[PathOrder[j]].kind = "file" /\ t[PathOrder[j]].arg = t[p].arg)]
    BY DEF FirstLink
  <2>2. \A i \in DOMAIN PathOrder :
          (P(i) /\ \A j \in 1 .. i - 1 : ~P(j)) <=>
          (/\ PathOrder[i] \in DOMAIN t
           /\ t[PathOrder[i]].kind = "file" /\ t[PathOrder[i]].arg = t[p].arg
           /\ \A j \in 1 .. i - 1 :
                ~(PathOrder[j] \in DOMAIN t /\ t[PathOrder[j]].kind = "file" /\ t[PathOrder[j]].arg = t[p].arg))
    OBVIOUS
  <2>3. (CHOOSE i \in DOMAIN PathOrder : P(i) /\ \A j \in 1 .. i - 1 : ~P(j)) =
        (CHOOSE i \in DOMAIN PathOrder :
            /\ PathOrder[i] \in DOMAIN t
            /\ t[PathOrder[i]].kind = "file" /\ t[PathOrder[i]].arg = t[p].arg
            /\ \A j \in 1 .. i - 1 :
                 ~(PathOrder[j] \in DOMAIN t /\ t[PathOrder[j]].kind = "file" /\ t[PathOrder[j]].arg = t[p].arg))
    BY Zenon
  <2> QED BY <2>1, <2>3
<1> QED BY <1>2, <1>5, <1>6

\* A file has a first link: a name of its inode, at no later position, and the
\* first link of all its names.
LEMMA FirstLinkShape ==
  ASSUME NEW t, DOMAIN t \subseteq Paths, NEW p \in DOMAIN t, t[p].kind = "file"
  PROVE  LET f == FirstLink(t, p) IN
         /\ f \in DOMAIN t /\ t[f].kind = "file" /\ t[f].arg = t[p].arg
         /\ Position(f) <= Position(p)
         /\ FirstLink(t, f) = f
         /\ f # p => Position(f) < Position(p)
<1>1. Position(p) \in Names(t, p) /\ Names(t, p) \in SUBSET Nat
  BY PositionShape DEF Names
<1>2. PICK n \in Names(t, p) : \A m \in Names(t, p) : n <= m
  <2>1. Names(t, p) # {} /\ Names(t, p) \in SUBSET Nat
    BY <1>1
  <2> QED BY ONLY <2>1, LeastNumber
<1>3. PICK f \in DOMAIN t : /\ t[f].kind = "file" /\ t[f].arg = t[p].arg
                            /\ f = PathOrder[n] /\ Position(f) = n
  BY PositionShape DEF Names
<1>4. FirstLink(t, p) = f
  <2>1. f \in Paths /\ Position(f) \in Names(t, p) /\ \A j \in Names(t, p) : Position(f) <= j
    BY <1>2, <1>3
  <2> QED BY ONLY <2>1, FirstLinkIs
<1>5. FirstLink(t, f) = f
  <2>1. Names(t, f) = Names(t, p)
    BY <1>3 DEF Names
  <2>2. f \in Paths /\ Position(f) \in Names(t, f) /\ \A j \in Names(t, f) : Position(f) <= j
    BY <1>2, <1>3, <2>1
  <2> QED BY ONLY <2>2, FirstLinkIs
<1>6. Position(f) <= Position(p) /\ (f # p => Position(f) < Position(p))
  BY <1>1, <1>2, <1>3, PositionShape
<1> QED BY <1>3, <1>4, <1>5, <1>6

----------------------------------------------------------------------------
(* the ancestors of a path                                                 *)

\* Ancestors are paths that come earlier, and theirs are ancestors too.
LEMMA AncestorsShape ==
  ASSUME NEW p \in Paths, NEW q \in Ancestors(p)
  PROVE  /\ q \in Paths /\ Position(q) < Position(p) /\ q # p
         /\ Len(q) \in 1 .. Len(p) - 1 /\ Len(p) \in Nat
         /\ q = SubSeq(p, 1, Len(q))
         /\ Ancestors(q) \subseteq Ancestors(p)
<1>1. PICK n \in 1 .. Len(p) - 1 : q = SubSeq(p, 1, n)
  BY DEF Ancestors
<1>2. p \in Seq(Range(p)) /\ Len(p) \in Nat
  BY PathsAssumption
<1>3. q \in Paths /\ Position(q) < Position(p)
  BY PathsAssumption
<1>4. q # p
  BY <1>3, PositionShape
<1>5. Len(q) = n /\ q \in Seq(Range(p)) /\ n \in Nat /\ \A i \in 1 .. n : q[i] = p[i]
  BY <1>1, <1>2
<1>6. ASSUME NEW m \in 1 .. n - 1
      PROVE  SubSeq(q, 1, m) = SubSeq(p, 1, m)
  <2>1. m \in Nat /\ m <= Len(p) /\ m <= Len(q)
    BY <1>2, <1>5
  <2>2. \A i \in 1 .. m : q[i] = p[i]
    BY <1>5, <2>1
  <2> QED BY <2>1, <2>2, <1>2, <1>5
<1>7. Ancestors(q) \subseteq Ancestors(p)
  <2>1. \A m \in 1 .. n - 1 : m \in 1 .. Len(p) - 1
    BY <1>2
  <2> QED BY <1>5, <1>6, <2>1 DEF Ancestors
<1> QED BY <1>1, <1>2, <1>3, <1>4, <1>5, <1>7

----------------------------------------------------------------------------
(* the archive of a tree, and what tar makes of it                         *)

\* The type and the payload of an entry by the kind of its node.
LEMMA EntryShape ==
  ASSUME NEW t, NEW p, NEW w
  PROVE  LET e == EntryOf(t, p, w) IN
         /\ e.path = StoredPath(p, w) /\ e.mode = t[p].mode
         /\ t[p].kind # "file" => e.type = t[p].kind
         /\ t[p].kind = "symlink" => e.payload = StoredTarget(t[p].arg)
         /\ t[p].kind = "file" /\ FirstLink(t, p) = p => e.type = "file"
         /\ t[p].kind = "file" /\ FirstLink(t, p) # p =>
              e.type = "hardlink" /\ e.payload = StoredPath(FirstLink(t, p), w)
BY DEF EntryOf

\* The same where the names are kept.
LEMMA KeptEntryShape ==
  ASSUME NEW t, DOMAIN t \subseteq Paths, NEW w, NamesKept(t, w), NEW p \in DOMAIN t
  PROVE  LET e == EntryOf(t, p, w) IN
         /\ e.path = p /\ e.mode = t[p].mode
         /\ t[p].kind # "file" => e.type = t[p].kind
         /\ t[p].kind = "symlink" => e.payload = t[p].arg
         /\ t[p].kind = "file" /\ FirstLink(t, p) = p => e.type = "file"
         /\ t[p].kind = "file" /\ FirstLink(t, p) # p =>
              e.type = "hardlink" /\ e.payload = FirstLink(t, p)
<1>1. StoredPath(p, w) = p /\ (t[p].kind = "symlink" => StoredTarget(t[p].arg) = t[p].arg)
  BY DEF NamesKept
<1>2. t[p].kind = "file" => StoredPath(FirstLink(t, p), w) = FirstLink(t, p)
  <2>1. t[p].kind = "file" => FirstLink(t, p) \in DOMAIN t
    BY FirstLinkShape
  <2> QED BY <2>1 DEF NamesKept
<1> QED BY <1>1, <1>2, EntryShape

\* A tree that grew keeps its names when the daemon writes it.
LEMMA GrownKept ==
  ASSUME NEW t, Grown(t)
  PROVE  NamesKept(t, "daemon")
BY DEF Grown, NamesKept, StoredPath, StoredTarget

\* An archive has one entry for each path of its tree.
LEMMA ArchiveShape ==
  ASSUME NEW t, NEW w, DOMAIN t \subseteq Paths
  PROVE  /\ ArchiveOf(t, w) \in Seq(Range(ArchiveOf(t, w)))
         /\ DOMAIN ArchiveOf(t, w) = DOMAIN Collected(t)
         /\ DOMAIN ArchiveOf(t, w) = 1 .. Len(ArchiveOf(t, w))
         /\ \A i \in DOMAIN ArchiveOf(t, w) :
              ArchiveOf(t, w)[i] = EntryOf(t, Collected(t)[i], w) /\ Collected(t)[i] \in DOMAIN t
<1> DEFINE s == ArchiveOf(t, w)
           n == Cardinality(DOMAIN t)
<1>1. n \in Nat /\ DOMAIN Collected(t) = 1 .. n /\ Collected(t) \in [1 .. n -> DOMAIN t]
  BY CollectedShape
<1>2. DOMAIN s = 1 .. n /\ s = [i \in 1 .. n |-> s[i]]
  BY <1>1 DEF ArchiveOf
<1>3. \A i \in 1 .. n : s[i] = EntryOf(t, Collected(t)[i], w) /\ Collected(t)[i] \in DOMAIN t
  BY <1>1 DEF ArchiveOf
<1> HIDE DEF s, n
<1>4. \A i \in 1 .. n : s[i] \in Range(s)
  BY <1>2 DEF Range
<1>5. s \in Seq(Range(s)) /\ Len(s) = n
  BY <1>1, <1>2, <1>4
<1> QED BY <1>1, <1>2, <1>3, <1>5 DEF s, n

\* Docker's tar restores every tree whose parents are directories: what an entry
\* needs comes before it.
LEMMA TarRestoresGrown ==
  ASSUME NEW t, Grown(t),
         \A p \in DOMAIN t : NameFits(p) /\ (t[p].kind = "symlink" => NameFits(t[p].arg))
  PROVE  TarRestores(t)
<1> DEFINE s == ArchiveOf(t, "daemon")
           c == Collected(t)
           Before(i, type) == {s[j].path : j \in {k \in 1 .. i - 1 : s[k].type = type}}
<1>1. DOMAIN t \subseteq Paths /\ NamesKept(t, "daemon")
  BY GrownKept DEF Grown
<1>2. /\ DOMAIN s = DOMAIN c
      /\ DOMAIN s = 1 .. Len(s)
      /\ \A i \in DOMAIN s : s[i] = EntryOf(t, c[i], "daemon") /\ c[i] \in DOMAIN t
  BY <1>1, ArchiveShape
<1>3. /\ \A p \in DOMAIN t : \E i \in DOMAIN c : c[i] = p
      /\ \A i, j \in DOMAIN c : i < j <=> Position(c[i]) < Position(c[j])
  BY <1>1, CollectedShape
<1> HIDE DEF s, c
<1>4. ASSUME NEW i \in DOMAIN s, NEW q \in DOMAIN t, Position(q) < Position(c[i])
      PROVE  \E k \in 1 .. i - 1 : s[k] = EntryOf(t, q, "daemon")
  <2>1. PICK k \in DOMAIN c : c[k] = q
    BY <1>3
  <2>2. k < i
    BY <1>2, <1>3, <1>4, <2>1
  <2> QED BY <1>2, <2>1, <2>2
<1>5. ASSUME NEW i \in DOMAIN s
      PROVE  /\ NameFits(s[i].path)
             /\ Ancestors(s[i].path) \subseteq Before(i, "dir")
             /\ s[i].type \in {"hardlink", "symlink"} => NameFits(s[i].payload)
             /\ s[i].type = "hardlink" => s[i].payload \in Before(i, "file")
  <2> DEFINE p == c[i]
  <2>1. p \in DOMAIN t /\ s[i] = EntryOf(t, p, "daemon") /\ p \in Paths
    BY <1>1, <1>2
  <2>2. s[i].path = p
    BY <1>1, <2>1, KeptEntryShape
  <2>3. ASSUME NEW q \in Ancestors(p)
        PROVE  q \in Before(i, "dir")
    <3>1. q \in DOMAIN t /\ t[q].kind = "dir" /\ Position(q) < Position(p)
      BY <2>1, <2>3, AncestorsShape DEF Grown
    <3>2. PICK k \in 1 .. i - 1 : s[k] = EntryOf(t, q, "daemon")
      BY <3>1, <1>4
    <3>3. s[k].path = q /\ s[k].type = "dir"
      BY <1>1, <3>1, <3>2, KeptEntryShape
    <3> QED BY <3>3
  <2>4. t[p].kind \in {"dir", "file", "symlink"}
    BY <2>1 DEF Grown
  <2>5. ASSUME s[i].type = "hardlink"
        PROVE  NameFits(s[i].payload) /\ s[i].payload \in Before(i, "file")
    <3> DEFINE f == FirstLink(t, p)
    <3>1. t[p].kind = "file" /\ f # p /\ s[i].payload = f
      BY <1>1, <2>1, <2>4, <2>5, KeptEntryShape
    <3>2. f \in DOMAIN t /\ t[f].kind = "file" /\ FirstLink(t, f) = f /\ Position(f) < Position(p)
      BY <1>1, <2>1, <3>1, FirstLinkShape
    <3> HIDE DEF f
    <3>3. PICK k \in 1 .. i - 1 : s[k] = EntryOf(t, f, "daemon")
      BY <3>2, <1>4
    <3>4. s[k].path = f /\ s[k].type = "file"
      BY <1>1, <3>2, <3>3, KeptEntryShape
    <3> QED BY <3>1, <3>2, <3>4
  <2>6. s[i].type = "symlink" => NameFits(s[i].payload)
    <3>1. s[i].type = "symlink" => t[p].kind = "symlink" /\ s[i].payload = t[p].arg
      BY <1>1, <2>1, <2>4, KeptEntryShape
    <3> QED BY <2>1, <3>1
  <2> QED BY <2>1, <2>2, <2>3, <2>5, <2>6
<1> QED BY <1>5 DEF TarRestores, s

----------------------------------------------------------------------------
(* what an entry makes                                                     *)

\* The entry, the parents that were missing, and everything that was there, of
\* which only the mode of a file may change.
LEMMA WithShape ==
  ASSUME NEW e, e.path \notin DOMAIN built, e.path \notin Ancestors(e.path),
         NEW q \in DOMAIN With(e)
  PROVE  /\ q \in DOMAIN built \/ q \in Ancestors(e.path) \/ q = e.path
         /\ q # e.path /\ q \notin DOMAIN built =>
              With(e)[q] = [kind |-> "dir", mode |-> "rw", arg |-> <<>>]
         /\ q # e.path /\ q \in DOMAIN built =>
              \/ With(e)[q] = built[q]
              \/ /\ With(e)[q] = [built[q] EXCEPT !.mode = Masked(e.mode)]
                 /\ built[q].kind = "file" /\ With(e)[e.path].kind = "file"
                 /\ built[q].arg = With(e)[e.path].arg
         /\ q = e.path /\ e.type = "hardlink" =>
              With(e)[q] = [kind |-> "file", mode |-> Masked(e.mode), arg |-> built[e.payload].arg]
         /\ q = e.path /\ e.type # "hardlink" =>
              With(e)[q] = [kind |-> e.type, mode |-> Masked(e.mode), arg |-> IF e.type = "file" THEN e.path ELSE e.payload]
<1> DEFINE parents == Ancestors(e.path) \ DOMAIN built
           node == IF e.type = "hardlink" THEN [kind |-> "file", mode |-> Masked(e.mode), arg |-> built[e.payload].arg]
                   ELSE [kind |-> e.type, mode |-> Masked(e.mode), arg |-> IF e.type = "file" THEN e.path ELSE e.payload]
           same == {r \in DOMAIN built : built[r].kind = "file" /\ node.kind = "file" /\ built[r].arg = node.arg}
           Plain == [kind |-> "dir", mode |-> "rw", arg |-> <<>>]
           Changed(r) == [built[r] EXCEPT !.mode = Masked(e.mode)]
           Value(r) == CASE r = e.path -> node
                         [] r \in parents -> Plain
                         [] r \in same -> Changed(r)
                         [] OTHER -> built[r]
<1>1. With(e) = [r \in DOMAIN built \cup parents \cup {e.path} |-> Value(r)]
  BY Zenon DEF With
<1>2. q \in DOMAIN built \cup parents \cup {e.path} /\ With(e)[q] = Value(q)
  <2> HIDE DEF Value, node, parents
  <2> QED BY <1>1
<1>3. same \cap parents = {} /\ e.path \notin parents /\ e.path \notin same
  OBVIOUS
<1>4. \A r \in same : /\ r \in DOMAIN built /\ built[r].kind = "file"
                      /\ node.kind = "file" /\ built[r].arg = node.arg
  OBVIOUS
<1>5. With(e)[e.path] = node
  <2>1. Value(e.path) = node
    <3> HIDE DEF node, same, parents, Plain, Changed
    <3> QED BY ONLY <1>3
  <2>2. e.path \in DOMAIN built \cup parents \cup {e.path}
    OBVIOUS
  <2> HIDE DEF Value, node, parents
  <2> QED BY <1>1, <2>1, <2>2
<1>6. /\ q = e.path => Value(q) = node
      /\ q # e.path /\ q \in parents => Value(q) = Plain
      /\ q # e.path /\ q \notin parents /\ q \in same => Value(q) = Changed(q)
      /\ q # e.path /\ q \notin parents /\ q \notin same => Value(q) = built[q]
  <2> HIDE DEF node, same, parents, Plain, Changed
  <2> QED BY ONLY <1>3
<1>7. /\ e.type = "hardlink" => node = [kind |-> "file", mode |-> Masked(e.mode), arg |-> built[e.payload].arg]
      /\ e.type # "hardlink" =>
           node = [kind |-> e.type, mode |-> Masked(e.mode), arg |-> IF e.type = "file" THEN e.path ELSE e.payload]
  OBVIOUS
<1>8. q \in parents <=> q \in Ancestors(e.path) /\ q \notin DOMAIN built
  OBVIOUS
<1>9. Changed(q) = [built[q] EXCEPT !.mode = Masked(e.mode)] /\ Plain = [kind |-> "dir", mode |-> "rw", arg |-> <<>>]
  BY Zenon
<1> HIDE DEF node, same, parents, Value, Plain, Changed
<1> QED BY <1>2, <1>3, <1>4, <1>5, <1>6, <1>7, <1>8, <1>9

LEMMA WithDomain ==
  ASSUME NEW e
  PROVE  DOMAIN With(e) = DOMAIN built \cup Ancestors(e.path) \cup {e.path}
BY DEF With

\* What Fits says of an entry.
LEMMA FitsShape ==
  ASSUME NEW e
  PROVE  Fits(e) <=>
           /\ e.mode # "suid" /\ e.path \in Paths /\ e.path \notin DOMAIN built
           /\ \/ e.type \in {"dir", "file"}
              \/ e.type = "symlink" /\ Inside(e.path, e.payload)
              \/ e.type = "hardlink" /\ e.payload \in Taken({"file"})
<1> DEFINE A == Inside(e.path, e.payload)
           B == e.payload \in Taken({"file"})
           C == CASE e.type \in {"dir", "file"} -> TRUE
                  [] e.type = "symlink" -> A
                  [] e.type = "hardlink" -> B
                  [] OTHER -> FALSE
<1>1. Fits(e) <=> e.mode # "suid" /\ e.path \in Paths /\ e.path \notin DOMAIN built /\ C
  BY DEF Fits, Readable
<1>2. A \in BOOLEAN /\ B \in BOOLEAN
  BY DEF Inside
<1>3. C <=> \/ e.type \in {"dir", "file"}
            \/ e.type = "symlink" /\ A
            \/ e.type = "hardlink" /\ B
  <2> HIDE DEF A, B
  <2> QED BY <1>2
<1> HIDE DEF C
<1> QED BY <1>1, <1>3 DEF A, B

\* An entry that is taken leaves a tree that could be exported: its parents are no
\* files, as mkdir would fail, and no links, as they are remembered.
LEMMA GrownWith ==
  ASSUME Grown(built),
         \A p \in DOMAIN built :
           /\ DOMAIN built[p] = {"kind", "mode", "arg"}
           /\ built[p].kind = "symlink" => p \in Taken({"symlink"}),
         NEW e, TextOf[e.path] = e.path, e.type = "symlink" => TextOf[e.payload] = e.payload,
         NoSymlinkAncestor(e), CanReach(e), Fits(e)
  PROVE  /\ Grown(With(e))
         /\ \A p \in DOMAIN With(e) :
              /\ DOMAIN With(e)[p] = {"kind", "mode", "arg"}
              /\ With(e)[p].kind = "symlink" =>
                   \/ p \in DOMAIN built /\ p \in Taken({"symlink"})
                   \/ p = e.path /\ e.type = "symlink"
<1> DEFINE w == With(e)
<1>1. /\ Masked(e.mode) # "suid" /\ e.path \in Paths /\ e.path \notin DOMAIN built
      /\ \/ e.type \in {"dir", "file"}
         \/ e.type = "symlink" /\ Inside(e.path, e.payload)
         \/ e.type = "hardlink" /\ e.payload \in Taken({"file"})
  BY FitsShape DEF Masked
<1>2. /\ e.path \notin Ancestors(e.path) /\ Ancestors(e.path) \subseteq Paths
      /\ \A q \in Ancestors(e.path) : TextOf[q] = q
  BY <1>1, AncestorsShape, TextAssumption
<1>3. DOMAIN w = DOMAIN built \cup Ancestors(e.path) \cup {e.path}
  BY WithDomain
<1>4. ASSUME NEW q \in DOMAIN built
      PROVE  /\ DOMAIN w[q] = {"kind", "mode", "arg"}
             /\ w[q].kind = built[q].kind /\ w[q].arg = built[q].arg
             /\ w[q].mode \in {built[q].mode, Masked(e.mode)}
  <2>1. \/ w[q] = built[q]
        \/ w[q] = [built[q] EXCEPT !.mode = Masked(e.mode)]
    <3>1. q \in DOMAIN w
      BY <1>3
    <3> QED BY ONLY <3>1, <1>1, <1>2, q \in DOMAIN built, WithShape
  <2>2. DOMAIN built[q] = {"kind", "mode", "arg"}
    OBVIOUS
  <2> DEFINE n == built[q]
  <2>3. /\ DOMAIN [n EXCEPT !.mode = Masked(e.mode)] = {"kind", "mode", "arg"}
        /\ [n EXCEPT !.mode = Masked(e.mode)].kind = n.kind
        /\ [n EXCEPT !.mode = Masked(e.mode)].arg = n.arg
        /\ [n EXCEPT !.mode = Masked(e.mode)].mode = Masked(e.mode)
    <3> HIDE DEF n
    <3>1. DOMAIN n = {"kind", "mode", "arg"}
      BY <2>2 DEF n
    <3> QED BY ONLY <3>1
  <2> HIDE DEF w
  <2> QED BY <2>1, <2>2, <2>3
<1>5. ASSUME NEW q \in Ancestors(e.path), q \notin DOMAIN built
      PROVE  w[q] = [kind |-> "dir", mode |-> "rw", arg |-> <<>>]
  BY <1>1, <1>2, <1>3, <1>5, WithShape
<1>6. /\ e.type = "hardlink" =>
           w[e.path] = [kind |-> "file", mode |-> Masked(e.mode), arg |-> built[e.payload].arg]
      /\ e.type # "hardlink" =>
           w[e.path] = [kind |-> e.type, mode |-> Masked(e.mode), arg |-> IF e.type = "file" THEN e.path ELSE e.payload]
  <2>1. e.path \in DOMAIN w
    BY <1>3
  <2> QED BY ONLY <2>1, <1>1, <1>2, WithShape
<1> HIDE DEF w
<1>7. /\ DOMAIN w[e.path] = {"kind", "mode", "arg"}
      /\ w[e.path].kind \in {"dir", "file", "symlink"}
      /\ w[e.path].mode # "suid"
      /\ w[e.path].kind = "symlink" => e.type = "symlink" /\ w[e.path].arg = e.payload
  <2>1. CASE e.type = "hardlink"
    BY ONLY <2>1, <1>1, <1>6
  <2>2. CASE e.type # "hardlink"
    BY ONLY <2>2, <1>1, <1>6
  <2> QED BY <2>1, <2>2
<1>8. \A q \in Ancestors(e.path) : q \in DOMAIN built => built[q].kind = "dir"
  <2>1. \A q \in Ancestors(e.path) : q \in DOMAIN built => built[q].kind # "file"
    BY DEF CanReach
  <2>2. \A q \in Ancestors(e.path) : q \in DOMAIN built => built[q].kind # "symlink"
    BY DEF NoSymlinkAncestor
  <2> QED BY <2>1, <2>2 DEF Grown
<1>9. \A q \in Ancestors(e.path) : q \in DOMAIN w /\ w[q].kind = "dir"
  <2>1. \A q \in Ancestors(e.path) : q \notin DOMAIN built => w[q].kind = "dir"
    BY <1>5
  <2> QED BY <1>3, <1>4, <1>8, <2>1
<1>10. ASSUME NEW p \in DOMAIN w
       PROVE  /\ \A q \in Ancestors(p) : q \in DOMAIN w /\ w[q].kind = "dir"
              /\ w[p].kind \in {"dir", "file", "symlink"}
              /\ w[p].mode # "suid"
              /\ TextOf[p] = p
              /\ w[p].kind = "symlink" => Inside(p, w[p].arg) /\ TextOf[w[p].arg] = w[p].arg
              /\ DOMAIN w[p] = {"kind", "mode", "arg"}
              /\ w[p].kind = "symlink" =>
                   \/ p \in DOMAIN built /\ p \in Taken({"symlink"})
                   \/ p = e.path /\ e.type = "symlink"
  <2>1. CASE p \in DOMAIN built
    <3>1. /\ \A q \in Ancestors(p) : q \in DOMAIN built /\ built[q].kind = "dir"
          /\ built[p].kind \in {"dir", "file", "symlink"} /\ built[p].mode # "suid"
          /\ TextOf[p] = p
          /\ built[p].kind = "symlink" => Inside(p, built[p].arg) /\ TextOf[built[p].arg] = built[p].arg
      BY <2>1 DEF Grown
    <3>2. \A q \in Ancestors(p) : q \in DOMAIN w /\ w[q].kind = "dir"
      BY <3>1, <1>3, <1>4
    <3>3. w[p].kind = built[p].kind /\ w[p].arg = built[p].arg /\ w[p].mode # "suid"
      BY <2>1, <3>1, <1>1, <1>4
    <3> QED BY <2>1, <3>1, <3>2, <3>3, <1>4
  <2>2. CASE p \in Ancestors(e.path) /\ p \notin DOMAIN built
    <3>1. \A q \in Ancestors(p) : q \in DOMAIN w /\ w[q].kind = "dir"
      BY <2>2, <1>1, <1>9, AncestorsShape
    <3>2. w[p] = [kind |-> "dir", mode |-> "rw", arg |-> <<>>]
      BY <2>2, <1>5
    <3> QED BY <2>2, <3>1, <3>2, <1>2
  <2>3. CASE p = e.path
    <3>1. w[p].kind = "symlink" => Inside(p, w[p].arg) /\ TextOf[w[p].arg] = w[p].arg
      BY <2>3, <1>1, <1>7
    <3> QED BY <2>3, <3>1, <1>7, <1>9
  <2> QED BY <1>3, <2>1, <2>2, <2>3
<1>11. DOMAIN w \subseteq Paths
  BY <1>1, <1>2, <1>3 DEF Grown
<1> QED BY <1>10, <1>11 DEF Grown, w

----------------------------------------------------------------------------
(* the archive a writer made                                               *)

\* A target without ".." stays inside.
LEMMA PlainTargetInside ==
  ASSUME NEW p \in Paths, NEW target, target \in Seq(Range(target)), ".." \notin Range(target)
  PROVE  Inside(p, target)
<1>1. Len(p) \in Nat /\ Len(p) >= 1
  BY PathsAssumption
<1>2. ASSUME NEW n \in 1 .. Len(target)
      PROVE  Cardinality({i \in 1 .. n : target[i] = ".."}) = 0
  <2>1. \A i \in 1 .. n : target[i] \in Range(target)
    BY DEF Range
  <2>2. {i \in 1 .. n : target[i] = ".."} = {}
    BY <2>1
  <2> QED BY <2>2, FS_EmptySet
<1>3. Len(target) \in Nat
  OBVIOUS
<1>4. \A n \in 1 .. Len(target) : Len(p) - 1 + n >= 2 * 0
  BY <1>1, <1>3
<1> QED BY <1>2, <1>4 DEF Inside

\* What either writer stores under the names it met could be exported again.
LEMMA StoredGrown ==
  ASSUME FromWriter, writer # "none", NamesKept(source, writer)
  PROVE  Grown(source)
<1> DEFINE t == source
<1>1. t \in Workspaces /\ DOMAIN t \subseteq Paths
  BY WorkspacesAssumption DEF FromWriter
<1>2. \A p \in DOMAIN t : t[p].kind # "fifo" /\ t[p].mode # "suid"
  BY DEF FromWriter, GuestAccepts, DaemonAccepts, Storable
<1>3. \A p \in DOMAIN t :
        /\ t[p].kind \in {"dir", "file", "symlink", "fifo"}
        /\ \A q \in Ancestors(p) : q \in DOMAIN t /\ t[q].kind = "dir"
        /\ t[p].kind = "symlink" => t[p].arg \in Seq(Range(t[p].arg))
  BY <1>1, WorkspacesAssumption
<1>4. ASSUME NEW p \in DOMAIN t
      PROVE  TextOf[p] = p /\ (t[p].kind = "symlink" => TextOf[t[p].arg] = t[p].arg)
  <2>1. StoredPath(p, writer) = p /\ (t[p].kind = "symlink" => StoredTarget(t[p].arg) = t[p].arg)
    BY DEF NamesKept
  <2>2. TextOf[Slashed[TextOf[p]]] = Slashed[TextOf[p]]
    BY <1>1, TextAssumption
  <2> QED BY <2>1, <2>2 DEF StoredPath, StoredTarget
<1>5. ASSUME NEW p \in DOMAIN t, t[p].kind = "symlink"
      PROVE  Inside(p, t[p].arg)
  <2>1. CASE GuestAccepts(t)
    <3>1. ".." \notin Range(t[p].arg)
      BY <1>5, <2>1 DEF GuestAccepts
    <3> QED BY <1>1, <1>3, <1>5, <3>1, PlainTargetInside
  <2>2. CASE DaemonAccepts(t)
    <3>1. Inside(p, TextOf[t[p].arg])
      BY <1>5, <2>2 DEF DaemonAccepts
    <3> QED BY <1>4, <1>5, <3>1
  <2> QED BY <2>1, <2>2 DEF FromWriter
<1> QED BY <1>1, <1>2, <1>3, <1>4, <1>5 DEF Grown

\* A file of a workspace is named after its first path, which shares its mode.
LEMMA InodeShape ==
  ASSUME NEW t \in Workspaces, NEW p \in DOMAIN t, t[p].kind = "file"
  PROVE  LET f == FirstLink(t, p) IN
         /\ f = t[p].arg /\ f \in DOMAIN t
         /\ t[f].kind = "file" /\ t[f].arg = f /\ t[f].mode = t[p].mode
         /\ FirstLink(t, f) = f
         /\ f # p => Position(f) < Position(p)
<1>1. DOMAIN t \subseteq Paths /\ FirstLink(t, p) = t[p].arg /\ t[t[p].arg].mode = t[p].mode
  BY WorkspacesAssumption
<1> QED BY <1>1, FirstLinkShape

\* The place in such an archive: the next entry is that of a path not done, and those
\* of all earlier paths, its ancestors and the first of its inode among them, are done.
LEMMA PlaceShape ==
  ASSUME ArchiveTypes, FromWriter, writer # "none", next <= Len(archive)
  PROVE  LET p == Collected(source)[next] IN
         /\ p \in DOMAIN source /\ archive[next] = EntryOf(source, p, writer)
         /\ p \notin Done /\ Done \subseteq DOMAIN source
         /\ \A q \in Done : Position(q) < Position(p)
         /\ \A q \in DOMAIN source : Position(q) < Position(p) =>
              /\ q \in Done
              /\ \E k \in 1 .. next - 1 : archive[k] = EntryOf(source, q, writer)
         /\ Done \cup {p} = {Collected(source)[j] : j \in 1 .. next}
<1> DEFINE c == Collected(source)
           p == c[next]
<1>1. DOMAIN source \subseteq Paths
  BY WorkspacesAssumption DEF FromWriter
<1>2. /\ DOMAIN archive = DOMAIN c
      /\ \A i \in DOMAIN archive : archive[i] = EntryOf(source, c[i], writer) /\ c[i] \in DOMAIN source
  BY <1>1, ArchiveShape DEF FromWriter
<1>3. /\ \A q \in DOMAIN source : \E i \in DOMAIN c : c[i] = q
      /\ \A i, j \in DOMAIN c : i < j <=> Position(c[i]) < Position(c[j])
      /\ \A i, j \in DOMAIN c : c[i] = c[j] => i = j
  BY <1>1, CollectedShape
<1>4. Done = {c[j] : j \in 1 .. next - 1}
  BY DEF Done
<1>5. DOMAIN archive = 1 .. Len(archive) /\ next \in DOMAIN archive /\ next \in Nat
  BY DEF ArchiveTypes
<1> HIDE DEF c
<1>6. p \notin Done /\ Done \subseteq DOMAIN source /\ \A q \in Done : Position(q) < Position(p)
  <2>1. \A j \in 1 .. next - 1 : j \in DOMAIN c /\ j # next /\ j < next
    BY <1>2, <1>5
  <2> QED BY <1>2, <1>3, <1>4, <1>5, <2>1
<1>7. ASSUME NEW q \in DOMAIN source, Position(q) < Position(p)
      PROVE  /\ q \in Done
             /\ \E k \in 1 .. next - 1 : archive[k] = EntryOf(source, q, writer)
  <2>1. PICK k \in DOMAIN c : c[k] = q
    BY <1>3
  <2>2. k \in 1 .. next - 1
    BY <1>2, <1>3, <1>5, <1>7, <2>1
  <2> QED BY <1>2, <1>4, <2>1, <2>2
<1>8. Done \cup {p} = {c[j] : j \in 1 .. next}
  <2>1. 1 .. next = (1 .. next - 1) \cup {next}
    BY <1>5
  <2> QED BY <1>4, <2>1
<1> QED BY <1>2, <1>5, <1>6, <1>7, <1>8 DEF c

\* Where the names are kept no entry is refused for its path, type or payload.
LEMMA StoredFits ==
  ASSUME ArchiveTypes, FromWriter, BuiltSame, verdict = "extracting",
         writer # "none", NamesKept(source, writer), next <= Len(archive)
  PROVE  NoSymlinkAncestor(archive[next]) /\ Fits(archive[next])
<1> DEFINE p == Collected(source)[next]
           e == EntryOf(source, p, writer)
<1>1. Grown(source) /\ source \in Workspaces /\ DOMAIN source \subseteq Paths
  BY StoredGrown DEF FromWriter, Grown
<1>2. /\ p \in DOMAIN source /\ archive[next] = e
      /\ p \notin DOMAIN built /\ p \in Paths
      /\ \A q \in DOMAIN source : Position(q) < Position(p) =>
              \E k \in 1 .. next - 1 : archive[k] = EntryOf(source, q, writer)
  BY <1>1, PlaceShape DEF BuiltSame
<1>3. /\ source[p].kind \in {"dir", "file", "symlink"}
      /\ source[p].mode # "suid"
      /\ source[p].kind = "symlink" => Inside(p, source[p].arg)
      /\ \A q \in Ancestors(p) : q \in DOMAIN source /\ source[q].kind = "dir"
  BY <1>2, <1>1 DEF Grown
<1>4. e.path = p /\ e.mode = source[p].mode
  BY <1>2, <1>1, KeptEntryShape
<1>5. NoSymlinkAncestor(archive[next])
  <2>1. ASSUME NEW j \in 1 .. next - 1, archive[j].type = "symlink"
        PROVE  archive[j].path \notin Ancestors(p)
    <3> DEFINE r == Collected(source)[j]
    <3>1. archive[j] = EntryOf(source, r, writer) /\ r \in DOMAIN source
      <4>1. j \in DOMAIN archive
        BY DEF ArchiveTypes
      <4> QED BY <4>1, <1>1, ArchiveShape DEF FromWriter
    <3>2. archive[j].path = r /\ source[r].kind = "symlink"
      <4>1. source[r].kind \in {"dir", "file", "symlink"}
        BY <1>1, <3>1 DEF Grown
      <4> QED BY <1>1, <2>1, <3>1, <4>1, KeptEntryShape
    <3> QED BY <3>2, <1>3
  <2> QED BY <1>2, <1>4, <2>1 DEF NoSymlinkAncestor, Taken
<1>6. \/ e.type \in {"dir", "file"}
      \/ e.type = "symlink" /\ Inside(p, e.payload)
      \/ e.type = "hardlink" /\ e.payload \in Taken({"file"})
  <2>1. CASE source[p].kind # "file"
    BY <2>1, <1>2, <1>1, <1>3, KeptEntryShape
  <2>2. CASE source[p].kind = "file" /\ FirstLink(source, p) = p
    BY <2>2, <1>2, <1>1, KeptEntryShape
  <2>3. CASE source[p].kind = "file" /\ FirstLink(source, p) # p
    <3> DEFINE f == FirstLink(source, p)
    <3>1. e.type = "hardlink" /\ e.payload = f
      BY <2>3, <1>2, <1>1, KeptEntryShape
    <3>2. f \in DOMAIN source /\ source[f].kind = "file" /\ FirstLink(source, f) = f /\ Position(f) < Position(p)
      BY <2>3, <1>2, <1>1, InodeShape
    <3> HIDE DEF f
    <3>3. PICK k \in 1 .. next - 1 : archive[k] = EntryOf(source, f, writer)
      BY <1>2, <3>2
    <3>4. archive[k].path = f /\ archive[k].type = "file"
      BY <1>1, <3>2, <3>3, KeptEntryShape
    <3> QED BY <3>1, <3>4 DEF Taken
  <2> QED BY <2>1, <2>2, <2>3
<1> HIDE DEF e, p
<1> QED BY <1>2, <1>3, <1>4, <1>5, <1>6, FitsShape

\* So if it is refused, its directory is read-only and the daemon is not root.
LEMMA StoredReach ==
  ASSUME ArchiveTypes, FromWriter, BuiltSame, verdict = "extracting",
         writer # "none", NamesKept(source, writer), next <= Len(archive), ~CanReach(archive[next])
  PROVE  ~Root /\ LockedDirectory(source)
<1> DEFINE p == Collected(source)[next]
<1>1. Grown(source) /\ DOMAIN source \subseteq Paths
  BY StoredGrown DEF Grown
<1>2. /\ p \in DOMAIN source /\ archive[next].path = p
      /\ \A q \in DOMAIN source : Position(q) < Position(p) => q \in DOMAIN built
  BY <1>1, PlaceShape, KeptEntryShape DEF BuiltSame
<1>3. \A q \in Ancestors(p) : q \in DOMAIN source /\ source[q].kind = "dir" /\ q \in DOMAIN built
  BY <1>2, <1>1, AncestorsShape DEF Grown
<1>4. \A q \in Ancestors(p) : built[q].kind = "dir" /\ built[q].mode = Masked(source[q].mode)
  <2>1. Holds(built, source, writer, Done) /\ DOMAIN built = Done
    BY DEF BuiltSame
  <2>2. \A q \in Ancestors(p) : StoredPath(q, writer) = q /\ q \in Done
    BY <1>3, <2>1 DEF NamesKept
  <2> QED BY <1>3, <2>1, <2>2 DEF Holds
<1> HIDE DEF p
<1>5. PICK q \in Ancestors(p) : /\ \A r \in Ancestors(p) : Len(r) <= Len(q)
                                /\ ~Root /\ Masked(source[q].mode) # "rw"
  BY <1>2, <1>3, <1>4 DEF CanReach
<1>6. q = Front(p) /\ Len(p) > 1
  <2>1. p \in Paths /\ Len(p) \in Nat /\ p \in Seq(Range(p))
    BY <1>2, <1>1, PathsAssumption DEF Grown
  <2>2. Len(q) \in 1 .. Len(p) - 1 /\ q = SubSeq(p, 1, Len(q))
    BY <2>1, AncestorsShape
  <2>3. SubSeq(p, 1, Len(p) - 1) \in Ancestors(p)
    <3>1. Len(p) - 1 \in 1 .. Len(p) - 1
      BY ONLY <2>1, <2>2
    <3> QED BY ONLY <3>1 DEF Ancestors
  <2>4. Len(SubSeq(p, 1, Len(p) - 1)) = Len(p) - 1
    BY ONLY <2>1, <2>2
  <2>5. Len(q) = Len(p) - 1
    <3>1. Len(p) - 1 <= Len(q)
      BY ONLY <1>5, <2>3, <2>4
    <3> QED BY ONLY <2>1, <2>2, <3>1
  <2> QED BY ONLY <2>1, <2>2, <2>5 DEF Front
<1> QED BY <1>2, <1>3, <1>5, <1>6 DEF LockedDirectory

\* An entry that is taken makes the node the writer met, under its stored name, and
\* changes none of the nodes there; parents are only added where names were changed.
LEMMA StoredMade ==
  ASSUME ArchiveTypes, FromWriter, BuiltSame, verdict = "extracting",
         \A q \in DOMAIN built : DOMAIN built[q] = {"kind", "mode", "arg"},
         writer # "none", next <= Len(archive), Fits(archive[next])
  PROVE  LET w == With(archive[next])
             D == {Collected(source)[j] : j \in 1 .. next} IN
         /\ Holds(w, source, writer, D)
         /\ NamesKept(source, writer) => DOMAIN w = D
<1> DEFINE p == Collected(source)[next]
           e == archive[next]
           w == With(e)
           D == Done \cup {p}
           S(q) == StoredPath(q, writer)
<1>1. /\ p \in DOMAIN source /\ e = EntryOf(source, p, writer)
      /\ p \notin Done /\ Done \subseteq DOMAIN source
      /\ \A q \in Done : Position(q) < Position(p)
      /\ \A q \in DOMAIN source : Position(q) < Position(p) => q \in Done
      /\ D = {Collected(source)[j] : j \in 1 .. next}
  BY PlaceShape
<1>2. source \in Workspaces /\ DOMAIN source \subseteq Paths
  BY WorkspacesAssumption DEF FromWriter
<1>3. e.path = S(p) /\ e.mode = source[p].mode
  BY <1>1, EntryShape
<1>4. S(p) \notin DOMAIN built /\ S(p) \in Paths /\ S(p) \notin Ancestors(S(p))
  BY <1>3, FitsShape, AncestorsShape
<1>5. /\ Holds(built, source, writer, Done)
      /\ NamesKept(source, writer) => DOMAIN built = Done
  BY DEF BuiltSame
<1>6. /\ \A q \in Done : S(q) \in DOMAIN built /\ S(q) # S(p)
      /\ \A q, r \in D : S(q) = S(r) => q = r
  <2>1. \A q \in Done : S(q) \in DOMAIN built /\ \A r \in Done : S(r) = S(q) => r = q
    BY <1>5 DEF Holds
  <2> HIDE DEF S
  <2> QED BY <2>1, <1>4
<1>7. ASSUME NEW q \in D, source[q].kind = "file"
      PROVE  LET g == source[q].arg IN
             /\ g = FirstLink(source, q) /\ g \in D
             /\ source[g].kind = "file" /\ source[g].arg = g /\ source[g].mode = source[q].mode
             /\ g # q => g \in Done
  <2> DEFINE g == source[q].arg
  <2>1. /\ g = FirstLink(source, q) /\ g \in DOMAIN source
        /\ source[g].kind = "file" /\ source[g].arg = g /\ source[g].mode = source[q].mode
        /\ g # q => Position(g) < Position(q)
    BY <1>1, <1>2, <1>7, InodeShape
  <2>2. /\ q \in DOMAIN source /\ (q = p \/ Position(q) < Position(p))
        /\ Position(g) \in Nat /\ Position(q) \in Nat /\ Position(p) \in Nat
    BY <1>1, <1>2, <2>1, PositionShape
  <2>3. g # q => Position(g) < Position(p)
    BY <2>1, <2>2
  <2> QED BY <1>1, <2>1, <2>3
<1>8. DOMAIN w = DOMAIN built \cup Ancestors(S(p)) \cup {S(p)}
  BY <1>3, WithDomain
<1>9. /\ w[S(p)].kind = source[p].kind
      /\ w[S(p)].mode = Masked(source[p].mode)
      /\ source[p].kind = "symlink" => w[S(p)].arg = StoredTarget(source[p].arg)
      /\ source[p].kind = "file" => w[S(p)].arg = S(source[p].arg)
  <2>1. /\ e.type = "hardlink" =>
             w[S(p)] = [kind |-> "file", mode |-> Masked(e.mode), arg |-> built[e.payload].arg]
        /\ e.type # "hardlink" =>
             w[S(p)] = [kind |-> e.type, mode |-> Masked(e.mode), arg |-> IF e.type = "file" THEN e.path ELSE e.payload]
    <3>1. S(p) \in DOMAIN w
      BY <1>8
    <3> QED BY ONLY <3>1, <1>3, <1>4, WithShape
  <2> DEFINE f == FirstLink(source, p)
  <2>2. source[p].kind \in {"dir", "file", "symlink"}
    <3>1. source[p].kind \in {"dir", "file", "symlink", "fifo"}
      BY <1>1, <1>2, WorkspacesAssumption
    <3>2. source[p].kind # "fifo"
      BY <1>1 DEF FromWriter, GuestAccepts, DaemonAccepts, Storable
    <3> QED BY <3>1, <3>2
  <2>3. /\ source[p].kind # "file" => e.type = source[p].kind
        /\ source[p].kind = "symlink" => e.payload = StoredTarget(source[p].arg)
        /\ source[p].kind = "file" /\ f = p => e.type = "file"
        /\ source[p].kind = "file" /\ f # p => e.type = "hardlink" /\ e.payload = S(f)
    BY <1>1, EntryShape
  <2>4. CASE source[p].kind # "file"
    <3> HIDE DEF w, e, p, S
    <3> QED BY ONLY <2>1, <2>2, <2>3, <2>4, <1>3
  <2>5. CASE source[p].kind = "file" /\ f = p
    <3>1. source[p].arg = p
      BY <2>5, <1>7
    <3> HIDE DEF w, e, p, S, f
    <3> QED BY ONLY <2>1, <2>3, <2>5, <3>1, <1>3
  <2>6. CASE source[p].kind = "file" /\ f # p
    <3>1. f = source[p].arg /\ f \in Done /\ source[f].kind = "file" /\ source[f].arg = f
      BY <2>6, <1>7
    <3>2. built[S(f)].arg = S(f)
      BY <3>1, <1>5 DEF Holds
    <3> HIDE DEF w, e, p, S, f
    <3> QED BY ONLY <2>1, <2>3, <2>6, <3>1, <3>2, <1>3
  <2> QED BY <2>4, <2>5, <2>6
<1>10. ASSUME NEW q \in Done
       PROVE  /\ S(q) \in DOMAIN w
              /\ w[S(q)].kind = source[q].kind
              /\ w[S(q)].mode = Masked(source[q].mode)
              /\ source[q].kind = "symlink" => w[S(q)].arg = StoredTarget(source[q].arg)
              /\ source[q].kind = "file" => w[S(q)].arg = S(source[q].arg)
  <2> DEFINE n == built[S(q)]
             m == Masked(e.mode)
  <2>1. /\ S(q) \in DOMAIN built /\ n.kind = source[q].kind /\ n.mode = Masked(source[q].mode)
        /\ source[q].kind = "symlink" => n.arg = StoredTarget(source[q].arg)
        /\ source[q].kind = "file" => n.arg = S(source[q].arg)
    BY <1>5 DEF Holds
  <2>2. S(q) # S(p) /\ S(q) \in DOMAIN w
    BY <1>6, <1>8, <2>1
  <2>3. \/ w[S(q)] = n
        \/ /\ w[S(q)] = [n EXCEPT !.mode = m]
           /\ n.kind = "file" /\ w[S(p)].kind = "file" /\ n.arg = w[S(p)].arg
    BY ONLY <2>1, <2>2, <1>3, <1>4, WithShape
  <2>4. DOMAIN n = {"kind", "mode", "arg"}
    BY <2>1
  <2>5. CASE /\ w[S(q)] = [n EXCEPT !.mode = m]
             /\ n.kind = "file" /\ w[S(p)].kind = "file" /\ n.arg = w[S(p)].arg
    <3>1. source[q].kind = "file" /\ source[p].kind = "file" /\ S(source[q].arg) = S(source[p].arg)
      BY ONLY <2>1, <2>5, <1>9
    <3>2. source[q].arg = source[p].arg
      <4>1. source[q].arg \in D /\ source[p].arg \in D
        BY <1>7, <3>1
      <4> HIDE DEF S, D, p
      <4> QED BY ONLY <4>1, <3>1, <1>6
    <3>3. source[q].mode = source[p].mode
      <4>1. /\ source[source[q].arg].mode = source[q].mode
            /\ source[source[p].arg].mode = source[p].mode
        BY <1>7, <3>1
      <4> QED BY ONLY <3>2, <4>1
    <3>4. w[S(q)].kind = n.kind /\ w[S(q)].mode = m /\ w[S(q)].arg = n.arg
      <4> HIDE DEF n, m, w, S
      <4> QED BY ONLY <2>4, <2>5
    <3>5. m = Masked(source[q].mode)
      BY <3>3, <1>3
    <3> HIDE DEF n, m, w, S
    <3> QED BY ONLY <2>1, <2>2, <3>4, <3>5
  <2>6. CASE w[S(q)] = n
    BY ONLY <2>1, <2>2, <2>6
  <2> QED BY <2>3, <2>5, <2>6
<1>11. Holds(w, source, writer, D)
  <2>1. S(p) \in DOMAIN w
    BY <1>8
  <2> HIDE DEF w, e, p
  <2> QED BY ONLY <1>6, <1>9, <1>10, <2>1 DEF Holds, D, S
<1>12. ASSUME NamesKept(source, writer)
       PROVE  DOMAIN w = D
  <2>1. S(p) = p /\ DOMAIN built = Done
    BY <1>1, <1>5, <1>12 DEF NamesKept
  <2>2. Ancestors(p) \subseteq Done
    <3>1. \A q \in Ancestors(p) : q \in DOMAIN source /\ Position(q) < Position(p)
      BY <1>1, <1>2, WorkspacesAssumption, AncestorsShape
    <3> QED BY <3>1, <1>1
  <2> QED BY <1>8, <2>1, <2>2
<1> QED BY <1>1, <1>11, <1>12

----------------------------------------------------------------------------
(* the invariant is inductive                                              *)

LEMMA ArchiveInitKeeps ==
  ASSUME ArchiveInit
  PROVE  ArchiveInv
<1>1. /\ archive \in Seq(Range(archive))
      /\ \A i \in DOMAIN archive :
           /\ TextOf[archive[i].path] = archive[i].path
           /\ archive[i].type = "symlink" => TextOf[archive[i].payload] = archive[i].payload
      /\ FromWriter
  <2>1. CASE writer = "none" /\ source = NoTree /\ archive \in HandMade
    BY <2>1, HandMadeAssumption DEF FromWriter
  <2>2. ASSUME NEW t \in Workspaces,
               \/ writer = "guest" /\ GuestAccepts(t)
               \/ writer = "daemon" /\ DaemonAccepts(t),
               source = t, archive = ArchiveOf(t, writer)
        PROVE  /\ archive \in Seq(Range(archive))
               /\ \A i \in DOMAIN archive :
                    /\ TextOf[archive[i].path] = archive[i].path
                    /\ archive[i].type = "symlink" => TextOf[archive[i].payload] = archive[i].payload
               /\ FromWriter
    <3>1. DOMAIN t \subseteq Paths
      BY WorkspacesAssumption
    <3>2. /\ archive \in Seq(Range(archive))
          /\ \A i \in DOMAIN archive :
               archive[i] = EntryOf(t, Collected(t)[i], writer) /\ Collected(t)[i] \in DOMAIN t
      BY <2>2, <3>1, ArchiveShape
    <3>3. ASSUME NEW i \in DOMAIN archive
          PROVE  /\ TextOf[archive[i].path] = archive[i].path
                 /\ archive[i].type = "symlink" => TextOf[archive[i].payload] = archive[i].payload
      <4> DEFINE p == Collected(t)[i]
                 e == EntryOf(t, p, writer)
      <4>1. archive[i] = e /\ p \in DOMAIN t /\ p \in Paths
        BY <3>1, <3>2
      <4>2. TextOf[TextOf[p]] = TextOf[p] /\ TextOf[Slashed[TextOf[p]]] = Slashed[TextOf[p]]
        BY <4>1, TextAssumption
      <4>3. TextOf[e.path] = e.path
        BY <4>2, EntryShape DEF StoredPath
      <4>4. t[p].kind = "symlink" => TextOf[TextOf[t[p].arg]] = TextOf[t[p].arg]
        BY <4>1, TextAssumption
      <4>5. e.type = "symlink" => t[p].kind = "symlink" /\ e.payload = StoredTarget(t[p].arg)
        BY EntryShape
      <4> QED BY <4>1, <4>3, <4>4, <4>5 DEF StoredTarget
    <3> QED BY <2>2, <3>2, <3>3 DEF FromWriter
  <2> QED BY <2>1, <2>2 DEF ArchiveInit
<1>2. next = 1 /\ built = NoTree /\ verdict = "extracting"
  BY DEF ArchiveInit
<1>3. DOMAIN built = {} /\ Done = {}
  BY <1>2 DEF NoTree, Done
<1>4. ArchiveTypes
  <2>1. Len(archive) \in Nat
    BY <1>1
  <2> QED BY <1>1, <1>2, <2>1 DEF ArchiveTypes
<1>5. BuiltGrown
  BY <1>3 DEF BuiltGrown, Grown
<1>6. BuiltSame
  BY <1>3 DEF BuiltSame, Holds
<1> QED BY <1>1, <1>2, <1>4, <1>5, <1>6 DEF ArchiveInv, RejectedLocked

LEMMA ExtractKeeps ==
  ASSUME ArchiveInv, ExtractEntry
  PROVE  ArchiveInv'
<1> DEFINE e == archive[next]
<1>1. /\ verdict = "extracting" /\ next <= Len(archive)
      /\ NoSymlinkAncestor(e) /\ CanReach(e) /\ Fits(e)
      /\ built' = With(e) /\ next' = next + 1
      /\ writer' = writer /\ source' = source /\ archive' = archive /\ verdict' = verdict
  BY DEF ExtractEntry
<1>2. /\ ArchiveTypes /\ BuiltGrown /\ FromWriter /\ BuiltSame
      /\ next \in DOMAIN archive /\ next \in Nat /\ Len(archive) \in Nat
  BY <1>1 DEF ArchiveInv, ArchiveTypes
<1>3. ArchiveTypes'
  BY <1>1, <1>2 DEF ArchiveTypes
<1>4. BuiltGrown'
  <2>1. TextOf[e.path] = e.path /\ (e.type = "symlink" => TextOf[e.payload] = e.payload)
    BY <1>2 DEF ArchiveTypes
  <2>2. /\ Grown(With(e))
        /\ \A p \in DOMAIN With(e) :
             /\ DOMAIN With(e)[p] = {"kind", "mode", "arg"}
             /\ With(e)[p].kind = "symlink" =>
                  \/ p \in DOMAIN built /\ p \in Taken({"symlink"})
                  \/ p = e.path /\ e.type = "symlink"
    <3>1. /\ Grown(built)
          /\ \A p \in DOMAIN built :
               /\ DOMAIN built[p] = {"kind", "mode", "arg"}
               /\ built[p].kind = "symlink" => p \in Taken({"symlink"})
      BY <1>2 DEF BuiltGrown
    <3> HIDE DEF e
    <3> QED BY ONLY <1>1, <2>1, <3>1, GrownWith
  <2>3. Taken({"symlink"}) \subseteq Taken({"symlink"})'
    BY <1>1, <1>2 DEF Taken
  <2>4. e.type = "symlink" => e.path \in Taken({"symlink"})'
    <3>1. next \in 1 .. next' - 1 /\ archive'[next] = e
      BY <1>1, <1>2
    <3> QED BY <3>1 DEF Taken
  <2>5. Grown(built')
    BY <1>1, <2>2
  <2>6. \A p \in DOMAIN built' :
          /\ DOMAIN built'[p] = {"kind", "mode", "arg"}
          /\ built'[p].kind = "symlink" => p \in Taken({"symlink"})'
    <3> HIDE DEF e
    <3> QED BY <1>1, <2>2, <2>3, <2>4
  <2> QED BY <2>5, <2>6 DEF BuiltGrown
<1>5. FromWriter'
  BY <1>1, <1>2 DEF FromWriter
<1>6. BuiltSame'
  <2>1. SUFFICES ASSUME writer # "none"
                 PROVE  BuiltSame'
    BY <1>1 DEF BuiltSame
  <2> DEFINE D == {Collected(source)[j] : j \in 1 .. next}
  <2>2. /\ Holds(With(e), source, writer, D)
        /\ NamesKept(source, writer) => DOMAIN With(e) = D
    <3>1. \A q \in DOMAIN built : DOMAIN built[q] = {"kind", "mode", "arg"}
      BY <1>2 DEF BuiltGrown
    <3> QED BY <1>1, <1>2, <2>1, <3>1, StoredMade
  <2>3. next' - 1 = next
    BY <1>1, <1>2
  <2>4. Done' = D
    <3>1. Done' = {Collected(source)'[j] : j \in 1 .. next' - 1}
      BY DEF Done
    <3>2. Collected(source)' = Collected(source)
      BY <1>1 DEF Collected
    <3> QED BY <2>3, <3>1, <3>2
  <2>5. Holds(built', source, writer, D) <=> Holds(built, source, writer, Done)'
    BY <1>1, <2>4 DEF Holds, StoredPath, StoredTarget
  <2>6. NamesKept(source, writer)' <=> NamesKept(source, writer)
    BY <1>1 DEF NamesKept, StoredPath, StoredTarget
  <2> HIDE DEF e, D
  <2> QED BY <1>1, <2>2, <2>4, <2>5, <2>6 DEF BuiltSame
<1>7. RejectedLocked'
  BY <1>1 DEF RejectedLocked
<1> QED BY <1>3, <1>4, <1>5, <1>6, <1>7 DEF ArchiveInv

LEMMA RejectKeeps ==
  ASSUME ArchiveInv, RejectEntry
  PROVE  ArchiveInv'
<1> DEFINE e == archive[next]
<1>1. /\ verdict = "extracting" /\ next <= Len(archive)
      /\ ~(NoSymlinkAncestor(e) /\ CanReach(e) /\ Fits(e))
      /\ built' = NoTree /\ verdict' = "rejected"
      /\ writer' = writer /\ source' = source /\ archive' = archive /\ next' = next
  BY DEF RejectEntry
<1>2. ArchiveTypes /\ FromWriter /\ BuiltSame
  BY DEF ArchiveInv
<1>3. ArchiveTypes'
  BY <1>1, <1>2 DEF ArchiveTypes
<1>4. DOMAIN built' = {}
  BY <1>1 DEF NoTree
<1>5. BuiltGrown'
  <2>1. Grown(built')
    BY <1>4 DEF Grown
  <2> QED BY <1>4, <2>1 DEF BuiltGrown
<1>6. FromWriter'
  BY <1>1, <1>2 DEF FromWriter
<1>7. BuiltSame'
  BY <1>1 DEF BuiltSame
<1>8. RejectedLocked'
  <2>1. ASSUME writer # "none", NamesKept(source, writer)
        PROVE  ~Root /\ LockedDirectory(source)
    BY <1>1, <1>2, <2>1, StoredFits, StoredReach
  <2>2. NamesKept(source, writer)' <=> NamesKept(source, writer)
    BY <1>1 DEF NamesKept, StoredPath, StoredTarget
  <2>3. (~Root /\ LockedDirectory(source))' <=> (~Root /\ LockedDirectory(source))
    BY <1>1 DEF LockedDirectory
  <2> QED BY <1>1, <2>1, <2>2, <2>3 DEF RejectedLocked
<1> QED BY <1>3, <1>5, <1>6, <1>7, <1>8 DEF ArchiveInv

LEMMA ArchiveStepKeeps ==
  ASSUME ArchiveInv, [ArchiveNext]_archiveVars
  PROVE  ArchiveInv'
<1>1. CASE ExtractEntry
  BY <1>1, ExtractKeeps
<1>2. CASE RejectEntry
  BY <1>2, RejectKeeps
<1>3. CASE AcceptArchive \/ UNCHANGED archiveVars
  <2>1. /\ writer' = writer /\ source' = source /\ archive' = archive /\ next' = next /\ built' = built
        /\ \/ verdict' = verdict
           \/ verdict = "extracting" /\ verdict' = "accepted" /\ next = Len(archive) + 1
    BY <1>3 DEF AcceptArchive, archiveVars
  <2>2. Taken({"symlink"})' = Taken({"symlink"})
    BY <2>1 DEF Taken
  <2>3. ArchiveTypes'
    BY <2>1 DEF ArchiveInv, ArchiveTypes
  <2>4. BuiltGrown'
    BY <2>1, <2>2 DEF ArchiveInv, BuiltGrown
  <2>5. FromWriter'
    BY <2>1 DEF ArchiveInv, FromWriter
  <2>6. BuiltSame'
    <3>1. Done' = Done
      BY <2>1 DEF Done, Collected
    <3>2. Holds(built, source, writer, Done)' <=> Holds(built, source, writer, Done)
      BY <2>1, <3>1 DEF Holds, StoredPath, StoredTarget
    <3>3. NamesKept(source, writer)' <=> NamesKept(source, writer)
      BY <2>1 DEF NamesKept, StoredPath, StoredTarget
    <3>4. BuiltSame /\ (verdict' # "rejected" => verdict # "rejected")
      BY <2>1 DEF ArchiveInv
    <3> QED BY <2>1, <3>1, <3>2, <3>3, <3>4 DEF BuiltSame
  <2>7. RejectedLocked'
    BY <2>1 DEF ArchiveInv, RejectedLocked
  <2> QED BY <2>3, <2>4, <2>5, <2>6, <2>7 DEF ArchiveInv
<1> QED BY <1>1, <1>2, <1>3 DEF ArchiveNext

\* ArchiveInv holds in every reachable state of extractCfs, for any paths, any
\* workspaces a writer may have stored and any other archive.
THEOREM ExtractionInvariant == ArchiveSpec => []ArchiveInv
<1>1. ArchiveInit => ArchiveInv
  BY ArchiveInitKeeps
<1>2. ArchiveInv /\ [ArchiveNext]_archiveVars => ArchiveInv'
  BY ArchiveStepKeeps
<1> QED BY <1>1, <1>2, PTL DEF ArchiveSpec

----------------------------------------------------------------------------
(* what follows                                                            *)

\* SnapshotsRestore: what exportCfs or the guest's writer stored is extracted with every
\* node under its stored name, no two under one; where the writer kept the names, as it
\* was, and refused only where a daemon that is not root meets a read-only directory
\* with entries.
THEOREM SnapshotsAlwaysRestore == ArchiveSpec => []SnapshotsRestore
<1>1. ASSUME ArchiveInv
      PROVE  SnapshotsRestore
  <2>1. ASSUME verdict = "accepted", writer # "none"
        PROVE  /\ HoldsAll(built, source, writer)
               /\ NamesKept(source, writer) => DOMAIN built = DOMAIN source
    <3>1. source \in Workspaces /\ DOMAIN source \subseteq Paths /\ archive = ArchiveOf(source, writer)
      BY <1>1, <2>1, WorkspacesAssumption DEF ArchiveInv, FromWriter
    <3>2. /\ Holds(built, source, writer, Done)
          /\ NamesKept(source, writer) => DOMAIN built = Done
      BY <1>1, <2>1 DEF ArchiveInv, BuiltSame
    <3>3. 1 .. next - 1 = DOMAIN Collected(source)
      <4>1. next = Len(archive) + 1 /\ Len(archive) \in Nat
        BY <1>1, <2>1 DEF ArchiveInv, ArchiveTypes
      <4>2. DOMAIN Collected(source) = 1 .. Len(archive)
        BY <3>1, ArchiveShape
      <4> QED BY <4>1, <4>2
    <3>4. Done = DOMAIN source
      <4>1. \A j \in DOMAIN Collected(source) : Collected(source)[j] \in DOMAIN source
        BY <3>1, CollectedShape
      <4>2. \A p \in DOMAIN source : \E j \in DOMAIN Collected(source) : Collected(source)[j] = p
        BY <3>1, CollectedShape
      <4> QED BY ONLY <3>3, <4>1, <4>2 DEF Done
    <3> QED BY ONLY <3>2, <3>4 DEF Holds, HoldsAll
  <2>2. ASSUME verdict = "rejected", writer # "none", NamesKept(source, writer)
        PROVE  ~Root /\ LockedDirectory(source)
    BY <1>1, <2>2 DEF ArchiveInv, RejectedLocked
  <2> QED BY <2>1, <2>2 DEF SnapshotsRestore
<1> QED BY <1>1, ExtractionInvariant, PTL

\* AcceptedIsWorkspace: whatever archive extractCfs accepts, its entries make a tree
\* whose parents are directories and whose links stay inside, which the daemon would
\* export again and Docker restores when the names fit a tar header.
THEOREM AcceptedAlwaysWorkspace == ArchiveSpec => []AcceptedIsWorkspace
<1>1. ASSUME ArchiveInv
      PROVE  AcceptedIsWorkspace
  <2>1. Grown(built)
    BY <1>1 DEF ArchiveInv, BuiltGrown
  <2>2. \A p \in DOMAIN built : \A q \in Ancestors(p) : q \in DOMAIN built /\ built[q].kind = "dir"
    BY <2>1 DEF Grown
  <2>3. DaemonAccepts(built)
    BY <2>1 DEF Grown, DaemonAccepts, Storable
  <2>4. (\A p \in DOMAIN built :
           NameFits(p) /\ (built[p].kind = "symlink" => NameFits(built[p].arg))) => TarRestores(built)
    BY <2>1, TarRestoresGrown
  <2> QED BY <2>2, <2>3, <2>4 DEF AcceptedIsWorkspace
<1> QED BY <1>1, ExtractionInvariant, PTL

\* NothingReplaced: O_EXCL, mkdir, symlink() and link() never replace what an earlier
\* entry made; only the mode of a file may follow a further name of it, and a
\* rejected archive leaves nothing.
THEOREM NothingIsReplaced == ArchiveSpec => NothingReplaced
<1> DEFINE Kept == \A p \in DOMAIN built :
             \/ p \in DOMAIN built' /\ [built[p] EXCEPT !.mode = "any"] = [built'[p] EXCEPT !.mode = "any"]
             \/ verdict' = "rejected" /\ built' = NoTree
<1>1. ASSUME ArchiveInv, [ArchiveNext]_archiveVars
      PROVE  [Kept]_archiveVars
  <2>1. CASE ExtractEntry
    <3> DEFINE e == archive[next]
    <3>1. Fits(e) /\ built' = With(e)
      BY <2>1 DEF ExtractEntry
    <3>2. e.path \notin DOMAIN built /\ e.path \in Paths
      BY <3>1, FitsShape
    <3>3. e.path \notin Ancestors(e.path)
      BY <3>2, AncestorsShape
    <3> HIDE DEF e
    <3>4. ASSUME NEW p \in DOMAIN built
          PROVE  /\ p \in DOMAIN built'
                 /\ [built[p] EXCEPT !.mode = "any"] = [built'[p] EXCEPT !.mode = "any"]
      <4>1. p \in DOMAIN With(e) /\ p # e.path
        BY <3>2, WithDomain
      <4>2. With(e)[p] = built[p] \/ With(e)[p] = [built[p] EXCEPT !.mode = Masked(e.mode)]
        BY ONLY <3>2, <3>3, <4>1, p \in DOMAIN built, WithShape
      <4> DEFINE n == built[p]
                 m == Masked(e.mode)
      <4>3. [[n EXCEPT !.mode = m] EXCEPT !.mode = "any"] = [n EXCEPT !.mode = "any"]
        <5>1. DOMAIN n = {"kind", "mode", "arg"}
          BY <1>1 DEF ArchiveInv, BuiltGrown
        <5> HIDE DEF n, m
        <5> QED BY ONLY <5>1
      <4> HIDE DEF n, m
      <4>4. [With(e)[p] EXCEPT !.mode = "any"] = [n EXCEPT !.mode = "any"]
        <5>1. With(e)[p] = n \/ With(e)[p] = [n EXCEPT !.mode = m]
          BY <4>2 DEF n, m
        <5> QED BY ONLY <5>1, <4>3
      <4>5. built' = With(e)
        BY <3>1
      <4> QED BY <4>1, <4>4, <4>5 DEF n
    <3> QED BY <3>4
  <2>2. CASE RejectEntry
    BY <2>2 DEF RejectEntry
  <2>3. CASE AcceptArchive \/ UNCHANGED archiveVars
    BY <2>3 DEF AcceptArchive, archiveVars
  <2> QED BY <1>1, <2>1, <2>2, <2>3 DEF ArchiveNext
<1>2. ArchiveSpec => []ArchiveInv /\ [][ArchiveNext]_archiveVars
  BY ExtractionInvariant DEF ArchiveSpec
<1>3. ArchiveSpec => [][Kept]_archiveVars
  BY <1>1, <1>2, PTL
<1> QED BY <1>3 DEF NothingReplaced
=============================================================================

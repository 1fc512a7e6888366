---------------------------- MODULE PagingProofs ----------------------------
(***************************************************************************)
(* Theorems about Paging, for any sizes, ranges, limits and size of a      *)
(* page: what the pages of an answer, put together, have of what was asked *)
(* for, and the numbers of lines.                                          *)
(***************************************************************************)
EXTENDS Paging, FiniteSetTheorems, SequenceTheorems, WellFoundedInduction, TLAPS

----------------------------------------------------------------------------
(* the inductive invariant                                                 *)

\* All that was asked for, from the first page to the last.
Wanted == {n \in DOMAIN items : Asks(n)}

Results == [item : Nat, number : Nat, gap : BOOLEAN]

\* What PagingInit chooses and no page changes.
Asked ==
  /\ tool \in Tools
  /\ items \in Seq(Nat) /\ Len(items) <= Top
  /\ ranges \in Seq((Nat \ {0}) \X Nat)
  /\ limit \in Nat \ {0}

Given ==
  /\ got \in Seq(Results)
  /\ \A i \in DOMAIN got : got[i].item \in Wanted

\* The cursor starts at the lowest range: the number of the first page is then the
\* cursor too, whichever of the two StartLine takes.
CursorInPlace ==
  reading = "more" => cursor \in Nat \ {0} /\ (got = <<>> /\ ranges # <<>> => cursor = Lowest(ranges))

\* Pages follow each other: what came is below the cursor ...
Follows ==
  tool # "file" \/ ~Gaps =>
    /\ \A i, j \in DOMAIN got : i < j => got[i].item < got[j].item
    /\ reading = "more" => \A i \in DOMAIN got : got[i].item < cursor

\* ... and what is below the cursor came; at the end, everything.
Complete ==
  tool # "grep" \/ ~Gaps =>
    \A n \in Wanted : reading = "end" \/ (reading = "more" /\ n < cursor) =>
      \E i \in DOMAIN got : got[i].item = n

CutAtLarge == reading = "cut" => \E n \in Wanted : items[n] > PageBytes

PagingInv ==
  /\ Asked
  /\ reading \in {"more", "end", "cut", "stuck"}
  /\ Given /\ CursorInPlace /\ Follows /\ Complete /\ CutAtLarge
  /\ NumbersAreTrue

----------------------------------------------------------------------------
(* sets of numbers in their order                                          *)

\* Every nonempty set of numbers has a least one.  (The library's principle has
\* an operator parameter; this is a consequence of its theorem on finite sets.)
LEMMA LeastNumber ==
  ASSUME NEW S, S \in SUBSET Nat, S # {}
  PROVE  \E n \in S : \A m \in S : n <= m
<1> DEFINE T == {0 .. n - 1 : n \in S}
<1>1. T \subseteq FiniteSubsetsOf(Nat) /\ T # {}
  <2>1. \A n \in S : IsFiniteSet(0 .. n - 1) /\ 0 .. n - 1 \in SUBSET Nat
    BY FS_Interval
  <2> QED BY <2>1 DEF FiniteSubsetsOf
<1>2. \E x \in T : \A y \in T : ~ (<<y, x>> \in StrictSubsetOrdering(Nat))
  <2> HIDE DEF T
  <2> QED BY ONLY <1>1, FS_StrictSubsetOrderingWellFounded, WFMin
<1>3. PICK n \in S : \A m \in S : ~ (<<0 .. m - 1, 0 .. n - 1>> \in StrictSubsetOrdering(Nat))
  BY <1>2
<1>4. ASSUME NEW m \in S, m < n
      PROVE  <<0 .. m - 1, 0 .. n - 1>> \in StrictSubsetOrdering(Nat)
  <2>1. 0 .. m - 1 \subseteq 0 .. n - 1 /\ m \in 0 .. n - 1 /\ m \notin 0 .. m - 1
    BY <1>4
  <2>2. 0 .. m - 1 \in SUBSET Nat /\ 0 .. n - 1 \in SUBSET Nat
    OBVIOUS
  <2>3. 0 .. m - 1 # 0 .. n - 1
    BY <2>1
  <2> QED BY ONLY <2>1, <2>2, <2>3, SMT DEF StrictSubsetOrdering
<1> HIDE DEF T
<1>5. \A m \in S : ~(m < n) /\ m \in Nat /\ n \in Nat
  BY <1>3, <1>4
<1> QED BY ONLY <1>5, n \in S

\* How many numbers of S are not beyond n.
Rank(S, n) == Cardinality({m \in S : m <= n})

LEMMA RankShape ==
  ASSUME NEW S \in SUBSET Nat, IsFiniteSet(S)
  PROVE  /\ Cardinality(S) \in Nat
         /\ \A n \in S : Rank(S, n) \in 1 .. Cardinality(S)
         /\ \A m, n \in S : m < n => Rank(S, m) < Rank(S, n)
<1> DEFINE Upto(n) == {m \in S : m <= n}
<1>1. Cardinality(S) \in Nat
  BY FS_CardinalityType
<1>2. ASSUME NEW n \in S
      PROVE  IsFiniteSet(Upto(n)) /\ Cardinality(Upto(n)) \in 1 .. Cardinality(S)
  <2>1. Upto(n) \in SUBSET S /\ n \in Upto(n)
    OBVIOUS
  <2> HIDE DEF Upto
  <2>2. IsFiniteSet(Upto(n)) /\ Cardinality(Upto(n)) <= Cardinality(S)
    BY <2>1, FS_Subset
  <2>3. Cardinality(Upto(n)) \in Nat /\ Cardinality(Upto(n)) # 0
    BY <2>1, <2>2, FS_CardinalityType, FS_EmptySet
  <2> QED BY <2>2, <2>3, <1>1
<1>3. ASSUME NEW m \in S, NEW n \in S, m < n
      PROVE  Cardinality(Upto(m)) < Cardinality(Upto(n))
  <2>1. Upto(m) \subseteq Upto(n) /\ n \in Upto(n) /\ n \notin Upto(m)
    <3>1. m \in Nat /\ n \in Nat /\ \A k \in S : k \in Nat
      OBVIOUS
    <3>2. n \in Upto(n) /\ n \notin Upto(m)
      BY <3>1, <1>3
    <3>3. \A k \in S : k <= m => k <= n
      BY <3>1, <1>3
    <3> QED BY <3>2, <3>3
  <2>2. IsFiniteSet(Upto(n)) /\ IsFiniteSet(Upto(m))
    BY <1>2
  <2> HIDE DEF Upto
  <2>3. Cardinality(Upto(m)) <= Cardinality(Upto(n)) /\ Cardinality(Upto(m)) # Cardinality(Upto(n))
    BY <2>1, <2>2, FS_Subset
  <2> QED BY <2>2, <2>3, FS_CardinalityType
<1> QED BY <1>1, <1>2, <1>3 DEF Rank

\* Two numbers of S with the same rank are the same.
LEMMA RankInjective ==
  ASSUME NEW S \in SUBSET Nat, IsFiniteSet(S),
         NEW m \in S, NEW n \in S, Rank(S, m) = Rank(S, n)
  PROVE  m = n
<1>1. /\ Rank(S, m) \in Nat /\ Rank(S, n) \in Nat
      /\ m < n => Rank(S, m) < Rank(S, n)
      /\ n < m => Rank(S, n) < Rank(S, m)
  BY RankShape
<1>2. m \in Nat /\ n \in Nat
  OBVIOUS
<1> QED BY ONLY <1>1, <1>2, Rank(S, m) = Rank(S, n)

\* Ascending lists a set once and in order: its i-th number has the rank i.
LEMMA AscendingShape ==
  ASSUME NEW S \in SUBSET Nat, IsFiniteSet(S)
  PROVE  /\ Cardinality(S) \in Nat
         /\ Ascending(S) \in [1 .. Cardinality(S) -> S]
         /\ \A i \in 1 .. Cardinality(S) : Rank(S, Ascending(S)[i]) = i
         /\ \A n \in S : \E i \in 1 .. Cardinality(S) : Ascending(S)[i] = n
         /\ \A i, j \in 1 .. Cardinality(S) : i < j => Ascending(S)[i] < Ascending(S)[j]
<1> DEFINE n == Cardinality(S)
           r == [m \in S |-> Rank(S, m)]
           s == Ascending(S)
<1>1. n \in Nat /\ r \in [S -> 1 .. n]
  BY RankShape
<1>2. \A p, q \in S : (p < q => r[p] < r[q]) /\ (r[p] = r[q] => p = q)
  BY RankShape, RankInjective
<1>3. \A i \in 1 .. n : \E p \in S : r[p] = i
  <2>1. r \in Injection(S, 1 .. n)
    BY <1>1, <1>2 DEF Injection, IsInjective
  <2>2. IsFiniteSet(1 .. n) /\ Cardinality(1 .. n) = n
    BY <1>1, FS_Interval
  <2> HIDE DEF r
  <2>3. r \in Surjection(S, 1 .. n)
    BY ONLY <2>1, <2>2, FS_Injection
  <2> QED BY <2>3 DEF Surjection
<1>4. ASSUME NEW i \in 1 .. n
      PROVE  s[i] \in S /\ Rank(S, s[i]) = i
  <2>1. \E p \in S : Cardinality({m \in S : m <= p}) = i
    BY <1>3 DEF Rank
  <2> QED BY <2>1 DEF Ascending, Rank
<1>5. s \in [1 .. n -> S]
  <2>1. s = [i \in 1 .. n |-> s[i]]
    BY DEF Ascending
  <2> HIDE DEF s, n
  <2> QED BY <2>1, <1>4
<1>6. \A p \in S : r[p] \in 1 .. n /\ s[r[p]] = p
  <2>1. \A p \in S : r[p] \in 1 .. n
    BY <1>1
  <2>2. \A p \in S : s[r[p]] \in S /\ Rank(S, s[r[p]]) = Rank(S, p)
    <3> HIDE DEF s
    <3> QED BY <2>1, <1>4
  <2> HIDE DEF s, r, n
  <2>3. ASSUME NEW p \in S
        PROVE  s[r[p]] = p
    <3> DEFINE q == s[r[p]]
    <3>1. q \in S /\ Rank(S, q) = Rank(S, p)
      BY <2>2
    <3> HIDE DEF q
    <3>2. q = p
      BY <3>1, RankInjective
    <3> QED BY <3>2 DEF q
  <2> QED BY <2>1, <2>3
<1>7. ASSUME NEW i \in 1 .. n, NEW j \in 1 .. n, i < j
      PROVE  s[i] < s[j]
  <2>1. s[i] \in S /\ s[j] \in S /\ Rank(S, s[i]) = i /\ Rank(S, s[j]) = j
    BY <1>4
  <2>2. s[i] \in Nat /\ s[j] \in Nat
    BY <2>1
  <2>3. s[j] < s[i] => Rank(S, s[j]) < Rank(S, s[i])
    BY <2>1, RankShape
  <2> HIDE DEF s
  <2> QED BY <1>1, <1>7, <2>1, <2>2, <2>3
<1> QED BY <1>1, <1>4, <1>5, <1>6, <1>7

\* It is the only such list.
LEMMA AscendingUnique ==
  ASSUME NEW S \in SUBSET Nat, NEW n \in Nat, NEW s \in [1 .. n -> S],
         \A m \in S : \E i \in 1 .. n : s[i] = m,
         \A i, j \in 1 .. n : i < j => s[i] < s[j]
  PROVE  IsFiniteSet(S) /\ s = Ascending(S)
<1>1. ASSUME NEW i \in 1 .. n, NEW j \in 1 .. n, s[i] = s[j]
      PROVE  i = j
  <2>1. s[i] \in Nat
    OBVIOUS
  <2>2. ~(i < j) /\ ~(j < i)
    BY <1>1, <2>1
  <2> QED BY <2>2
<1>2. IsFiniteSet(1 .. n) /\ Cardinality(1 .. n) = n
  BY FS_Interval
<1>3. s \in Bijection(1 .. n, S)
  BY <1>1 DEF Bijection, Injection, IsInjective, Surjection
<1>4. IsFiniteSet(S) /\ Cardinality(S) = n
  <2>1. ExistsBijection(1 .. n, S)
    BY <1>3 DEF ExistsBijection
  <2> QED BY ONLY <1>2, <2>1, FS_Bijection
<1>5. ASSUME NEW i \in 1 .. n
      PROVE  Rank(S, s[i]) = i
  <2> DEFINE T == {m \in S : m <= s[i]}
             f == [j \in 1 .. i |-> s[j]]
  <2>1. \A j \in 1 .. n : s[j] \in Nat /\ (s[j] <= s[i] <=> j <= i)
    <3>1. \A j \in 1 .. n : s[j] \in Nat
      OBVIOUS
    <3> QED BY <1>1, <3>1
  <2>2. \A j \in 1 .. i : j \in 1 .. n /\ s[j] \in T
    BY <2>1
  <2>3. \A m \in T : \E j \in 1 .. i : s[j] = m
    BY <2>1
  <2> HIDE DEF T
  <2>4. f \in Bijection(1 .. i, T)
    <3>1. f \in [1 .. i -> T]
      BY <2>2
    <3>2. \A j, k \in 1 .. i : f[j] = f[k] => j = k
      BY <1>1, <2>2
    <3>3. \A m \in T : \E j \in 1 .. i : f[j] = m
      BY <2>3
    <3> HIDE DEF f
    <3> QED BY <3>1, <3>2, <3>3 DEF Bijection, Injection, IsInjective, Surjection
  <2>5. ExistsBijection(1 .. i, T)
    BY <2>4 DEF ExistsBijection
  <2>6. IsFiniteSet(1 .. i) /\ Cardinality(1 .. i) = i
    BY FS_Interval
  <2>7. Cardinality(T) = i
    BY ONLY <2>5, <2>6, FS_Bijection
  <2> QED BY <2>7 DEF Rank, T
<1>6. /\ Ascending(S) \in [1 .. n -> S]
      /\ \A i \in 1 .. n : Rank(S, Ascending(S)[i]) = i
  BY <1>4, AscendingShape
<1>7. \A i \in 1 .. n : Ascending(S)[i] = s[i]
  <2> SUFFICES ASSUME NEW i \in 1 .. n
               PROVE  Ascending(S)[i] = s[i]
    OBVIOUS
  <2> DEFINE p == Ascending(S)[i]
             q == s[i]
  <2>1. p \in S /\ q \in S /\ Rank(S, p) = Rank(S, q)
    BY <1>5, <1>6
  <2> HIDE DEF p, q
  <2>2. p = q
    BY <2>1, <1>4, RankInjective
  <2> QED BY <2>2 DEF p, q
<1> QED BY <1>4, <1>6, <1>7

\* Of two sets, one below the other, the lists follow each other.
LEMMA AscendingAppends ==
  ASSUME NEW A \in SUBSET Nat, IsFiniteSet(A), NEW B \in SUBSET Nat, IsFiniteSet(B),
         \A a \in A : \A b \in B : a < b
  PROVE  /\ Ascending(A \cup B) = Ascending(A) \o Ascending(B)
         /\ Cardinality(A \cup B) = Cardinality(A) + Cardinality(B)
<1> DEFINE s == Ascending(A)
           t == Ascending(B)
           k == Cardinality(A)
           l == Cardinality(B)
           u == s \o t
<1>1. /\ k \in Nat /\ s \in [1 .. k -> A]
      /\ \A n \in A : \E i \in 1 .. k : s[i] = n
      /\ \A i, j \in 1 .. k : i < j => s[i] < s[j]
  BY AscendingShape
<1>2. /\ l \in Nat /\ t \in [1 .. l -> B]
      /\ \A n \in B : \E i \in 1 .. l : t[i] = n
      /\ \A i, j \in 1 .. l : i < j => t[i] < t[j]
  BY AscendingShape
<1> HIDE DEF s, t, k, l
<1>3. s \in Seq(A) /\ t \in Seq(B) /\ Len(s) = k /\ Len(t) = l
  BY <1>1, <1>2
<1>4. /\ DOMAIN u = 1 .. k + l /\ u = [i \in 1 .. k + l |-> u[i]]
      /\ \A i \in 1 .. k : u[i] = s[i]
      /\ \A i \in k + 1 .. k + l : u[i] = t[i - k]
  <2>1. /\ Len(u) = k + l /\ u \in Seq(A \cup B)
        /\ \A i \in 1 .. k + l : u[i] = IF i <= k THEN s[i] ELSE t[i - k]
    <3>1. s \in Seq(A \cup B) /\ t \in Seq(A \cup B)
      BY <1>3
    <3> QED BY ONLY <3>1, <1>3, ConcatProperties DEF u
  <2> HIDE DEF u
  <2>2. DOMAIN u = 1 .. k + l /\ u = [i \in 1 .. k + l |-> u[i]]
    BY <2>1
  <2>3. \A i \in 1 .. k : i \in 1 .. k + l /\ i <= k
    BY <1>1, <1>2
  <2>4. \A i \in k + 1 .. k + l : i \in 1 .. k + l /\ ~(i <= k)
    BY <1>1, <1>2
  <2> QED BY <2>1, <2>2, <2>3, <2>4
<1> HIDE DEF u
<1>5. u \in [1 .. k + l -> A \cup B]
  <2>1. ASSUME NEW i \in 1 .. k + l
        PROVE  u[i] \in A \cup B
    <3>1. CASE i <= k
      <4>1. i \in 1 .. k
        BY <3>1, <1>1
      <4> QED BY <4>1, <1>1, <1>4
    <3>2. CASE i > k
      <4>1. i \in k + 1 .. k + l /\ i - k \in 1 .. l
        BY <3>2, <1>1, <1>2
      <4>2. u[i] = t[i - k] /\ t[i - k] \in B
        BY <4>1, <1>2, <1>4
      <4> QED BY <4>2
    <3> QED BY <3>1, <3>2, <1>1, <1>2
  <2> QED BY <1>4, <2>1
<1>6. ASSUME NEW n \in A \cup B
      PROVE  \E i \in 1 .. k + l : u[i] = n
  <2>1. CASE n \in A
    <3>1. PICK i \in 1 .. k : s[i] = n
      BY <2>1, <1>1
    <3>2. k \in Nat /\ l \in Nat
      BY <1>1, <1>2
    <3>3. i \in 1 .. k + l
      BY ONLY <3>2, i \in 1 .. k
    <3>4. u[i] = s[i]
      BY <1>4
    <3> QED BY <3>1, <3>3, <3>4
  <2>2. CASE n \in B
    <3>1. PICK i \in 1 .. l : t[i] = n
      BY <2>2, <1>2
    <3>2. i + k \in k + 1 .. k + l /\ (i + k) - k = i /\ i + k \in 1 .. k + l
      BY <1>1, <1>2
    <3> DEFINE j == i + k
    <3>3. j \in k + 1 .. k + l /\ j - k = i /\ j \in 1 .. k + l
      BY <3>2
    <3> HIDE DEF j
    <3>4. u[j] = t[j - k]
      BY <3>3, <1>4
    <3> QED BY <3>1, <3>3, <3>4
  <2> QED BY <2>1, <2>2
<1>7. ASSUME NEW i \in 1 .. k + l, NEW j \in 1 .. k + l, i < j
      PROVE  u[i] < u[j]
  <2>1. CASE j <= k
    <3>1. i \in 1 .. k /\ j \in 1 .. k
      BY <1>7, <2>1, <1>1
    <3> QED BY <3>1, <1>1, <1>4, <1>7
  <2>2. CASE i > k
    <3>1. /\ i \in k + 1 .. k + l /\ j \in k + 1 .. k + l
          /\ i - k \in 1 .. l /\ j - k \in 1 .. l /\ i - k < j - k
      BY <1>7, <2>2, <1>1, <1>2
    <3> QED BY <3>1, <1>2, <1>4
  <2>3. CASE i <= k /\ j > k
    <3>1. i \in 1 .. k /\ j \in k + 1 .. k + l /\ j - k \in 1 .. l
      BY <2>3, <1>1, <1>2
    <3>2. u[i] \in A /\ u[j] \in B
      BY <3>1, <1>1, <1>2, <1>4
    <3> QED BY <3>2
  <2> QED BY <2>1, <2>2, <2>3, <1>1, <1>2
<1>8. A \cup B \in SUBSET Nat /\ k + l \in Nat
  BY <1>1, <1>2
<1>9. IsFiniteSet(A \cup B) /\ u = Ascending(A \cup B)
  BY ONLY <1>5, <1>6, <1>7, <1>8, AscendingUnique
<1>10. Cardinality(A \cup B) = k + l
  <2>1. Ascending(A \cup B) \in [1 .. Cardinality(A \cup B) -> A \cup B] /\ Cardinality(A \cup B) \in Nat
    BY ONLY <1>8, <1>9, AscendingShape
  <2>2. 1 .. Cardinality(A \cup B) = 1 .. k + l
    BY <1>4, <1>9, <2>1
  <2>3. Cardinality(1 .. Cardinality(A \cup B)) = Cardinality(A \cup B) /\ Cardinality(1 .. k + l) = k + l
    <3> DEFINE m == Cardinality(A \cup B)
               n == k + l
    <3>1. m \in Nat /\ n \in Nat
      BY <1>8, <2>1
    <3> HIDE DEF m, n
    <3>2. Cardinality(1 .. m) = m /\ Cardinality(1 .. n) = n
      BY <3>1, FS_Interval
    <3> QED BY <3>2 DEF m, n
  <2> QED BY ONLY <2>2, <2>3
<1> QED BY <1>9, <1>10 DEF u, s, t, k, l

\* A set that lies at the beginning of another is the beginning of its list.
LEMMA AscendingBegins ==
  ASSUME NEW A, NEW N \in SUBSET Nat, IsFiniteSet(N), A \subseteq N,
         \A a \in A : \A n \in N : n <= a => n \in A
  PROVE  /\ Cardinality(A) \in Nat /\ Cardinality(N) \in Nat /\ Cardinality(A) <= Cardinality(N)
         /\ \A i \in 1 .. Cardinality(A) : Ascending(N)[i] = Ascending(A)[i]
<1> DEFINE B == N \ A
<1>1. /\ A \in SUBSET Nat /\ B \in SUBSET Nat /\ A \cup B = N
      /\ \A a \in A : \A b \in B : a < b
  <2>1. \A n \in N : n \in Nat
    OBVIOUS
  <2>2. ASSUME NEW a \in A, NEW b \in B
        PROVE  a < b
    <3>1. a \in Nat /\ b \in Nat /\ ~(b <= a)
      BY <2>1
    <3> QED BY ONLY <3>1
  <2> HIDE DEF B
  <2>3. A \in SUBSET Nat /\ B \in SUBSET Nat /\ A \cup B = N
    BY <2>1 DEF B
  <2> QED BY <2>2, <2>3
<1>2. IsFiniteSet(A) /\ IsFiniteSet(B)
  BY FS_Subset
<1> HIDE DEF B
<1>3. /\ Ascending(N) = Ascending(A) \o Ascending(B)
      /\ Cardinality(N) = Cardinality(A) + Cardinality(B)
  BY <1>1, <1>2, AscendingAppends
<1>4. /\ Cardinality(A) \in Nat /\ Ascending(A) \in [1 .. Cardinality(A) -> A]
      /\ Cardinality(B) \in Nat /\ Ascending(B) \in [1 .. Cardinality(B) -> B]
  BY <1>1, <1>2, AscendingShape
<1>5. ASSUME NEW i \in 1 .. Cardinality(A)
      PROVE  (Ascending(A) \o Ascending(B))[i] = Ascending(A)[i]
  <2>1. /\ Ascending(A) \in Seq(N) /\ Ascending(B) \in Seq(N)
        /\ Len(Ascending(A)) = Cardinality(A) /\ Len(Ascending(B)) = Cardinality(B)
    BY <1>1, <1>4
  <2>2. i \in 1 .. Cardinality(A) + Cardinality(B) /\ i <= Cardinality(A)
    BY <1>4
  <2> QED BY ONLY <2>1, <2>2, ConcatProperties
<1> QED BY <1>3, <1>4, <1>5

----------------------------------------------------------------------------
(* what fits on a page                                                     *)

\* The items there are.
LEMMA ItemsShape ==
  ASSUME Asked
  PROVE  /\ DOMAIN items = 1 .. Len(items) /\ Len(items) \in Nat
         /\ IsFiniteSet(DOMAIN items)
         /\ \A n \in DOMAIN items : n \in Nat \ {0} /\ n <= Top /\ items[n] \in Nat
         /\ Top \in Nat /\ PageBytes \in Nat
<1>1. DOMAIN items = 1 .. Len(items) /\ Len(items) \in Nat /\ Len(items) <= Top
  BY DEF Asked
<1>2. IsFiniteSet(1 .. Len(items))
  BY <1>1, FS_Interval
<1> QED BY <1>1, <1>2, PagingAssumption DEF Asked

Bytes(S) == UNION {{n} \X (1 .. items[n]) : n \in S}

\* The size of a set of items is a number, and less for a smaller set.
LEMMA SizeShape ==
  ASSUME Asked, NEW S \in SUBSET DOMAIN items
  PROVE  /\ SizeOf(S) \in Nat
         /\ \A T \in SUBSET S : SizeOf(T) <= SizeOf(S)
<1> DEFINE f == [n \in S |-> {n} \X (1 .. items[n])]
           U == {{n} \X (1 .. items[n]) : n \in S}
<1>1. IsFiniteSet(S)
  BY ItemsShape, FS_Subset
<1>2. IsFiniteSet(U)
  <2>1. f \in Surjection(S, U)
    BY DEF Surjection
  <2> HIDE DEF f, U
  <2> QED BY ONLY <1>1, <2>1, FS_Surjection
<1>3. \A T \in U : IsFiniteSet(T)
  <2> SUFFICES ASSUME NEW n \in S
               PROVE  IsFiniteSet({n} \X (1 .. items[n]))
    OBVIOUS
  <2>1. 1 \in Int /\ items[n] \in Int
    BY ItemsShape
  <2>2. IsFiniteSet({n}) /\ IsFiniteSet(1 .. items[n])
    BY <2>1, FS_Singleton, FS_Interval
  <2> QED BY ONLY <2>2, FS_Product
<1>4. IsFiniteSet(Bytes(S))
  <2>1. Bytes(S) = UNION U
    BY DEF Bytes
  <2> HIDE DEF U
  <2> QED BY ONLY <1>2, <1>3, <2>1, FS_UNION
<1>5. ASSUME NEW T \in SUBSET S
      PROVE  Cardinality(Bytes(T)) <= Cardinality(Bytes(S))
  <2>1. Bytes(T) \in SUBSET Bytes(S)
    BY DEF Bytes
  <2> QED BY ONLY <1>4, <2>1, FS_Subset
<1>6. Cardinality(Bytes(S)) \in Nat
  BY <1>4, FS_CardinalityType
<1> QED BY <1>5, <1>6 DEF SizeOf, Bytes

\* The size of one item.
LEMMA SizeOfOne ==
  ASSUME Asked, NEW n \in DOMAIN items
  PROVE  SizeOf({n}) = items[n]
<1>1. Bytes({n}) = {n} \X (1 .. items[n])
  BY DEF Bytes
<1>2. items[n] \in Nat
  BY ItemsShape
<1>3. /\ IsFiniteSet({n}) /\ Cardinality({n}) = 1
      /\ IsFiniteSet(1 .. items[n]) /\ Cardinality(1 .. items[n]) = items[n]
  <2>1. items[n] \in Int /\ 1 \in Int /\ items[n] - 1 + 1 = items[n] /\ (1 > items[n] => items[n] = 0)
    BY <1>2
  <2>2. IsFiniteSet(1 .. items[n]) /\ Cardinality(1 .. items[n]) = items[n]
    BY <1>2, <2>1, FS_Interval
  <2> QED BY <2>2, FS_Singleton
<1>4. Cardinality({n} \X (1 .. items[n])) = 1 * items[n]
  <2> DEFINE One == {n}
             Below == 1 .. items[n]
  <2>1. IsFiniteSet(One) /\ Cardinality(One) = 1 /\ IsFiniteSet(Below) /\ Cardinality(Below) = items[n]
    BY <1>3
  <2> HIDE DEF One, Below
  <2>2. Cardinality(One \X Below) = 1 * items[n]
    BY ONLY <2>1, FS_Product
  <2> QED BY ONLY <2>2 DEF One, Below
<1> QED BY <1>1, <1>2, <1>4 DEF SizeOf, Bytes

\* An item with room on a page fits on a page of its own.
LEMMA OneFits ==
  ASSUME Asked, NEW n \in DOMAIN items, ~(items[n] > PageBytes)
  PROVE  Fits({n})
<1>1. items[n] \in Nat /\ PageBytes \in Nat /\ SizeOf({n}) = items[n]
  BY ItemsShape, SizeOfOne
<1>2. Cardinality({n}) = 1 /\ limit \in Nat \ {0}
  BY FS_Singleton DEF Asked
<1> QED BY <1>1, <1>2 DEF Fits

\* What is left is what is wanted from the cursor on.
LEMMA SelectedShape ==
  ASSUME Asked
  PROVE  /\ Selected = {n \in Wanted : n >= cursor}
         /\ Wanted \in SUBSET DOMAIN items /\ Wanted \in SUBSET Nat /\ IsFiniteSet(Wanted)
         /\ \A n \in Wanted : n \in Nat \ {0} /\ n <= Top
         /\ Selected \in SUBSET DOMAIN items /\ Selected \in SUBSET Nat /\ IsFiniteSet(Selected)
<1>1. Selected = {n \in Wanted : n >= cursor}
  BY DEF Selected, SelectedLine, Wanted
<1>2. Wanted \in SUBSET DOMAIN items
  BY DEF Wanted
<1>3. Wanted \in SUBSET Nat /\ \A n \in Wanted : n \in Nat \ {0} /\ n <= Top
  BY <1>2, ItemsShape
<1>4. Selected \in SUBSET Wanted
  BY <1>1
<1>5. IsFiniteSet(Wanted) /\ IsFiniteSet(Selected)
  BY <1>2, <1>4, ItemsShape, FS_Subset
<1> QED BY <1>1, <1>2, <1>3, <1>4, <1>5

\* What comes in one page of directory, glob and artifact lines is the beginning of
\* what is left.
LEMMA ContiguousShape ==
  ASSUME Asked
  PROVE  /\ Contiguous \subseteq Selected
         /\ \A n \in Contiguous : \A m \in Selected : m <= n => m \in Contiguous
         /\ \A n \in Selected :
              ~(items[n] > PageBytes) /\ (\A m \in Selected : n <= m) => n \in Contiguous
<1>1. Selected \subseteq DOMAIN items /\ \A n \in Selected : n \in Nat
  BY SelectedShape
<1>2. Contiguous \subseteq Selected
  BY DEF Contiguous
<1>3. ASSUME NEW n \in Contiguous, NEW m \in Selected, m <= n
      PROVE  m \in Contiguous
  <2>1. Before(m) \in SUBSET Before(n) /\ Before(n) \in SUBSET DOMAIN items
    <3>1. n \in Nat /\ m \in Nat
      BY <1>1, <1>2
    <3>2. \A k \in Selected : k <= m => k <= n
      BY <1>1, <1>3, <3>1
    <3> QED BY <1>1, <3>2 DEF Before
  <2>2. SizeOf(Before(m)) <= SizeOf(Before(n)) /\ SizeOf(Before(n)) \in Nat
    BY <2>1, SizeShape
  <2>3. SizeOf(Before(m)) \in Nat
    <3>1. Before(m) \in SUBSET DOMAIN items
      BY <2>1
    <3> QED BY <3>1, SizeShape
  <2>4. /\ Cardinality(Before(m)) <= Cardinality(Before(n))
        /\ Cardinality(Before(n)) \in Nat /\ Cardinality(Before(m)) \in Nat
    <3>1. IsFiniteSet(Before(n))
      BY <2>1, ItemsShape, FS_Subset
    <3> QED BY <2>1, <3>1, FS_Subset, FS_CardinalityType
  <2>5. Cardinality(Before(n)) <= limit /\ SizeOf(Before(n)) <= PageBytes
    BY DEF Contiguous, Fits
  <2>6. limit \in Nat /\ PageBytes \in Nat
    BY PagingAssumption DEF Asked
  <2>7. Cardinality(Before(m)) <= limit /\ SizeOf(Before(m)) <= PageBytes
    BY ONLY <2>2, <2>3, <2>4, <2>5, <2>6
  <2> QED BY <2>7, <1>3 DEF Contiguous, Fits
<1>4. ASSUME NEW n \in Selected, ~(items[n] > PageBytes), \A m \in Selected : n <= m
      PROVE  n \in Contiguous
  <2>1. Before(n) = {n}
    BY <1>1, <1>4 DEF Before
  <2>2. Fits({n})
    BY <1>1, <1>4, OneFits
  <2> QED BY <2>1, <2>2 DEF Contiguous
<1> QED BY <1>2, <1>3, <1>4

\* n with those of T before it.
With(T, n) == {m \in T : m < n} \cup {n}

\* There is something that file_read and grep take: passing over what does not fit
\* comes to the end of what is left.
LEMMA SkippingShape ==
  ASSUME Asked
  PROVE  /\ Skipping \subseteq Selected
         /\ \A n \in Selected : n \in Skipping <=> Fits(With(Skipping, n))
<1> DEFINE Right(T, k) == \A n \in Selected : n <= k => (n \in T <=> Fits(With(T, n)))
           Upto(k) == \E T \in SUBSET Selected : (\A m \in T : m <= k) /\ Right(T, k)
           Bad == {k \in Nat : ~Upto(k)}
<1>1. Selected \in SUBSET Nat /\ \A n \in Selected : n \in Nat \ {0} /\ n <= Len(items)
  BY SelectedShape, ItemsShape
<1>2. Upto(0)
  <2>1. {} \in SUBSET Selected /\ \A m \in {} : m <= 0
    OBVIOUS
  <2>2. \A n \in Selected : ~(n <= 0)
    BY <1>1
  <2>3. Right({}, 0)
    BY <2>2
  <2> HIDE DEF Right
  <2> QED BY <2>1, <2>3
<1>3. ASSUME NEW k \in Nat, Upto(k)
      PROVE  Upto(k + 1)
  <2>1. PICK T \in SUBSET Selected : (\A m \in T : m <= k) /\ Right(T, k)
    BY <1>3
  <2>2. \A m \in Selected : m \in Nat /\ (m <= k + 1 <=> m <= k \/ m = k + 1) /\ ~(k + 1 <= k)
    BY <1>1
  <2>3. CASE k + 1 \in Selected /\ Fits(With(T, k + 1))
    <3> DEFINE U == T \cup {k + 1}
    <3>1. U \in SUBSET Selected /\ \A m \in U : m <= k + 1
      BY <2>1, <2>2, <2>3
    <3>2. ASSUME NEW n \in Selected, n <= k + 1
          PROVE  With(U, n) = With(T, n) /\ (n # k + 1 => (n \in U <=> n \in T))
      <4>1. n \in Nat /\ ~(k + 1 < n)
        BY <1>1, <3>2
      <4> QED BY <4>1 DEF With
    <3>3. Right(U, k + 1)
      <4> SUFFICES ASSUME NEW n \in Selected, n <= k + 1
                   PROVE  n \in U <=> Fits(With(U, n))
        OBVIOUS
      <4>1. CASE n = k + 1
        BY <2>3, <3>2, <4>1
      <4>2. CASE n # k + 1
        <5>1. n <= k
          BY <2>2, <4>2
        <5>2. n \in T <=> Fits(With(T, n))
          BY <2>1, <5>1
        <5> HIDE DEF U
        <5> QED BY <3>2, <4>2, <5>2
      <4> QED BY <4>1, <4>2
    <3> HIDE DEF U, Right
    <3> QED BY <3>1, <3>3
  <2>4. CASE ~(k + 1 \in Selected /\ Fits(With(T, k + 1)))
    <3>1. \A m \in T : m <= k + 1
      BY <2>1, <2>2
    <3>2. k + 1 \notin T
      BY <2>1, <2>2
    <3>3. Right(T, k + 1)
      <4> SUFFICES ASSUME NEW n \in Selected, n <= k + 1
                   PROVE  n \in T <=> Fits(With(T, n))
        OBVIOUS
      <4>1. CASE n = k + 1
        <5>1. Fits(With(T, n)) \in BOOLEAN
          BY DEF Fits
        <5> QED BY <2>4, <3>2, <4>1, <5>1
      <4>2. CASE n # k + 1
        BY <2>1, <2>2, <4>2
      <4> QED BY <4>1, <4>2
    <3> HIDE DEF Right
    <3> QED BY <3>1, <3>3
  <2> QED BY <2>3, <2>4
<1> HIDE DEF Upto
<1>4. Bad = {}
  <2> SUFFICES ASSUME Bad # {}
               PROVE  FALSE
    OBVIOUS
  <2>1. PICK k \in Bad : \A m \in Bad : k <= m
    <3>1. Bad \in SUBSET Nat
      OBVIOUS
    <3> HIDE DEF Bad
    <3> QED BY ONLY <3>1, Bad # {}, LeastNumber
  <2>2. k \in Nat /\ ~Upto(k) /\ k # 0
    BY <1>2
  <2>3. k - 1 \in Nat /\ ~(k <= k - 1) /\ (k - 1) + 1 = k
    BY <2>2
  <2>4. k - 1 \notin Bad
    BY <2>1, <2>3
  <2>5. Upto(k - 1)
    BY <2>3, <2>4
  <2> QED BY <1>3, <2>2, <2>3, <2>5
<1>5. Upto(Len(items))
  BY <1>4, ItemsShape
<1>6. \E T \in SUBSET Selected : \A n \in Selected : n \in T <=> Fits(With(T, n))
  BY <1>1, <1>5 DEF Upto
<1>7. Skipping = CHOOSE T \in SUBSET Selected : \A n \in Selected : n \in T <=> Fits(With(T, n))
  BY DEF Skipping, With
<1> QED BY <1>6, <1>7

----------------------------------------------------------------------------
(* one page                                                                *)

\* The lowest line that is asked for.
LEMMA LowestShape ==
  ASSUME NEW rs \in Seq((Nat \ {0}) \X Nat), rs # <<>>
  PROVE  Lowest(rs) \in Nat \ {0} /\ \A i \in DOMAIN rs : Lowest(rs) <= rs[i][1]
<1> DEFINE S == {rs[i][1] : i \in DOMAIN rs}
<1>1. \A i \in DOMAIN rs : rs[i][1] \in Nat \ {0}
  OBVIOUS
<1>2. S \in SUBSET Nat /\ S # {} /\ 0 \notin S
  BY <1>1
<1>3. \E n \in S : \A m \in S : n <= m
  BY ONLY <1>2, LeastNumber
<1>4. \E n \in S : \A i \in DOMAIN rs : n <= rs[i][1]
  BY <1>3
<1>5. Lowest(rs) \in S /\ \A i \in DOMAIN rs : Lowest(rs) <= rs[i][1]
  BY <1>4 DEF Lowest
<1> HIDE DEF S
<1> QED BY <1>2, <1>5

\* The numbers of P that are left before another of P are in P.
Closed(P) == \A n \in P : \A m \in Selected : m <= n => m \in P

\* A page has some of what is left, and the first of it if a page has room for that;
\* without a gap it is the beginning of what is left.
LEMMA PageShape ==
  ASSUME Asked
  PROVE  /\ Page \subseteq Selected
         /\ Page = Contiguous => Closed(Page)
         /\ tool \notin {"file", "grep"} => Page = Contiguous
         /\ \A n \in Selected :
              ~(items[n] > PageBytes) /\ (\A m \in Selected : n <= m) => n \in Page
<1>1. CASE tool \in {"file", "grep"}
  <2>1. Page = Skipping
    BY <1>1 DEF Page
  <2>2. Page = Contiguous => Closed(Page)
    BY ContiguousShape DEF Closed
  <2>3. ASSUME NEW n \in Selected, ~(items[n] > PageBytes), \A m \in Selected : n <= m
        PROVE  n \in Skipping
    <3>1. \A m \in Skipping : ~(m < n)
      BY <2>3, SkippingShape, SelectedShape
    <3>2. With(Skipping, n) = {n}
      BY <3>1 DEF With
    <3>3. Fits({n})
      BY <2>3, SelectedShape, OneFits
    <3> QED BY <3>2, <3>3, SkippingShape
  <2> QED BY <1>1, <2>1, <2>2, <2>3, SkippingShape
<1>2. CASE tool \notin {"file", "grep"}
  <2>1. Page = Contiguous
    BY <1>2 DEF Page
  <2> QED BY <2>1, ContiguousShape DEF Closed
<1> QED BY <1>1, <1>2

\* The numbers lineNumbers counts through are numbers, and those of a page among
\* them; a page without a gap has the first of them.
LEMMA LineNumberShape ==
  ASSUME Asked, RangesInOrder, StartLine = cursor, cursor \in Nat \ {0},
         NEW P, P \subseteq Selected
  PROVE  \A i \in 1 .. Cardinality(P) :
           /\ LineNumber(i) # 0
           /\ Closed(P) => LineNumber(i) = Ascending(P)[i]
<1> DEFINE N == {n \in cursor .. Top : InRanges(n, ranges)}
<1>1. N \in SUBSET Nat /\ 0 \notin N /\ IsFiniteSet(N)
  <2>1. cursor \in Int /\ Top \in Int /\ Top \in Nat
    BY ItemsShape
  <2>2. IsFiniteSet(cursor .. Top)
    BY <2>1, FS_Interval
  <2>3. N \in SUBSET (cursor .. Top) /\ N \in SUBSET Nat /\ 0 \notin N
    BY <2>1
  <2> HIDE DEF N
  <2> QED BY ONLY <2>2, <2>3, FS_Subset
<1>2. \A n \in Selected : /\ n \in Nat /\ n <= Top /\ cursor <= n
                          /\ n <= Len(items) /\ InRanges(n, ranges)
  BY SelectedShape, ItemsShape DEF Selected, SelectedLine, Asks, RangesInOrder
<1>3. P \subseteq N
  BY <1>2, ItemsShape
<1>4. ASSUME Closed(P), NEW a \in P, NEW n \in N, n <= a
      PROVE  n \in P
  <2>1. n \in Nat /\ cursor <= n /\ 1 <= n /\ InRanges(n, ranges)
    BY <1>1
  <2>2. a \in Nat /\ a <= Len(items) /\ Len(items) \in Nat
    BY <1>2, ItemsShape
  <2>3. n \in 1 .. Len(items)
    BY ONLY <2>1, <2>2, n <= a
  <2>4. n \in Selected
    BY <2>1, <2>3, ItemsShape DEF Selected, SelectedLine, Asks
  <2> QED BY <1>4, <2>4 DEF Closed
<1> HIDE DEF N
<1>5. /\ Cardinality(P) \in Nat /\ Cardinality(N) \in Nat /\ Cardinality(P) <= Cardinality(N)
      /\ Ascending(N) \in [1 .. Cardinality(N) -> N]
  <2>1. IsFiniteSet(P) /\ Cardinality(P) <= Cardinality(N)
    BY ONLY <1>1, <1>3, FS_Subset
  <2> QED BY <1>1, <2>1, AscendingShape, FS_CardinalityType
<1>6. ASSUME NEW i \in 1 .. Cardinality(P)
      PROVE  i \in 1 .. Cardinality(N) /\ LineNumber(i) = Ascending(N)[i]
  <2>1. i \in 1 .. Cardinality(N) /\ ~(Cardinality(N) < i)
    BY <1>5
  <2>2. LineNumber(i) = IF Cardinality(N) < i THEN 0
                        ELSE CHOOSE n \in N : Cardinality({m \in N : m <= n}) = i
    BY DEF LineNumber, N
  <2> QED BY <2>1, <2>2 DEF Ascending
<1>7. ASSUME Closed(P), NEW i \in 1 .. Cardinality(P)
      PROVE  Ascending(N)[i] = Ascending(P)[i]
  <2>1. \A a \in P : \A n \in N : n <= a => n \in P
    BY <1>4, <1>7
  <2> QED BY ONLY <1>1, <1>3, <2>1, i \in 1 .. Cardinality(P), AscendingBegins
<1>8. ASSUME NEW i \in 1 .. Cardinality(P)
      PROVE  LineNumber(i) # 0
  <2>1. i \in 1 .. Cardinality(N) /\ LineNumber(i) = Ascending(N)[i]
    BY <1>6
  <2> QED BY <1>1, <1>5, <2>1
<1> QED BY <1>6, <1>7, <1>8

\* What lineNumbers gives is a number, for any ranges.
LEMMA LineNumberType ==
  ASSUME Asked, cursor \in Nat, NEW i \in Nat \ {0}
  PROVE  LineNumber(i) \in Nat
<1> DEFINE N == {n \in StartLine .. Top : InRanges(n, ranges)}
<1>1. StartLine \in Nat
  <2>1. ranges # <<>> => ranges[1][1] \in Nat
    BY DEF Asked
  <2> QED BY <2>1 DEF StartLine
<1>2. N \in SUBSET Nat /\ IsFiniteSet(N)
  <2>1. StartLine \in Int /\ Top \in Int
    BY <1>1, ItemsShape
  <2>2. IsFiniteSet(StartLine .. Top)
    BY <2>1, FS_Interval
  <2>3. N \in SUBSET (StartLine .. Top) /\ N \in SUBSET Nat
    BY <1>1, <2>1
  <2> HIDE DEF N
  <2> QED BY ONLY <2>2, <2>3, FS_Subset
<1>3. LineNumber(i) = IF Cardinality(N) < i THEN 0
                      ELSE CHOOSE n \in N : Cardinality({m \in N : m <= n}) = i
  BY DEF LineNumber
<1> HIDE DEF N
<1>4. Cardinality(N) \in Nat /\ Ascending(N) \in [1 .. Cardinality(N) -> N]
  BY <1>2, AscendingShape
<1>5. CASE ~(Cardinality(N) < i)
  <2>1. i \in 1 .. Cardinality(N)
    BY <1>4, <1>5
  <2>2. LineNumber(i) = Ascending(N)[i]
    BY <1>3, <1>5, <2>1 DEF Ascending
  <2> QED BY <1>2, <1>4, <2>1, <2>2
<1> QED BY <1>3, <1>5

\* A finite set of numbers has a greatest one.
LEMMA GreatestNumber ==
  ASSUME NEW P \in SUBSET Nat, IsFiniteSet(P), P # {}
  PROVE  \E n \in P : \A m \in P : m <= n
<1> DEFINE k == Cardinality(P)
           s == Ascending(P)
<1>1. /\ k \in Nat /\ s \in [1 .. k -> P]
      /\ \A n \in P : \E i \in 1 .. k : s[i] = n
      /\ \A i, j \in 1 .. k : i < j => s[i] < s[j]
  BY AscendingShape
<1> HIDE DEF k, s
<1>2. k \in 1 .. k
  <2>1. PICK m \in P : TRUE
    OBVIOUS
  <2>2. \E i \in 1 .. k : s[i] = m
    BY <1>1
  <2> QED BY <1>1, <2>2
<1>3. ASSUME NEW m \in P
      PROVE  m <= s[k]
  <2>1. PICK i \in 1 .. k : s[i] = m
    BY <1>1
  <2>2. i = k \/ i < k
    BY <1>1
  <2>3. s[i] \in Nat /\ s[k] \in Nat
    BY <1>1, <1>2
  <2>4. s[i] < s[k] \/ s[i] = s[k]
    BY <1>1, <1>2, <2>2
  <2> QED BY ONLY <2>1, <2>3, <2>4
<1> QED BY <1>1, <1>2, <1>3

\* The cursor that is left something goes no way back; it is past the page but for a
\* file, and past nothing that was left out but for a grep, and for both if the page
\* has no gap.
LEMMA NextCursorShape ==
  ASSUME Asked, cursor \in Nat,
         NEW P, P \subseteq Selected, P # {}, Selected \ P # {},
         tool \notin {"file", "grep"} => Closed(P)
  PROVE  /\ NextCursor(P) \in Nat \ {0}
         /\ tool # "file" \/ Closed(P) => \A n \in P : n < NextCursor(P)
         /\ tool # "grep" \/ Closed(P) => \A n \in Selected \ P : NextCursor(P) <= n
         /\ NextCursor(P) = cursor =>
              NextCursor(P) \in Selected \ P /\ \A m \in Selected : NextCursor(P) <= m
<1> DEFINE missed == Selected \ P
           largest == CHOOSE n \in P \cup {0} : \A m \in P : m <= n
<1>1. \A n \in Selected : n \in Nat /\ cursor <= n /\ n # 0
  BY ItemsShape DEF Selected, SelectedLine
<1>2. Closed(P) => \A n \in P, m \in missed : n < m
  BY <1>1 DEF Closed
<1>3. NextCursor(P) = IF missed = {} THEN 0
                      ELSE IF tool \in {"listing", "grep"} THEN IF P = {} THEN 0 ELSE largest + 1
                      ELSE CHOOSE n \in missed : \A m \in missed : n <= m
  BY DEF NextCursor
<1>4. missed # {} /\ missed \subseteq Selected
  OBVIOUS
<1>5. CASE tool \in {"listing", "grep"}
  <2>1. largest \in P /\ \A m \in P : m <= largest
    <3>1. P \in SUBSET Nat /\ IsFiniteSet(P)
      <4>1. IsFiniteSet(Selected) /\ P \in SUBSET Nat
        BY <1>1, SelectedShape
      <4> QED BY <4>1, FS_Subset
    <3>2. \E n \in P \cup {0} : \A m \in P : m <= n
      BY <3>1, GreatestNumber
    <3>3. largest \in P \cup {0} /\ \A m \in P : m <= largest
      BY <3>2
    <3> HIDE DEF largest
    <3>4. largest # 0
      BY <1>1, <3>3
    <3> QED BY <3>3, <3>4
  <2>2. NextCursor(P) = largest + 1
    BY <1>3, <1>5
  <2> HIDE DEF largest
  <2>3. largest \in Nat /\ cursor <= largest /\ \A n \in P : n \in Nat /\ n <= largest
    BY <1>1, <2>1
  <2>4. NextCursor(P) \in Nat \ {0} /\ NextCursor(P) # cursor /\ \A n \in P : n < NextCursor(P)
    BY ONLY <2>2, <2>3, cursor \in Nat
  <2>5. Closed(P) => \A n \in missed : NextCursor(P) <= n
    <3>1. Closed(P) => \A n \in missed : largest < n /\ n \in Nat
      BY <1>1, <1>2, <2>1
    <3> HIDE DEF missed
    <3> QED BY ONLY <2>2, <2>3, <3>1
  <2>6. tool = "listing" => Closed(P)
    OBVIOUS
  <2> QED BY <1>5, <2>4, <2>5, <2>6
<1>6. CASE tool \notin {"listing", "grep"}
  <2>1. NextCursor(P) = CHOOSE n \in missed : \A m \in missed : n <= m
    BY <1>3, <1>6
  <2>2. missed \in SUBSET Nat
    BY <1>1
  <2>3. \E n \in missed : \A m \in missed : n <= m
    <3> HIDE DEF missed
    <3> QED BY ONLY <1>4, <2>2, LeastNumber
  <2>4. NextCursor(P) \in missed /\ \A m \in missed : NextCursor(P) <= m
    <3> HIDE DEF missed
    <3> QED BY <2>1, <2>3
  <2> DEFINE c == NextCursor(P)
  <2>5. c \in missed /\ c \in Nat \ {0} /\ \A m \in missed : c <= m
    BY <1>1, <2>4
  <2> HIDE DEF c
  <2>6. tool # "file" => Closed(P)
    BY <1>6
  <2>7. Closed(P) => \A n \in P : n < c
    BY <1>2, <2>5
  <2>8. c = cursor => \A m \in Selected : c <= m
    BY <1>1
  <2> QED BY <2>5, <2>6, <2>7, <2>8 DEF c
<1> QED BY <1>5, <1>6

----------------------------------------------------------------------------
(* the invariant is inductive                                              *)

\* The elements of two lists, one after the other.
LEMMA Appends ==
  ASSUME NEW R, NEW g \in Seq(R), NEW h \in Seq(R)
  PROVE  /\ g \o h \in Seq(R)
         /\ \A i \in DOMAIN g : i \in DOMAIN (g \o h) /\ (g \o h)[i] = g[i]
         /\ \A i \in DOMAIN h : \E j \in DOMAIN (g \o h) : (g \o h)[j] = h[i]
         /\ \A i \in DOMAIN (g \o h) :
              \/ i \in DOMAIN g /\ (g \o h)[i] = g[i]
              \/ i - Len(g) \in DOMAIN h /\ (g \o h)[i] = h[i - Len(g)]
         /\ \A i, j \in DOMAIN (g \o h) :
              i < j /\ j \in DOMAIN g => i \in DOMAIN g
         /\ DOMAIN g \subseteq Nat /\ DOMAIN h \subseteq Nat /\ Len(g) \in Nat
         /\ DOMAIN (g \o h) \subseteq Nat
<1> DEFINE k == Len(g)
           l == Len(h)
           u == g \o h
<1>1. k \in Nat /\ l \in Nat /\ DOMAIN g = 1 .. k /\ DOMAIN h = 1 .. l
  OBVIOUS
<1>2. /\ u \in Seq(R) /\ Len(u) = k + l
      /\ \A i \in 1 .. k + l : u[i] = IF i <= k THEN g[i] ELSE h[i - k]
  BY ConcatProperties
<1>3. DOMAIN u = 1 .. k + l
  <2> HIDE DEF u, k, l
  <2> QED BY <1>2
<1> HIDE DEF u, k, l
<1>4. ASSUME NEW i \in DOMAIN g
      PROVE  i \in DOMAIN u /\ u[i] = g[i]
  BY <1>1, <1>2, <1>3
<1>5. ASSUME NEW i \in DOMAIN h
      PROVE  \E j \in DOMAIN u : u[j] = h[i]
  <2> DEFINE j == k + i
  <2>1. j \in 1 .. k + l /\ ~(j <= k) /\ j - k = i
    BY <1>1
  <2> HIDE DEF j
  <2>2. u[j] = h[i]
    BY <1>2, <2>1
  <2> QED BY <1>3, <2>1, <2>2
<1>6. ASSUME NEW i \in DOMAIN u
      PROVE  \/ i \in DOMAIN g /\ u[i] = g[i]
             \/ i - k \in DOMAIN h /\ u[i] = h[i - k]
  <2>1. i \in 1 .. k + l
    BY <1>3
  <2>2. CASE i <= k
    BY <1>1, <1>2, <2>1, <2>2
  <2>3. CASE ~(i <= k)
    <3>1. i - k \in 1 .. l
      BY <1>1, <2>1, <2>3
    <3> QED BY <1>1, <1>2, <2>1, <2>3, <3>1
  <2> QED BY <2>2, <2>3
<1>7. \A i, j \in DOMAIN u : i < j /\ j \in DOMAIN g => i \in DOMAIN g
  BY <1>1, <1>3
<1>8. DOMAIN g \subseteq Nat /\ DOMAIN h \subseteq Nat /\ DOMAIN u \subseteq Nat
  BY <1>1, <1>3
<1>9. Len(g) = k /\ g \o h = u
  BY DEF k, u
<1> QED BY <1>1, <1>2, <1>4, <1>5, <1>6, <1>7, <1>8, <1>9

LEMMA PagingInitKeeps ==
  ASSUME PagingInit
  PROVE  PagingInv
<1>1. Asked
  <2>1. tool \in Tools /\ items \in Inputs
    BY DEF PagingInit
  <2>2. ranges \in Seq((Nat \ {0}) \X Nat) /\ limit \in Nat \ {0}
    <3>1. NoRanges \in Seq((Nat \ {0}) \X Nat)
      <4>1. <<1, Top>> \in (Nat \ {0}) \X Nat
        BY PagingAssumption
      <4> QED BY <4>1 DEF NoRanges
    <3> QED BY <3>1, PagingAssumption DEF PagingInit
  <2> QED BY <2>1, <2>2, PagingAssumption DEF Asked
<1>2. reading = "more" /\ got = <<>> /\ DOMAIN got = {}
  BY DEF PagingInit
<1>3. Given
  BY <1>2 DEF Given
<1>4. cursor \in Nat \ {0} /\ (ranges # <<>> => cursor = Lowest(ranges))
  <2>1. CASE ranges = <<>>
    BY <2>1 DEF PagingInit
  <2>2. CASE ranges # <<>>
    BY <1>1, <2>2, LowestShape DEF PagingInit, Asked
  <2> QED BY <2>1, <2>2
<1>5. CursorInPlace
  BY <1>4 DEF CursorInPlace
<1>6. Follows
  BY <1>2 DEF Follows
<1>7. \A n \in Wanted : ~(n < cursor)
  <2>1. CASE ranges = <<>>
    <3>1. cursor = 1
      BY <2>1 DEF PagingInit
    <3> QED BY <1>1, <3>1, SelectedShape
  <2>2. CASE ranges # <<>>
    <3> SUFFICES ASSUME NEW n \in Wanted
                 PROVE  ~(n < cursor)
      OBVIOUS
    <3>1. InRanges(n, ranges)
      BY <2>2 DEF Wanted, Asks
    <3>2. PICK i \in DOMAIN ranges : ranges[i][1] <= n
      BY <3>1 DEF InRanges
    <3>3. ranges[i][1] \in Nat /\ cursor <= ranges[i][1]
      BY <1>1, <1>4, <2>2, LowestShape DEF Asked
    <3>4. n \in Nat
      BY <1>1, SelectedShape
    <3> QED BY ONLY <1>4, <3>2, <3>3, <3>4
  <2> QED BY <2>1, <2>2
<1>8. Complete
  BY <1>2, <1>7 DEF Complete
<1>9. CutAtLarge /\ NumbersAreTrue
  BY <1>2 DEF CutAtLarge, NumbersAreTrue
<1> QED BY <1>1, <1>2, <1>3, <1>5, <1>6, <1>8, <1>9 DEF PagingInv

\* The results of a page: its items in order, each with the number it has if the
\* page has no gap.
LEMMA PageResults ==
  ASSUME Asked, CursorInPlace, reading = "more",
         NEW s, s = Ascending(Page), NEW numbered,
         numbered = [i \in DOMAIN s |->
           [item |-> s[i],
            number |-> IF tool \in {"file", "artifact"} THEN LineNumber(i) ELSE s[i],
            gap |-> Page # Contiguous]]
  PROVE  /\ numbered \in Seq(Results) /\ DOMAIN numbered \subseteq Nat
         /\ \A i \in DOMAIN numbered : numbered[i].item \in Page /\ numbered[i].gap = (Page # Contiguous)
         /\ \A n \in Page : \E i \in DOMAIN numbered : numbered[i].item = n
         /\ \A i, j \in DOMAIN numbered : i < j => numbered[i].item < numbered[j].item
         /\ RangesInOrder => \A i \in DOMAIN numbered :
              /\ numbered[i].number # 0
              /\ Page = Contiguous => numbered[i].number = numbered[i].item
<1> DEFINE P == Page
           k == Cardinality(P)
<1>1. P \subseteq Selected /\ (Page = Contiguous => Closed(P))
  BY PageShape
<1>2. P \in SUBSET Nat /\ 0 \notin P /\ IsFiniteSet(P)
  <2>1. Selected \in SUBSET Nat /\ 0 \notin Selected /\ IsFiniteSet(Selected)
    BY SelectedShape DEF Selected
  <2> HIDE DEF P
  <2> QED BY <1>1, <2>1, FS_Subset
<1>3. cursor \in Nat \ {0} /\ (RangesInOrder => StartLine = cursor)
  BY DEF StartLine, CursorInPlace, RangesInOrder
<1>4. s = Ascending(P)
  OBVIOUS
<1> HIDE DEF P
<1>5. /\ k \in Nat /\ s \in [1 .. k -> P] /\ DOMAIN s = 1 .. k
      /\ \A n \in P : \E i \in 1 .. k : s[i] = n
      /\ \A i, j \in 1 .. k : i < j => s[i] < s[j]
  BY <1>2, <1>4, AscendingShape
<1>6. RangesInOrder => \A i \in 1 .. k : LineNumber(i) # 0 /\ (Closed(P) => LineNumber(i) = s[i])
  BY ONLY Asked, <1>1, <1>3, <1>4, LineNumberShape DEF k
<1> HIDE DEF k
<1>7. \A i \in 1 .. k : i \in Nat \ {0} /\ LineNumber(i) \in Nat /\ s[i] \in Nat /\ s[i] # 0 /\ s[i] \in P
  <2>1. \A i \in 1 .. k : i \in Nat \ {0}
    BY <1>5
  <2>2. \A i \in 1 .. k : s[i] \in P
    BY <1>5
  <2>3. \A i \in 1 .. k : LineNumber(i) \in Nat
    BY <1>3, <2>1, LineNumberType
  <2> QED BY <1>2, <2>1, <2>2, <2>3
<1> DEFINE m(i) == IF tool \in {"file", "artifact"} THEN LineNumber(i) ELSE s[i]
           gaps == Page # Contiguous
<1>8. numbered = [i \in 1 .. k |-> [item |-> s[i], number |-> m(i), gap |-> gaps]]
  BY <1>5
<1>9. \A i \in 1 .. k : m(i) \in Nat
  BY <1>7
<1>10. RangesInOrder => \A i \in 1 .. k : m(i) # 0 /\ (~gaps => m(i) = s[i])
  BY <1>1, <1>6, <1>7
<1>11. gaps \in BOOLEAN
  OBVIOUS
<1> HIDE DEF m, gaps
<1>12. DOMAIN numbered = 1 .. k
  BY <1>8
<1>13. \A i \in 1 .. k : /\ numbered[i].item = s[i] /\ numbered[i].number = m(i)
                         /\ numbered[i].gap = gaps /\ numbered[i] \in Results
  BY <1>7, <1>8, <1>9, <1>11 DEF Results
<1>14. numbered \in Seq(Results)
  <2>1. numbered \in [1 .. k -> Results]
    BY <1>8, <1>12, <1>13
  <2> QED BY <1>5, <2>1
<1>15. DOMAIN numbered \subseteq Nat
  BY <1>7, <1>12
<1>16. \A i \in DOMAIN numbered : numbered[i].item \in Page /\ numbered[i].gap = (Page # Contiguous)
  BY <1>7, <1>12, <1>13 DEF P, gaps
<1>17. \A n \in Page : \E i \in DOMAIN numbered : numbered[i].item = n
  BY <1>5, <1>12, <1>13 DEF P
<1>18. \A i, j \in DOMAIN numbered : i < j => numbered[i].item < numbered[j].item
  BY <1>5, <1>12, <1>13
<1>19. RangesInOrder => \A i \in DOMAIN numbered :
         /\ numbered[i].number # 0
         /\ Page = Contiguous => numbered[i].number = numbered[i].item
  BY <1>10, <1>12, <1>13 DEF gaps
<1> QED BY <1>14, <1>15, <1>16, <1>17, <1>18, <1>19

LEMMA ReadPageKeeps ==
  ASSUME PagingInv, ReadPage
  PROVE  PagingInv'
<1> DEFINE s == Ascending(Page)
           numbered == [i \in DOMAIN s |->
             [item |-> s[i],
              number |-> IF tool \in {"file", "artifact"} THEN LineNumber(i) ELSE s[i],
              gap |-> Page # Contiguous]]
<1>1. /\ reading = "more"
      /\ IF \E i \in DOMAIN numbered : numbered[i].number = 0
         THEN reading' = "stuck" /\ got' = got /\ cursor' = cursor
         ELSE /\ got' = got \o numbered
              /\ cursor' = NextCursor(Page)
              /\ reading' = IF Selected \ Page = {} THEN "end"
                            ELSE IF Page = {} \/ NextCursor(Page) = cursor THEN "cut" ELSE "more"
      /\ tool' = tool /\ items' = items /\ ranges' = ranges /\ limit' = limit
  BY DEF ReadPage
<1>2. Asked /\ Asked'
  BY <1>1 DEF PagingInv, Asked
<1>3. reading' \in {"more", "end", "cut", "stuck"}
  <2> HIDE DEF numbered
  <2> QED BY <1>1
<1>4. /\ RangesInOrder' <=> RangesInOrder
      /\ Wanted' = Wanted
  BY <1>1 DEF RangesInOrder, Wanted, Asks, InRanges, Lowest
<1>5. Given /\ CursorInPlace /\ Follows /\ Complete /\ NumbersAreTrue /\ cursor \in Nat
  BY <1>1 DEF PagingInv, CursorInPlace
<1>6. /\ numbered \in Seq(Results) /\ DOMAIN numbered \subseteq Nat
      /\ \A i \in DOMAIN numbered : numbered[i].item \in Page /\ numbered[i].gap = (Page # Contiguous)
      /\ \A n \in Page : \E i \in DOMAIN numbered : numbered[i].item = n
      /\ \A i, j \in DOMAIN numbered : i < j => numbered[i].item < numbered[j].item
      /\ RangesInOrder => \A i \in DOMAIN numbered :
           /\ numbered[i].number # 0
           /\ Page = Contiguous => numbered[i].number = numbered[i].item
  <2> HIDE DEF s
  <2>1. s = Ascending(Page)
    BY DEF s
  <2> QED BY ONLY <1>1, <1>2, <1>5, <2>1, PageResults DEF numbered
<1> HIDE DEF numbered
<1>7. CASE reading' = "stuck"
  <2>1. got' = got /\ ~RangesInOrder
    BY <1>1, <1>6, <1>7
  <2>2. Given' /\ Follows' /\ Complete'
    BY <1>1, <1>4, <1>5, <1>7, <2>1 DEF Given, Follows, Complete, Gaps
  <2> QED BY <1>2, <1>4, <1>7, <2>1, <2>2 DEF PagingInv, CursorInPlace, CutAtLarge, NumbersAreTrue
<1>8. CASE reading' # "stuck"
  <2> DEFINE P == Page
  <2>1. /\ got' = got \o numbered
        /\ cursor' = NextCursor(P)
        /\ reading' = IF Selected \ P = {} THEN "end"
                      ELSE IF P = {} \/ NextCursor(P) = cursor THEN "cut" ELSE "more"
    BY <1>1, <1>8
  <2>2. /\ P \subseteq Selected
        /\ P = Contiguous => Closed(P)
        /\ tool \notin {"file", "grep"} => P = Contiguous
        /\ \A n \in Selected :
             ~(items[n] > PageBytes) /\ (\A m \in Selected : n <= m) => n \in P
    BY <1>2, PageShape
  <2>3. /\ Selected = {n \in Wanted : n >= cursor}
        /\ Wanted \in SUBSET Nat /\ Selected \in SUBSET Nat
    BY <1>2, SelectedShape
  <2>4. /\ \A i \in DOMAIN numbered : numbered[i].item \in P /\ numbered[i].gap = (P # Contiguous)
        /\ \A n \in P : \E i \in DOMAIN numbered : numbered[i].item = n
        /\ RangesInOrder => \A i \in DOMAIN numbered :
             P = Contiguous => numbered[i].number = numbered[i].item
    BY <1>6
  <2> HIDE DEF P
  \* Each result is an earlier one or one of the page, and the earlier ones are first.
  <2>5. /\ got' \in Seq(Results)
        /\ \A i \in DOMAIN got : i \in DOMAIN got' /\ got'[i] = got[i]
        /\ \A i \in DOMAIN numbered : \E j \in DOMAIN got' : got'[j] = numbered[i]
        /\ \A i \in DOMAIN got' :
             \/ i \in DOMAIN got /\ got'[i] = got[i]
             \/ i - Len(got) \in DOMAIN numbered /\ got'[i] = numbered[i - Len(got)]
        /\ \A i, j \in DOMAIN got' : i < j /\ j \in DOMAIN got => i \in DOMAIN got
        /\ DOMAIN got' \subseteq Nat /\ Len(got) \in Nat
    <3>1. got \in Seq(Results) /\ numbered \in Seq(Results)
      BY <1>5, <1>6 DEF Given
    <3> DEFINE u == got \o numbered
    <3>2. /\ u \in Seq(Results)
          /\ \A i \in DOMAIN got : i \in DOMAIN u /\ u[i] = got[i]
          /\ \A i \in DOMAIN numbered : \E j \in DOMAIN u : u[j] = numbered[i]
          /\ \A i \in DOMAIN u :
               \/ i \in DOMAIN got /\ u[i] = got[i]
               \/ i - Len(got) \in DOMAIN numbered /\ u[i] = numbered[i - Len(got)]
          /\ \A i, j \in DOMAIN u : i < j /\ j \in DOMAIN got => i \in DOMAIN got
          /\ DOMAIN u \subseteq Nat /\ Len(got) \in Nat
      BY ONLY <3>1, Appends
    <3>3. got' = u
      BY <2>1
    <3> HIDE DEF u
    <3> QED BY ONLY <3>2, <3>3
  <2>6. /\ \A i \in DOMAIN got : got[i].item \in Wanted
        /\ \A n \in Wanted : n \in Nat /\ (n < cursor \/ n \in Selected)
        /\ \A n \in Selected : n \in Wanted /\ n \in Nat /\ cursor <= n
    BY <1>5, <2>3 DEF Given
  <2>7. Given'
    <3>1. \A i \in DOMAIN got' : got'[i].item \in Wanted
      BY <2>2, <2>4, <2>5, <2>6
    <3> QED BY <1>4, <2>5, <3>1 DEF Given
  \* A page with something on it that has a gap is seen in its results.
  <2>8. ~Gaps' => ~Gaps /\ (P # {} => P = Contiguous)
    <3>1. Gaps => Gaps'
      BY <2>5 DEF Gaps
    <3>2. P # {} /\ P # Contiguous => Gaps'
      <4> SUFFICES ASSUME P # {}, P # Contiguous
                   PROVE  Gaps'
        OBVIOUS
      <4>1. PICK i \in DOMAIN numbered : numbered[i].gap
        BY <2>4
      <4> QED BY <2>5, <4>1 DEF Gaps
    <3> QED BY <3>1, <3>2
  \* What the next cursor leaves behind it.
  <2>9. P # {} /\ Selected \ P # {} =>
          /\ cursor' \in Nat \ {0}
          /\ tool # "file" \/ ~Gaps' => \A n \in P : n < cursor'
          /\ tool # "grep" \/ ~Gaps' => \A n \in Selected \ P : cursor' <= n
          /\ cursor' = cursor => cursor' \in Selected \ P /\ \A m \in Selected : cursor' <= m
    BY <1>2, <1>5, <2>1, <2>2, <2>8, NextCursorShape
  <2>10. CursorInPlace'
    <3> SUFFICES ASSUME reading' = "more"
                 PROVE  cursor' \in Nat \ {0} /\ got' # <<>>
      BY DEF CursorInPlace
    <3>1. P # {} /\ Selected \ P # {}
      BY <2>1
    <3>2. PICK n \in P : TRUE
      BY <3>1
    <3>3. \E j \in DOMAIN got' : got'[j].item = n
      BY <2>4, <2>5
    <3> QED BY <2>9, <3>1, <3>3
  <2>11. Follows'
    <3> SUFFICES ASSUME tool # "file" \/ ~Gaps'
                 PROVE  /\ \A i, j \in DOMAIN got' : i < j => got'[i].item < got'[j].item
                        /\ reading' = "more" => \A i \in DOMAIN got' : got'[i].item < cursor'
      BY <1>1 DEF Follows
    <3>1. /\ \A i, j \in DOMAIN got : i < j => got[i].item < got[j].item
          /\ \A i \in DOMAIN got : got[i].item < cursor
      BY <1>1, <1>5, <2>8 DEF Follows
    <3>2. ASSUME NEW i \in DOMAIN got', NEW j \in DOMAIN got', i < j
          PROVE  got'[i].item < got'[j].item
      <4>1. CASE j \in DOMAIN got /\ got'[j] = got[j]
        <5>1. i \in DOMAIN got /\ got'[i] = got[i]
          BY <2>5, <3>2, <4>1
        <5> QED BY <3>1, <3>2, <4>1, <5>1
      <4>2. CASE j - Len(got) \in DOMAIN numbered /\ got'[j] = numbered[j - Len(got)]
        <5>1. got'[j].item \in Selected
          BY <2>2, <2>4, <4>2
        <5>2. CASE i \in DOMAIN got /\ got'[i] = got[i]
          <6>1. got'[i].item < cursor /\ got'[i].item \in Nat /\ got'[j].item \in Nat /\ cursor <= got'[j].item
            BY <2>6, <3>1, <5>1, <5>2
          <6> QED BY ONLY <1>5, <6>1
        <5>3. CASE i - Len(got) \in DOMAIN numbered /\ got'[i] = numbered[i - Len(got)]
          <6>1. i - Len(got) < j - Len(got)
            BY <2>5, <3>2
          <6> QED BY <1>6, <4>2, <5>3, <6>1
        <5> QED BY <2>5, <5>2, <5>3
      <4> QED BY <2>5, <4>1, <4>2
    <3>3. ASSUME reading' = "more", NEW i \in DOMAIN got'
          PROVE  got'[i].item < cursor'
      <4>1. P # {} /\ Selected \ P # {}
        BY <2>1, <3>3
      <4>2. /\ cursor' \in Nat /\ \A n \in P : n < cursor' /\ n \in Nat /\ cursor <= n
        BY <2>2, <2>6, <2>9, <4>1
      <4>3. CASE i \in DOMAIN got /\ got'[i] = got[i]
        <5>1. PICK n \in P : TRUE
          BY <4>1
        <5>2. /\ n < cursor' /\ n \in Nat /\ cursor <= n /\ cursor' \in Nat /\ cursor \in Nat
              /\ got'[i].item < cursor /\ got'[i].item \in Nat
          BY <1>5, <2>6, <3>1, <4>2, <4>3
        <5> QED BY ONLY <5>2
      <4>4. CASE i - Len(got) \in DOMAIN numbered /\ got'[i] = numbered[i - Len(got)]
        BY <2>4, <4>2, <4>4
      <4> QED BY <2>5, <4>3, <4>4
    <3> QED BY <3>2, <3>3
  <2>12. Complete'
    <3> SUFFICES ASSUME tool # "grep" \/ ~Gaps', NEW n \in Wanted,
                        reading' = "end" \/ (reading' = "more" /\ n < cursor')
                 PROVE  \E i \in DOMAIN got' : got'[i].item = n
      BY <1>1, <1>4 DEF Complete
    <3>1. CASE n < cursor
      <4>1. PICK i \in DOMAIN got : got[i].item = n
        BY <1>1, <1>5, <2>8, <3>1 DEF Complete
      <4> QED BY <2>5, <4>1
    <3>2. CASE n \in P
      <4>1. PICK i \in DOMAIN numbered : numbered[i].item = n
        BY <2>4, <3>2
      <4> QED BY <2>5, <4>1
    <3>3. CASE n \in Selected \ P
      <4>1. reading' = "more" /\ n < cursor' /\ P # {} /\ Selected \ P # {}
        BY <2>1, <3>3
      <4>2. cursor' <= n /\ cursor' \in Nat /\ n \in Nat
        BY <2>6, <2>9, <3>3, <4>1
      <4> QED BY ONLY <4>1, <4>2
    <3> QED BY <2>6, <3>1, <3>2, <3>3
  <2>13. CutAtLarge'
    <3> SUFFICES ASSUME reading' = "cut"
                 PROVE  \E n \in Wanted : items[n] > PageBytes
      BY <1>1, <1>4 DEF CutAtLarge
    <3>1. Selected \ P # {} /\ (P = {} \/ cursor' = cursor)
      BY <2>1
    <3>2. \E n \in Selected \ P : \A m \in Selected : n <= m
      <4>1. CASE P = {}
        <5>1. Selected # {} /\ Selected \in SUBSET Nat
          BY <2>3, <3>1
        <5>2. \E n \in Selected : \A m \in Selected : n <= m
          BY ONLY <5>1, LeastNumber
        <5> QED BY <4>1, <5>2
      <4>2. CASE P # {}
        BY <2>9, <3>1, <4>2
      <4> QED BY <4>1, <4>2
    <3> QED BY <2>2, <2>6, <3>2
  <2>14. NumbersAreTrue'
    <3> SUFFICES ASSUME RangesInOrder, NEW i \in DOMAIN got', ~got'[i].gap
                 PROVE  got'[i].number = got'[i].item
      BY <1>4, <1>8 DEF NumbersAreTrue
    <3>1. CASE i \in DOMAIN got /\ got'[i] = got[i]
      BY <1>5, <3>1 DEF NumbersAreTrue
    <3>2. CASE i - Len(got) \in DOMAIN numbered /\ got'[i] = numbered[i - Len(got)]
      BY <2>4, <3>2
    <3> QED BY <2>5, <3>1, <3>2
  <2> QED BY <1>2, <1>3, <2>7, <2>10, <2>11, <2>12, <2>13, <2>14 DEF PagingInv
<1> QED BY <1>7, <1>8

\* PagingInv holds as a caller goes from page to page, for any sizes, ranges, limits
\* and size of a page.
THEOREM PagingInvariant == PagingSpec => []PagingInv
<1>1. PagingInit => PagingInv
  BY PagingInitKeeps
<1>2. PagingInv /\ [ReadPage]_pageVars => PagingInv'
  <2> SUFFICES ASSUME PagingInv, [ReadPage]_pageVars
               PROVE  PagingInv'
    OBVIOUS
  <2>1. CASE ReadPage
    BY <2>1, ReadPageKeeps
  <2>2. CASE UNCHANGED pageVars
    BY <2>2 DEF pageVars, PagingInv, Asked, Given, Wanted, Asks, InRanges, CursorInPlace, Lowest,
                Follows, Complete, Gaps, CutAtLarge, NumbersAreTrue, RangesInOrder
  <2> QED BY <2>1, <2>2
<1> QED BY <1>1, <1>2, PTL DEF PagingSpec

----------------------------------------------------------------------------
(* what follows                                                            *)

\* PagesAreExact: the pages of `read`, `glob` and `grep` put together have what was
\* asked for, all of it, once and in order; but for the repeats of a file and the
\* losses of a grep after a gap.
THEOREM PagesAlwaysExact == PagingSpec => []PagesAreExact
<1>1. ASSUME PagingInv
      PROVE  PagesAreExact
  <2>1. \A n : n \in Wanted <=> n \in DOMAIN items /\ Asks(n)
    BY DEF Wanted
  <2>2. \A i \in DOMAIN got : got[i].item \in DOMAIN items /\ Asks(got[i].item)
    BY <1>1, <2>1 DEF PagingInv, Given
  <2>3. tool # "file" \/ ~Gaps => \A i, j \in DOMAIN got : i < j => got[i].item < got[j].item
    BY <1>1 DEF PagingInv, Follows
  <2>4. reading = "end" /\ (tool # "grep" \/ ~Gaps) =>
          \A n \in DOMAIN items : Asks(n) => \E i \in DOMAIN got : got[i].item = n
    BY <1>1, <2>1 DEF PagingInv, Complete
  <2>5. reading = "cut" => \E n \in DOMAIN items : Asks(n) /\ items[n] > PageBytes
    BY <1>1, <2>1 DEF PagingInv, CutAtLarge
  <2> QED BY <2>2, <2>3, <2>4, <2>5 DEF PagesAreExact
<1> QED BY <1>1, PagingInvariant, PTL

\* NumbersAreTrue: a line of a page without a gap has the number it has in the file,
\* and lineNumbers comes to its end, if the lowest range of a file is given first.
THEOREM NumbersAlwaysTrue == PagingSpec => []NumbersAreTrue
<1>1. PagingInv => NumbersAreTrue
  BY DEF PagingInv
<1> QED BY <1>1, PagingInvariant, PTL
=============================================================================

-------------------------- MODULE FileTransfersProofs --------------------------
(***************************************************************************)
(* Proofs about FileTransfers, for any calls, any workspace and any cut of *)
(* the stream.  The answers of the agent say nothing of the request they   *)
(* are for: AgentFrameChannel gives each to the call that waits longest    *)
(* (agent-transport.ts:88).  The invariant therefore follows a request     *)
(* from the queue of the writer over the socket into the agent and back,   *)
(* and says where in that queue the call of each is (OrderKept) and what   *)
(* the workspace has of it there (ServiceKept).                            *)
(***************************************************************************)
EXTENDS FileTransfers, FiniteSetTheorems, SequenceTheorems, TLAPS

----------------------------------------------------------------------------
(* the inductive invariant                                                 *)

Steps == {"begin", "chunk1", "chunk2", "commit", "abort", "read", "edit", "move", "remove", "over"}

\* The requests a call may make, as pairs of the call and its step.
Requests ==
  (Writes \X Uploading) \cup (Writes \X {"abort"}) \cup (Edits \X {"read", "edit"})
    \cup (Moves \X {"move"}) \cup (Removes \X {"remove"})

Answers == [call : Calls, step : Steps, ok : {"yes", "no"}]

TransferTypes ==
  /\ step \in [Calls -> Steps]
  /\ result \in [Calls -> {"idle", "none", "ok", "failed"}]
  /\ DOMAIN seen = Edits
  /\ channel \in {"open", "closed"}
  /\ pending \in Seq(Calls)
  /\ frames \in Seq(Requests)
  /\ offset \in {0, 1} /\ (offset = 1 => frames # <<>>)
  /\ wire \in Seq(Requests \X {0, 1})
  /\ replies \in Seq(Answers)
  /\ editing \in {<<>>} \cup {<<c>> : c \in Edits}
  /\ agent \in {"up", "gone"}
  /\ DOMAIN temps \subseteq Writes
  /\ litter \subseteq Writes \cup Edits \cup Removes
  /\ applied \subseteq Calls
  /\ DOMAIN files = DOMAIN Initial

\* A call that is open has something to ask for; one that is not has not.
StepsTold ==
  \A c \in Calls :
    /\ result[c] = "none" => <<c, step[c]>> \in Requests
    /\ result[c] \in {"ok", "failed"} => step[c] = "over"
    /\ result[c] = "idle" => step[c] = FirstStep(c)

\* The pieces of X are those of whole frames, up to one that may be cut at the end;
\* the requests in these frames.
Whole(X) ==
  \A i \in 1 .. Len(X) \div 2 : X[2 * i - 1] = <<X[2 * i][1], 1>> /\ X[2 * i][2] = 0
Asked(X) == [i \in 1 .. Len(X) \div 2 |-> X[2 * i][1]]

\* The requests the agent has not answered, in the order it will.
Unserved == [i \in DOMAIN editing |-> <<editing[i], "edit">>] \o Asked(OnTheWay)

\* While the channel is open the calls wait in the order of the replies and then of
\* what is unserved, each for the step it asked for, and once.
QueueKept ==
  /\ Len(OnTheWay) % 2 = 0
  /\ Len(pending) = Len(replies) + Len(Unserved)
  /\ \A i \in 1 .. Len(replies) :
       <<pending[i], step[pending[i]]>> = <<replies[i].call, replies[i].step>>
  /\ \A i \in 1 .. Len(Unserved) :
       <<pending[Len(replies) + i], step[pending[Len(replies) + i]]>> = Unserved[i]
  /\ \A i, j \in 1 .. Len(pending) : pending[i] = pending[j] => i = j
  /\ \A i \in 1 .. Len(pending) : result[pending[i]] = "none"

\* Frames are whole and no call has two requests under way.
OrderKept ==
  /\ Whole(OnTheWay)
  /\ \A i, j \in 1 .. Len(Unserved) : Unserved[i][1] = Unserved[j][1] => i = j
  /\ channel = "closed" => frames = <<>> /\ pending = <<>>
  /\ channel = "open" => QueueKept

\* What the agent has of an upload before it serves step s of it.
Sent(c, s) ==
  IF s = "chunk1" THEN <<>> ELSE IF s = "chunk2" THEN <<<<c, 1>>>> ELSE Upload(c)

\* The agent can serve step s of c: for c nothing has been done but what comes before.
Ready(c, s) ==
  /\ s \in {"begin", "read", "edit", "move", "remove"} => c \notin DOMAIN temps /\ c \notin litter
  /\ s \in {"chunk1", "chunk2", "commit"} /\ agent = "up" =>
       c \in DOMAIN temps /\ temps[c] = Sent(c, s) /\ Target[c] \in dirs /\ c \notin litter
  /\ s \notin {"abort", "over"} => c \notin applied
  /\ s = "edit" => c \in Edits /\ seen[c] # Absent

\* What the answer r tells is so, and no transfer is open behind an abort.
Truthful(r) ==
  /\ r.ok = "yes" => Ready(r.call, NextStep(r.step, TRUE))
  /\ r.ok = "yes" /\ NextStep(r.step, TRUE) = "over" =>
       r.call \notin DOMAIN temps /\ (r.step # "abort" => r.call \in applied /\ r.call \notin litter)
  /\ r.step = "abort" => r.call \notin DOMAIN temps

\* A call that does not wait finds the workspace as its step expects it; when it has
\* returned it has no transfer open, and left nothing unless it failed.
AtRest(c) ==
  /\ Ready(c, step[c])
  /\ step[c] = "over" => c \notin DOMAIN temps /\ (result[c] = "ok" => c \notin litter)

\* Each call finds what it has left, wherever its request or its answer is.
ServiceKept ==
  /\ \A c \in Calls : result[c] = "ok" => c \in applied
  /\ agent = "gone" => DOMAIN temps = {}
  /\ \A i \in 1 .. Len(Unserved) : Ready(Unserved[i][1], Unserved[i][2])
  /\ channel = "open" =>
       /\ \A i \in 1 .. Len(replies) : Truthful(replies[i])
       /\ \A c \in Calls \ Range(pending) : AtRest(c)

TransferInv == TransferTypes /\ StepsTold /\ OrderKept /\ ServiceKept

----------------------------------------------------------------------------
(* sequences, and the pieces of frames                                     *)

\* A frame is written as two pieces.
Pieces(r) == <<<<r, 1>>, <<r, 0>>>>

LEMMA UnwrittenShape ==
  ASSUME NEW S, NEW fs \in Seq(S), NEW o \in {0, 1}, o <= 2 * Len(fs)
  PROVE  /\ Unwritten(fs, o) \in Seq(S \X {0, 1})
         /\ Len(Unwritten(fs, o)) = 2 * Len(fs) - o
         /\ \A j \in 1 .. 2 * Len(fs) - o :
              Unwritten(fs, o)[j] = <<fs[(j + o + 1) \div 2], (j + o) % 2>>
PROOF
  <1> DEFINE all == [i \in 1 .. 2 * Len(fs) |-> <<fs[(i + 1) \div 2], i % 2>>]
  <1>1. Len(fs) \in Nat /\ fs \in [1 .. Len(fs) -> S]
    BY LenProperties
  <1>2. \A i \in 1 .. 2 * Len(fs) : (i + 1) \div 2 \in 1 .. Len(fs) /\ i % 2 \in {0, 1}
    BY <1>1
  <1>3. \A i \in o + 1 .. 2 * Len(fs) : all[i] \in S \X {0, 1}
    BY <1>1, <1>2
  <1>4. o + 1 \in Int /\ 2 * Len(fs) \in Int
    BY <1>1
  <1> HIDE DEF all
  <1>5. /\ SubSeq(all, o + 1, 2 * Len(fs)) \in Seq(S \X {0, 1})
        /\ Len(SubSeq(all, o + 1, 2 * Len(fs))) =
             IF o + 1 <= 2 * Len(fs) THEN 2 * Len(fs) - (o + 1) + 1 ELSE 0
        /\ \A j \in 1 .. 2 * Len(fs) - (o + 1) + 1 : SubSeq(all, o + 1, 2 * Len(fs))[j] = all[o + 1 + j - 1]
    BY ONLY <1>3, <1>4, SubSeqProperties
  <1>6. Unwritten(fs, o) = SubSeq(all, o + 1, 2 * Len(fs))
    BY DEF Unwritten, all
  <1>7. ASSUME NEW j \in 1 .. 2 * Len(fs) - o
        PROVE  Unwritten(fs, o)[j] = <<fs[(j + o + 1) \div 2], (j + o) % 2>>
    <2>1. /\ j \in 1 .. 2 * Len(fs) - (o + 1) + 1
          /\ o + 1 + j - 1 = j + o
          /\ j + o \in 1 .. 2 * Len(fs)
      BY <1>1
    <2>2. Unwritten(fs, o)[j] = all[j + o]
      BY <1>5, <1>6, <2>1
    <2>3. all[j + o] = <<fs[(j + o + 1) \div 2], (j + o) % 2>>
      BY <2>1 DEF all
    <2> QED BY <2>2, <2>3
  <1>8. 2 * Len(fs) - o = IF o + 1 <= 2 * Len(fs) THEN 2 * Len(fs) - (o + 1) + 1 ELSE 0
    BY <1>1
  <1> QED BY <1>5, <1>6, <1>7, <1>8

\* What is left of a sequence behind its first k elements, and these.
LEMMA SuffixShape ==
  ASSUME NEW S, NEW s \in Seq(S), NEW k \in 0 .. Len(s)
  PROVE  /\ SubSeq(s, k + 1, Len(s)) \in Seq(S)
         /\ Len(SubSeq(s, k + 1, Len(s))) = Len(s) - k
         /\ \A i \in 1 .. Len(s) - k : SubSeq(s, k + 1, Len(s))[i] = s[k + i]
PROOF
  <1>1. Len(s) \in Nat /\ k \in Nat /\ k <= Len(s) /\ \A i \in k + 1 .. Len(s) : s[i] \in S
    BY LenProperties
  <1>2. /\ SubSeq(s, k + 1, Len(s)) \in Seq(S)
        /\ Len(SubSeq(s, k + 1, Len(s))) = IF k + 1 <= Len(s) THEN Len(s) - (k + 1) + 1 ELSE 0
        /\ \A i \in 1 .. Len(s) - (k + 1) + 1 : SubSeq(s, k + 1, Len(s))[i] = s[k + 1 + i - 1]
    <2>1. k + 1 \in Int /\ Len(s) \in Int
      BY <1>1
    <2> QED BY ONLY <1>1, <2>1, SubSeqProperties
  <1>3. /\ Len(s) - (k + 1) + 1 = Len(s) - k
        /\ ~(k + 1 <= Len(s)) => Len(s) - k = 0
        /\ \A i \in 1 .. Len(s) - k : k + 1 + i - 1 = k + i
    BY <1>1
  <1> QED BY <1>2, <1>3

LEMMA PrefixShape ==
  ASSUME NEW S, NEW s \in Seq(S), NEW n \in 0 .. Len(s)
  PROVE  /\ SubSeq(s, 1, n) \in Seq(S)
         /\ Len(SubSeq(s, 1, n)) = n
         /\ \A i \in 1 .. n : SubSeq(s, 1, n)[i] = s[i]
PROOF
  <1>1. n \in Nat /\ \A i \in 1 .. n : s[i] \in S
    BY LenProperties
  <1>2. /\ SubSeq(s, 1, n) \in Seq(S)
        /\ Len(SubSeq(s, 1, n)) = IF 1 <= n THEN n - 1 + 1 ELSE 0
        /\ \A i \in 1 .. n - 1 + 1 : SubSeq(s, 1, n)[i] = s[1 + i - 1]
    <2>1. 1 \in Int /\ n \in Int
      BY <1>1
    <2> QED BY ONLY <1>1, <2>1, SubSeqProperties
  <1> QED BY <1>1, <1>2

\* A sequence is what it begins with and what follows.
LEMMA Glued ==
  ASSUME NEW S, NEW a \in Seq(S), NEW b \in Seq(S), NEW s \in Seq(S),
         Len(s) = Len(a) + Len(b),
         \A i \in 1 .. Len(a) : a[i] = s[i],
         \A i \in 1 .. Len(b) : b[i] = s[Len(a) + i]
  PROVE  a \o b = s
PROOF
  <1>1. Len(a) \in Nat /\ Len(b) \in Nat
    BY LenProperties
  <1>2. /\ a \o b \in Seq(S) /\ Len(a \o b) = Len(a) + Len(b)
        /\ \A i \in 1 .. Len(a) + Len(b) : (a \o b)[i] = IF i <= Len(a) THEN a[i] ELSE b[i - Len(a)]
    BY ConcatProperties
  <1>3. ASSUME NEW i \in 1 .. Len(a \o b) PROVE (a \o b)[i] = s[i]
    <2>1. CASE i <= Len(a)
      BY <1>1, <1>2, <2>1
    <2>2. CASE ~(i <= Len(a))
      <3>1. i - Len(a) \in 1 .. Len(b) /\ Len(a) + (i - Len(a)) = i
        BY <1>1, <1>2, <2>2
      <3>2. b[i - Len(a)] = s[Len(a) + (i - Len(a))]
        BY <3>1
      <3> QED BY <1>2, <2>2, <3>1, <3>2
    <2> QED BY <2>1, <2>2
  <1> QED BY <1>2, <1>3, SeqEqual

\* Where the pieces of the frames are when 2 * k + p pieces are behind.
LEMMA PieceNumbers ==
  ASSUME NEW l \in Nat, NEW o \in {0, 1}, NEW p \in {0, 1}, NEW k \in Nat, NEW n \in Nat,
         k <= l, o + n = 2 * k + p, NEW j \in 1 .. 2 * (l - k) - p
  PROVE  /\ n + j \in 1 .. 2 * l - o
         /\ (j + p + 1) \div 2 \in 1 .. l - k
         /\ k + (j + p + 1) \div 2 = (n + j + o + 1) \div 2
         /\ (j + p) % 2 = (n + j + o) % 2
PROOF
  OBVIOUS

\* Of the unwritten pieces of fs the first n are those before the unwritten pieces of
\* the frames behind them.
SplitsAt(S, fs, o, p, k, n) ==
  /\ SubSeq(fs, k + 1, Len(fs)) \in Seq(S)
  /\ p = 1 => SubSeq(fs, k + 1, Len(fs)) # <<>>
  /\ SubSeq(Unwritten(fs, o), 1, n) \in Seq(S \X {0, 1})
  /\ Unwritten(SubSeq(fs, k + 1, Len(fs)), p) \in Seq(S \X {0, 1})
  /\ SubSeq(Unwritten(fs, o), 1, n) \o Unwritten(SubSeq(fs, k + 1, Len(fs)), p) = Unwritten(fs, o)

LEMMA UnwrittenSplit ==
  ASSUME NEW S, NEW fs \in Seq(S), NEW o \in {0, 1}, NEW p \in {0, 1}, NEW k \in Nat, NEW n \in Nat,
         k <= Len(fs), o + n = 2 * k + p, 2 * k + p <= 2 * Len(fs), o <= 2 * Len(fs)
  PROVE  SplitsAt(S, fs, o, p, k, n)
PROOF
  <1> DEFINE gs == SubSeq(fs, k + 1, Len(fs))
             U == Unwritten(fs, o)
             T == Unwritten(gs, p)
             A == SubSeq(U, 1, n)
  <1>1. Len(fs) \in Nat
    BY LenProperties
  <1>2. /\ gs \in Seq(S) /\ Len(gs) = Len(fs) - k
        /\ \A i \in 1 .. Len(fs) - k : gs[i] = fs[k + i]
    BY <1>1, SuffixShape
  <1>3. /\ U \in Seq(S \X {0, 1}) /\ Len(U) = 2 * Len(fs) - o
        /\ \A j \in 1 .. 2 * Len(fs) - o : U[j] = <<fs[(j + o + 1) \div 2], (j + o) % 2>>
    BY UnwrittenShape
  <1> HIDE DEF gs, U
  <1>4. p <= 2 * Len(gs) /\ (p = 1 => gs # <<>>)
    <2>1. p <= 2 * (Len(fs) - k) /\ (p = 1 => Len(fs) - k # 0)
      BY <1>1
    <2> QED BY <1>2, <2>1, EmptySeq
  <1>5. /\ T \in Seq(S \X {0, 1}) /\ Len(T) = 2 * (Len(fs) - k) - p
        /\ \A j \in 1 .. 2 * (Len(fs) - k) - p : T[j] = <<gs[(j + p + 1) \div 2], (j + p) % 2>>
    BY <1>2, <1>4, UnwrittenShape
  <1>6. n \in 0 .. Len(U)
    BY <1>1, <1>3
  <1>7. A \in Seq(S \X {0, 1}) /\ Len(A) = n /\ \A i \in 1 .. n : A[i] = U[i]
    BY <1>3, <1>6, PrefixShape
  <1> HIDE DEF T, A
  <1>8. ASSUME NEW j \in 1 .. Len(T) PROVE T[j] = U[n + j]
    <2>1. j \in 1 .. 2 * (Len(fs) - k) - p
      BY <1>5
    <2>2. /\ n + j \in 1 .. 2 * Len(fs) - o
          /\ (j + p + 1) \div 2 \in 1 .. Len(fs) - k
          /\ k + (j + p + 1) \div 2 = (n + j + o + 1) \div 2
          /\ (j + p) % 2 = (n + j + o) % 2
      BY <1>1, <2>1, PieceNumbers
    <2>3. gs[(j + p + 1) \div 2] = fs[(n + j + o + 1) \div 2]
      <3> DEFINE i == (j + p + 1) \div 2
      <3>1. i \in 1 .. Len(fs) - k /\ k + i = (n + j + o + 1) \div 2
        BY <2>2
      <3> HIDE DEF i
      <3>2. gs[i] = fs[k + i]
        BY <1>2, <3>1
      <3> QED BY <3>1, <3>2 DEF i
    <2>4. U[n + j] = <<fs[(n + j + o + 1) \div 2], (n + j + o) % 2>>
      <3> DEFINE m == n + j
      <3>1. m \in 1 .. 2 * Len(fs) - o
        BY <2>2
      <3> HIDE DEF m
      <3>2. U[m] = <<fs[(m + o + 1) \div 2], (m + o) % 2>>
        BY <1>3, <3>1
      <3> QED BY <3>2 DEF m
    <2> QED BY <1>5, <2>1, <2>2, <2>3, <2>4
  <1>9. Len(U) = Len(A) + Len(T)
    <2>1. 2 * Len(fs) - o = n + (2 * (Len(fs) - k) - p)
      BY <1>1
    <2> QED BY <1>3, <1>5, <1>7, <2>1
  <1>10. A \o T = U
    <2>1. \A i \in 1 .. Len(A) : A[i] = U[i]
      BY <1>7
    <2>2. \A i \in 1 .. Len(T) : T[i] = U[Len(A) + i]
      BY <1>7, <1>8
    <2> DEFINE P == S \X {0, 1}
    <2>3. A \in Seq(P) /\ T \in Seq(P) /\ U \in Seq(P)
      BY <1>3, <1>5, <1>7
    <2> HIDE DEF P
    <2> QED BY <1>9, <2>1, <2>2, <2>3, Glued
  <1> QED BY <1>2, <1>4, <1>5, <1>7, <1>10 DEF gs, U, T, A, SplitsAt

\* flush() moves pieces from the frames to the socket, and what is on its way
\* stays the same.
LEMMA FlushMoves ==
  ASSUME NEW S, NEW fs \in Seq(S), offset \in {0, 1}, offset = 1 => fs # <<>>,
         wire \in Seq(S \X {0, 1}), NEW n \in 0 .. 2 * Len(fs) - offset, Flush(fs, n)
  PROVE  /\ frames' \in Seq(S)
         /\ offset' \in {0, 1} /\ (offset' = 1 => frames' # <<>>)
         /\ wire' \in Seq(S \X {0, 1})
         /\ OnTheWay' = wire \o Unwritten(fs, offset)
PROOF
  <1> DEFINE k == (offset + n) \div 2
             p == (offset + n) % 2
  <1>1. Len(fs) \in Nat /\ (offset = 1 => Len(fs) # 0)
    BY LenProperties, EmptySeq
  <1>2. /\ k \in Nat /\ p \in {0, 1} /\ k <= Len(fs) /\ offset + n = 2 * k + p
        /\ 2 * k + p <= 2 * Len(fs) /\ offset <= 2 * Len(fs) /\ n \in Nat
    BY <1>1
  <1>3. /\ wire' = wire \o SubSeq(Unwritten(fs, offset), 1, n)
        /\ frames' = SubSeq(fs, k + 1, Len(fs)) /\ offset' = p
    BY DEF Flush
  <1> HIDE DEF k, p
  <1>4. /\ frames' \in Seq(S) /\ (p = 1 => frames' # <<>>)
        /\ SubSeq(Unwritten(fs, offset), 1, n) \in Seq(S \X {0, 1})
        /\ Unwritten(frames', p) \in Seq(S \X {0, 1})
        /\ SubSeq(Unwritten(fs, offset), 1, n) \o Unwritten(frames', p) = Unwritten(fs, offset)
    <2>1. SplitsAt(S, fs, offset, p, k, n)
      BY <1>2, UnwrittenSplit
    <2> QED BY <1>3, <2>1 DEF SplitsAt
  <1>5. wire' \in Seq(S \X {0, 1})
    BY <1>3, <1>4, ConcatProperties
  <1>6. wire' \o Unwritten(frames', p) = wire \o Unwritten(fs, offset)
    <2> DEFINE A == SubSeq(Unwritten(fs, offset), 1, n)
               T == Unwritten(frames', p)
    <2>1. A \in Seq(S \X {0, 1}) /\ T \in Seq(S \X {0, 1}) /\ A \o T = Unwritten(fs, offset)
      BY <1>4
    <2>2. wire' = wire \o A
      BY <1>3
    <2> DEFINE P == S \X {0, 1}
    <2>4. wire \in Seq(P) /\ A \in Seq(P) /\ T \in Seq(P)
      BY <2>1
    <2> HIDE DEF A, T, P
    <2>3. (wire \o A) \o T = wire \o (A \o T)
      BY ONLY <2>4, ConcatAssociative
    <2> QED BY <2>1, <2>2, <2>3 DEF T
  <1> QED BY <1>2, <1>3, <1>4, <1>5, <1>6 DEF OnTheWay

LEMMA AskedShape ==
  ASSUME NEW S, NEW X \in Seq(S \X {0, 1})
  PROVE  /\ Asked(X) \in Seq(S) /\ Len(Asked(X)) = Len(X) \div 2 /\ Len(X) \div 2 \in Nat
         /\ \A i \in 1 .. Len(X) \div 2 : Asked(X)[i] = X[2 * i][1]
PROOF
  <1>1. Len(X) \in Nat /\ X \in [1 .. Len(X) -> S \X {0, 1}]
    BY LenProperties
  <1>2. Len(X) \div 2 \in Nat /\ \A i \in 1 .. Len(X) \div 2 : 2 * i \in 1 .. Len(X)
    BY <1>1
  <1>3. \A i \in 1 .. Len(X) \div 2 : X[2 * i][1] \in S
    BY <1>1, <1>2
  <1> DEFINE h == Len(X) \div 2
  <1>4. Asked(X) \in [1 .. h -> S]
    BY <1>3 DEF Asked
  <1> HIDE DEF h
  <1>5. Asked(X) \in Seq(S) /\ Len(Asked(X)) = h
    <2>1. h \in Nat
      BY <1>2 DEF h
    <2>2. Asked(X) \in Seq(S)
      BY <1>4, <2>1, SeqDef
    <2>3. Len(Asked(X)) \in Nat /\ 1 .. Len(Asked(X)) = 1 .. h
      BY <1>4, <2>2, LenProperties
    <2> QED BY <2>1, <2>2, <2>3
  <1> QED BY <1>2, <1>5 DEF h, Asked

LEMMA PiecesBefore ==
  ASSUME NEW l \in Nat, NEW o \in {0, 1}, NEW i \in 1 .. 2 * l - o
  PROVE  i \in 1 .. 2 * (l + 1) - o /\ (i + o + 1) \div 2 \in 1 .. l
PROOF
  OBVIOUS

LEMMA PiecesAfter ==
  ASSUME NEW l \in Nat, NEW o \in {0, 1}, o <= 2 * l
  PROVE  /\ 2 * l - o + 1 \in 1 .. 2 * (l + 1) - o /\ 2 * l - o + 2 \in 1 .. 2 * (l + 1) - o
         /\ (2 * l - o + 1 + o + 1) \div 2 = l + 1 /\ (2 * l - o + 2 + o + 1) \div 2 = l + 1
         /\ (2 * l - o + 1 + o) % 2 = 1 /\ (2 * l - o + 2 + o) % 2 = 0
PROOF
  <1>1. CASE o = 0
    BY <1>1
  <1>2. CASE o = 1
    BY <1>2
  <1> QED BY <1>1, <1>2

\* A request that is appended puts the two pieces of its frame behind the others.
LEMMA UnwrittenAppend ==
  ASSUME NEW S, NEW fs \in Seq(S), NEW r \in S, NEW o \in {0, 1}, o <= 2 * Len(fs)
  PROVE  Unwritten(Append(fs, r), o) = Unwritten(fs, o) \o Pieces(r)
PROOF
  <1> DEFINE gs == Append(fs, r)
             P == S \X {0, 1}
             U == Unwritten(fs, o)
             V == Unwritten(gs, o)
             l == Len(fs)
  <1>1. l \in Nat /\ gs \in Seq(S) /\ Len(gs) = l + 1 /\ gs[l + 1] = r /\ \A i \in 1 .. l : gs[i] = fs[i]
    BY LenProperties, AppendProperties
  <1>2. /\ U \in Seq(P) /\ Len(U) = 2 * l - o
        /\ \A j \in 1 .. 2 * l - o : U[j] = <<fs[(j + o + 1) \div 2], (j + o) % 2>>
    BY UnwrittenShape
  <1> HIDE DEF gs
  <1>3. /\ V \in Seq(P) /\ Len(V) = 2 * (l + 1) - o
        /\ \A j \in 1 .. 2 * (l + 1) - o : V[j] = <<gs[(j + o + 1) \div 2], (j + o) % 2>>
    <2>1. o <= 2 * Len(gs)
      BY <1>1
    <2> QED BY <1>1, <2>1, UnwrittenShape
  <1>4. Pieces(r) \in Seq(P) /\ Len(Pieces(r)) = 2 /\ Pieces(r)[1] = <<r, 1>> /\ Pieces(r)[2] = <<r, 0>>
    BY DEF Pieces
  <1> HIDE DEF U, V, P, l
  <1>5. \A i \in 1 .. Len(U) : U[i] = V[i]
    <2> TAKE i \in 1 .. Len(U)
    <2> DEFINE h == (i + o + 1) \div 2
    <2>1. i \in 1 .. 2 * l - o /\ i \in 1 .. 2 * (l + 1) - o /\ h \in 1 .. l
      <3>1. l \in Nat /\ i \in 1 .. 2 * l - o
        BY <1>1, <1>2
      <3> QED BY <3>1, PiecesBefore
    <2>2. gs[h] = fs[h]
      <3> HIDE DEF h
      <3> QED BY <1>1, <2>1
    <2> QED BY <1>2, <1>3, <2>1, <2>2
  <1>6. \A i \in 1 .. Len(Pieces(r)) : Pieces(r)[i] = V[Len(U) + i]
    <2>1. V[2 * l - o + 1] = <<r, 1>> /\ V[2 * l - o + 2] = <<r, 0>>
      <3> DEFINE m == 2 * l - o + 1
                 n == 2 * l - o + 2
      <3>1. /\ m \in 1 .. 2 * (l + 1) - o /\ n \in 1 .. 2 * (l + 1) - o
            /\ (m + o + 1) \div 2 = l + 1 /\ (n + o + 1) \div 2 = l + 1
            /\ (m + o) % 2 = 1 /\ (n + o) % 2 = 0
        <4>1. l \in Nat /\ o <= 2 * l
          BY <1>1 DEF l
        <4> QED BY <4>1, PiecesAfter
      <3> HIDE DEF m, n
      <3>2. /\ V[m] = <<gs[(m + o + 1) \div 2], (m + o) % 2>>
            /\ V[n] = <<gs[(n + o + 1) \div 2], (n + o) % 2>>
        BY <1>3, <3>1
      <3> QED BY <1>1, <3>1, <3>2 DEF m, n
    <2>2. /\ Pieces(r)[1] = V[Len(U) + 1]
          /\ Pieces(r)[2] = V[Len(U) + 2]
      BY <1>2, <1>4, <2>1
    <2>3. \A i \in 1 .. Len(Pieces(r)) : i = 1 \/ i = 2
      BY <1>4
    <2> QED BY <2>2, <2>3
  <1>7. Len(V) = Len(U) + Len(Pieces(r))
    <2>1. 2 * (l + 1) - o = 2 * l - o + 2
      BY <1>1
    <2> QED BY <1>2, <1>3, <1>4, <2>1
  <1>8. U \o Pieces(r) = V
    BY <1>2, <1>3, <1>4, <1>5, <1>6, <1>7, Glued
  <1> QED BY <1>8 DEF U, V, gs

\* Whole frames stay whole when one is put behind them.
LEMMA WholeAppend ==
  ASSUME NEW S, NEW X \in Seq(S \X {0, 1}), NEW r \in S, Whole(X), Len(X) % 2 = 0
  PROVE  /\ X \o Pieces(r) \in Seq(S \X {0, 1})
         /\ Whole(X \o Pieces(r)) /\ Len(X \o Pieces(r)) % 2 = 0
         /\ Asked(X \o Pieces(r)) = Append(Asked(X), r)
PROOF
  <1> DEFINE P == S \X {0, 1}
             Y == X \o Pieces(r)
             h == Len(X) \div 2
  <1>1. Len(X) \in Nat /\ h \in Nat /\ Len(X) = 2 * h
    BY LenProperties
  <1>2. Pieces(r) \in Seq(P) /\ Len(Pieces(r)) = 2 /\ Pieces(r)[1] = <<r, 1>> /\ Pieces(r)[2] = <<r, 0>>
    BY DEF Pieces
  <1>0. X \in Seq(P)
    OBVIOUS
  <1>3. /\ Asked(X) \in Seq(S) /\ Len(Asked(X)) = h
        /\ \A i \in 1 .. h : Asked(X)[i] = X[2 * i][1]
    BY AskedShape
  <1> HIDE DEF P, h
  <1>4. /\ Y \in Seq(P) /\ Len(Y) = Len(X) + Len(Pieces(r))
        /\ \A i \in 1 .. Len(X) + Len(Pieces(r)) :
             Y[i] = IF i <= Len(X) THEN X[i] ELSE Pieces(r)[i - Len(X)]
    BY <1>0, <1>2, ConcatProperties
  <1> HIDE DEF Y
  <1>5. Len(Y) = 2 * (h + 1) /\ Len(Y) \div 2 = h + 1 /\ Len(Y) % 2 = 0
    BY <1>1, <1>2, <1>4
  <1>6. \A i \in 1 .. h : Y[2 * i - 1] = X[2 * i - 1] /\ Y[2 * i] = X[2 * i]
    <2>1. \A i \in 1 .. h : 2 * i - 1 \in 1 .. Len(X) /\ 2 * i \in 1 .. Len(X)
      BY <1>1
    <2>2. \A i \in 1 .. Len(X) : Y[i] = X[i]
      BY <1>1, <1>2, <1>4
    <2> QED BY <2>1, <2>2
  <1>7. Y[2 * (h + 1) - 1] = <<r, 1>> /\ Y[2 * (h + 1)] = <<r, 0>>
    <2>1. /\ 2 * (h + 1) - 1 = Len(X) + 1 /\ 2 * (h + 1) = Len(X) + 2
          /\ Len(X) + 1 - Len(X) = 1 /\ Len(X) + 2 - Len(X) = 2
          /\ ~(Len(X) + 1 <= Len(X)) /\ ~(Len(X) + 2 <= Len(X))
          /\ Len(X) + 1 \in 1 .. Len(X) + 2 /\ Len(X) + 2 \in 1 .. Len(X) + 2
      BY <1>1
    <2> QED BY <1>2, <1>4, <2>1
  <1>8. ASSUME NEW i \in 1 .. h + 1
        PROVE  Y[2 * i - 1] = <<Y[2 * i][1], 1>> /\ Y[2 * i][2] = 0
    <2>1. CASE i \in 1 .. h
      <3>1. X[2 * i - 1] = <<X[2 * i][1], 1>> /\ X[2 * i][2] = 0
        BY <2>1 DEF Whole, h
      <3> QED BY <1>6, <2>1, <3>1
    <2>2. CASE i = h + 1
      BY <1>7, <2>2
    <2> QED BY <1>1, <2>1, <2>2
  <1>9. Whole(Y)
    BY <1>5, <1>8 DEF Whole
  <1>10. /\ Asked(Y) \in Seq(S) /\ Len(Asked(Y)) = h + 1
         /\ \A i \in 1 .. h + 1 : Asked(Y)[i] = Y[2 * i][1]
    BY <1>4, <1>5, AskedShape DEF P
  <1>11. /\ Append(Asked(X), r) \in Seq(S) /\ Len(Append(Asked(X), r)) = h + 1
         /\ \A i \in 1 .. h : Append(Asked(X), r)[i] = Asked(X)[i]
         /\ Append(Asked(X), r)[h + 1] = r
    BY <1>3, AppendProperties
  <1>12. ASSUME NEW i \in 1 .. h + 1 PROVE Asked(Y)[i] = Append(Asked(X), r)[i]
    <2>1. CASE i \in 1 .. h
      BY <1>3, <1>6, <1>10, <1>11, <2>1
    <2>2. CASE i = h + 1
      BY <1>7, <1>10, <1>11, <2>2
    <2>3. i \in 1 .. h \/ i = h + 1
      BY <1>1
    <2> QED BY <2>1, <2>2, <2>3
  <1>13. Asked(Y) = Append(Asked(X), r)
    BY <1>10, <1>11, <1>12, SeqEqual
  <1> QED BY <1>4, <1>5, <1>9, <1>13 DEF Y, P

\* Behind the frame that was read the others are as whole as before.
LEMMA WholeServed ==
  ASSUME NEW S, NEW X \in Seq(S \X {0, 1}), Whole(X), Len(X) >= 2
  PROVE  /\ SubSeq(X, 3, Len(X)) \in Seq(S \X {0, 1})
         /\ Whole(SubSeq(X, 3, Len(X)))
         /\ Len(X) % 2 = 0 => Len(SubSeq(X, 3, Len(X))) % 2 = 0
         /\ Asked(X) # <<>> /\ Head(Asked(X)) = X[2][1] /\ X[2][1] \in S
         /\ Asked(SubSeq(X, 3, Len(X))) = Tail(Asked(X))
PROOF
  <1> DEFINE P == S \X {0, 1}
             Y == SubSeq(X, 3, Len(X))
             h == Len(X) \div 2
             k == Len(Y) \div 2
  <1>1. Len(X) \in Nat /\ h \in Nat /\ h >= 1 /\ X \in Seq(P) /\ 2 \in 0 .. Len(X)
    BY LenProperties
  <1>2. /\ Asked(X) \in Seq(S) /\ Len(Asked(X)) = h
        /\ \A i \in 1 .. h : Asked(X)[i] = X[2 * i][1]
    BY AskedShape
  <1> HIDE DEF P
  <1>3. /\ Y \in Seq(P) /\ Len(Y) = Len(X) - 2
        /\ \A i \in 1 .. Len(X) - 2 : Y[i] = X[2 + i]
    <2>1. SubSeq(X, 2 + 1, Len(X)) = Y
      OBVIOUS
    <2> HIDE DEF Y
    <2> QED BY <1>1, <2>1, SuffixShape
  <1> HIDE DEF Y
  <1>4. k = h - 1 /\ k \in Nat /\ (Len(X) % 2 = 0 => Len(Y) % 2 = 0)
    BY <1>1, <1>3
  <1>5. \A i \in 1 .. k : 2 * i - 1 \in 1 .. Len(X) - 2 /\ 2 * i \in 1 .. Len(X) - 2
    BY <1>1, <1>3
  <1>6. \A i \in 1 .. k : i + 1 \in 1 .. h /\ 2 + (2 * i - 1) = 2 * (i + 1) - 1 /\ 2 + 2 * i = 2 * (i + 1)
    BY <1>1, <1>4
  <1>7. \A i \in 1 .. k : Y[2 * i - 1] = X[2 * (i + 1) - 1] /\ Y[2 * i] = X[2 * (i + 1)]
    BY <1>3, <1>5, <1>6
  <1>8. Whole(Y)
    <2>1. \A i \in 1 .. h : X[2 * i - 1] = <<X[2 * i][1], 1>> /\ X[2 * i][2] = 0
      BY DEF Whole
    <2> HIDE DEF h
    <2>2. \A i \in 1 .. k : X[2 * (i + 1) - 1] = <<X[2 * (i + 1)][1], 1>> /\ X[2 * (i + 1)][2] = 0
      BY <1>6, <2>1
    <2>3. \A i \in 1 .. k : Y[2 * i - 1] = <<Y[2 * i][1], 1>> /\ Y[2 * i][2] = 0
      BY <1>7, <2>2
    <2> QED BY <2>3 DEF Whole
  <1>9. Asked(X) # <<>> /\ Head(Asked(X)) = X[2][1] /\ X[2][1] \in S
    <2>1. 1 \in 1 .. h /\ Asked(X)[1] = X[2 * 1][1]
      BY <1>1, <1>2
    <2>2. Asked(X) # <<>>
      BY <1>1, <1>2, EmptySeq
    <2>3. Head(Asked(X)) = Asked(X)[1] /\ Asked(X)[1] \in S
      BY <1>2, <2>1, <2>2, ElementOfSeq
    <2> QED BY <2>1, <2>2, <2>3
  <1>10. /\ Asked(Y) \in Seq(S) /\ Len(Asked(Y)) = k
         /\ \A i \in 1 .. k : Asked(Y)[i] = Y[2 * i][1]
    BY <1>3, AskedShape DEF P
  <1>11. /\ Tail(Asked(X)) \in Seq(S) /\ Len(Tail(Asked(X))) = h - 1
         /\ \A i \in 1 .. h - 1 : Tail(Asked(X))[i] = Asked(X)[i + 1]
    BY <1>2, <1>9, HeadTailProperties
  <1>12. ASSUME NEW i \in 1 .. k PROVE Asked(Y)[i] = Tail(Asked(X))[i]
    <2>1. Asked(Y)[i] = X[2 * (i + 1)][1]
      BY <1>7, <1>10
    <2>2. Tail(Asked(X))[i] = Asked(X)[i + 1]
      BY <1>4, <1>11
    <2>3. Asked(X)[i + 1] = X[2 * (i + 1)][1]
      <3> DEFINE j == i + 1
      <3>1. j \in 1 .. h
        BY <1>6
      <3> HIDE DEF j, h
      <3>2. Asked(X)[j] = X[2 * j][1]
        BY <1>2, <3>1
      <3> QED BY <3>2 DEF j
    <2> QED BY <2>1, <2>2, <2>3
  <1>13. Asked(Y) = Tail(Asked(X))
    <2>1. Len(Asked(Y)) = Len(Tail(Asked(X)))
      BY <1>4, <1>10, <1>11
    <2>2. \A i \in 1 .. Len(Asked(Y)) : Asked(Y)[i] = Tail(Asked(X))[i]
      BY <1>10, <1>12
    <2> QED BY <1>10, <1>11, <2>1, <2>2, SeqEqual
  <1> QED BY <1>3, <1>4, <1>8, <1>9, <1>13 DEF P, Y

\* What the agent gets of a cut stream begins with whole frames.
LEMMA WholeCut ==
  ASSUME NEW S, NEW X \in Seq(S \X {0, 1}), Whole(X), NEW n \in 0 .. Len(X)
  PROVE  /\ SubSeq(X, 1, n) \in Seq(S \X {0, 1})
         /\ Whole(SubSeq(X, 1, n))
         /\ Asked(SubSeq(X, 1, n)) \in Seq(S) /\ Len(Asked(SubSeq(X, 1, n))) <= Len(Asked(X))
         /\ \A i \in 1 .. Len(Asked(SubSeq(X, 1, n))) : Asked(SubSeq(X, 1, n))[i] = Asked(X)[i]
PROOF
  <1> DEFINE P == S \X {0, 1}
             Y == SubSeq(X, 1, n)
             h == Len(X) \div 2
             k == n \div 2
  <1>1. Len(X) \in Nat /\ h \in Nat /\ k \in Nat /\ k <= h /\ X \in Seq(P)
    BY LenProperties
  <1>2. /\ Asked(X) \in Seq(S) /\ Len(Asked(X)) = h
        /\ \A i \in 1 .. h : Asked(X)[i] = X[2 * i][1]
    BY AskedShape
  <1> HIDE DEF P
  <1>3. Y \in Seq(P) /\ Len(Y) = n /\ \A i \in 1 .. n : Y[i] = X[i]
    BY <1>1, PrefixShape
  <1> HIDE DEF Y
  <1>5. \A i \in 1 .. k : 2 * i - 1 \in 1 .. n /\ 2 * i \in 1 .. n /\ i \in 1 .. h
    BY <1>1
  <1>7. \A i \in 1 .. k : Y[2 * i - 1] = X[2 * i - 1] /\ Y[2 * i] = X[2 * i]
    BY <1>3, <1>5
  <1>8. Whole(Y)
    <2>1. \A i \in 1 .. h : X[2 * i - 1] = <<X[2 * i][1], 1>> /\ X[2 * i][2] = 0
      BY DEF Whole
    <2> HIDE DEF h
    <2>2. \A i \in 1 .. k : X[2 * i - 1] = <<X[2 * i][1], 1>> /\ X[2 * i][2] = 0
      BY <1>5, <2>1
    <2>3. \A i \in 1 .. k : Y[2 * i - 1] = <<Y[2 * i][1], 1>> /\ Y[2 * i][2] = 0
      BY <1>7, <2>2
    <2> QED BY <1>3, <2>3 DEF Whole
  <1>10. /\ Asked(Y) \in Seq(S) /\ Len(Asked(Y)) = k
         /\ \A i \in 1 .. k : Asked(Y)[i] = Y[2 * i][1]
    <2>1. Y \in Seq(S \X {0, 1})
      BY <1>3 DEF P
    <2> QED BY <1>3, <2>1, AskedShape
  <1> HIDE DEF h, k
  <1>12. ASSUME NEW i \in 1 .. k PROVE Asked(Y)[i] = Asked(X)[i]
    BY <1>2, <1>5, <1>7, <1>10
  <1> QED BY <1>1, <1>2, <1>3, <1>8, <1>10, <1>12 DEF P, Y

\* The pieces the agent reads are the first of those on their way.
LEMMA ServedPieces ==
  ASSUME NEW P, NEW a \in Seq(P), NEW b \in Seq(P), Len(a) >= 2
  PROVE  SubSeq(a, 3, Len(a)) \in Seq(P) /\ SubSeq(a, 3, Len(a)) \o b = SubSeq(a \o b, 3, Len(a \o b))
PROOF
  <1> DEFINE X == a \o b
             c == SubSeq(a, 3, Len(a))
             Y == SubSeq(X, 3, Len(X))
  <1>1. Len(a) \in Nat /\ Len(b) \in Nat /\ 2 \in 0 .. Len(a) /\ 2 + 1 = 3
    BY LenProperties
  <1>2. /\ X \in Seq(P) /\ Len(X) = Len(a) + Len(b)
        /\ \A i \in 1 .. Len(a) + Len(b) : X[i] = IF i <= Len(a) THEN a[i] ELSE b[i - Len(a)]
    BY ConcatProperties
  <1> HIDE DEF X
  <1>3. 2 \in 0 .. Len(X)
    BY <1>1, <1>2
  <1>4. /\ c \in Seq(P) /\ Len(c) = Len(a) - 2
        /\ \A i \in 1 .. Len(a) - 2 : c[i] = a[2 + i]
    <2>1. c = SubSeq(a, 2 + 1, Len(a))
      OBVIOUS
    <2> HIDE DEF c
    <2> QED BY <1>1, <2>1, SuffixShape
  <1>5. /\ Y \in Seq(P) /\ Len(Y) = Len(X) - 2
        /\ \A i \in 1 .. Len(X) - 2 : Y[i] = X[2 + i]
    <2>1. Y = SubSeq(X, 2 + 1, Len(X))
      OBVIOUS
    <2> HIDE DEF Y
    <2> QED BY <1>2, <1>3, <2>1, SuffixShape
  <1> HIDE DEF c, Y
  <1>6. \A i \in 1 .. Len(c) : c[i] = Y[i]
    <2> TAKE i \in 1 .. Len(c)
    <2>1. /\ i \in 1 .. Len(a) - 2 /\ i \in 1 .. Len(X) - 2
          /\ 2 + i \in 1 .. Len(a) + Len(b) /\ 2 + i <= Len(a)
      BY <1>1, <1>2, <1>4
    <2> QED BY <1>2, <1>4, <1>5, <2>1
  <1>7. \A i \in 1 .. Len(b) : b[i] = Y[Len(c) + i]
    <2> TAKE i \in 1 .. Len(b)
    <2> DEFINE m == Len(c) + i
    <2>1. /\ m \in 1 .. Len(X) - 2 /\ 2 + m \in 1 .. Len(a) + Len(b) /\ ~(2 + m <= Len(a))
          /\ (2 + m) - Len(a) = i
      BY <1>1, <1>2, <1>4
    <2> HIDE DEF m
    <2>2. Y[m] = X[2 + m]
      BY <1>5, <2>1
    <2>3. X[2 + m] = b[i]
      BY <1>2, <2>1
    <2> QED BY <2>2, <2>3 DEF m
  <1>8. Len(Y) = Len(c) + Len(b)
    BY <1>1, <1>2, <1>4, <1>5
  <1>9. c \o b = Y
    BY <1>4, <1>5, <1>6, <1>7, <1>8, Glued
  <1> QED BY <1>4, <1>9 DEF c, Y, X

\* What was cut from the socket was cut from all that was on its way.
LEMMA CutPieces ==
  ASSUME NEW P, NEW a \in Seq(P), NEW b \in Seq(P), NEW n \in 0 .. Len(a)
  PROVE  /\ SubSeq(a, 1, n) \in Seq(P) /\ SubSeq(a, 1, n) = SubSeq(a \o b, 1, n)
         /\ a \o b \in Seq(P) /\ n \in 0 .. Len(a \o b)
PROOF
  <1> DEFINE X == a \o b
  <1>1. Len(a) \in Nat /\ Len(b) \in Nat
    BY LenProperties
  <1>2. /\ X \in Seq(P) /\ Len(X) = Len(a) + Len(b)
        /\ \A i \in 1 .. Len(a) + Len(b) : X[i] = IF i <= Len(a) THEN a[i] ELSE b[i - Len(a)]
    BY ConcatProperties
  <1> HIDE DEF X
  <1>3. n \in 0 .. Len(X)
    BY <1>1, <1>2
  <1>4. SubSeq(a, 1, n) \in Seq(P) /\ Len(SubSeq(a, 1, n)) = n /\ \A i \in 1 .. n : SubSeq(a, 1, n)[i] = a[i]
    BY PrefixShape
  <1>5. SubSeq(X, 1, n) \in Seq(P) /\ Len(SubSeq(X, 1, n)) = n /\ \A i \in 1 .. n : SubSeq(X, 1, n)[i] = X[i]
    BY <1>2, <1>3, PrefixShape
  <1>6. \A i \in 1 .. n : a[i] = X[i]
    BY <1>1, <1>2
  <1>7. SubSeq(a, 1, n) = SubSeq(X, 1, n)
    BY <1>4, <1>5, <1>6, SeqEqual
  <1> QED BY <1>2, <1>3, <1>4, <1>7 DEF X

----------------------------------------------------------------------------
(* what is on its way, and what is unserved                                *)

LEMMA FiniteSequence ==
  ASSUME NEW S, NEW n \in Nat, NEW f \in [1 .. n -> S]
  PROVE  f \in Seq(S) /\ Len(f) = n
PROOF
  <1>1. f \in Seq(S)
    BY SeqDef
  <1>2. Len(f) \in Nat /\ 1 .. Len(f) = 1 .. n
    BY <1>1, LenProperties
  <1> QED BY <1>1, <1>2

LEMMA OnTheWayShape ==
  ASSUME TransferTypes
  PROVE  /\ Unwritten(frames, offset) \in Seq(Requests \X {0, 1})
         /\ OnTheWay \in Seq(Requests \X {0, 1})
         /\ offset <= 2 * Len(frames) /\ Len(frames) \in Nat
PROOF
  <1>1. /\ frames \in Seq(Requests) /\ offset \in {0, 1} /\ (offset = 1 => frames # <<>>)
        /\ wire \in Seq(Requests \X {0, 1})
    BY DEF TransferTypes
  <1>2. Len(frames) \in Nat /\ (frames # <<>> => Len(frames) # 0)
    BY <1>1, LenProperties, EmptySeq
  <1>3. offset <= 2 * Len(frames)
    BY <1>1, <1>2
  <1>4. Unwritten(frames, offset) \in Seq(Requests \X {0, 1})
    BY <1>1, <1>3, UnwrittenShape
  <1> DEFINE P == Requests \X {0, 1}
             U == Unwritten(frames, offset)
  <1>5. wire \in Seq(P) /\ U \in Seq(P)
    BY <1>1, <1>4
  <1> HIDE DEF P, U
  <1>6. wire \o U \in Seq(P)
    BY <1>5, ConcatProperties
  <1> QED BY <1>2, <1>3, <1>4, <1>6 DEF P, U, OnTheWay

LEMMA BegunShape ==
  ASSUME TransferTypes
  PROVE  [i \in DOMAIN editing |-> <<editing[i], "edit">>] \in Seq(Requests)
PROOF
  <1>1. CASE editing = <<>>
    <2>1. DOMAIN editing = 1 .. 0
      BY <1>1
    <2> QED BY <2>1, FiniteSequence
  <1>2. ASSUME NEW c \in Edits, editing = <<c>> PROVE [i \in DOMAIN editing |-> <<editing[i], "edit">>] \in Seq(Requests)
    <2>1. DOMAIN editing = 1 .. 1 /\ editing[1] = c /\ <<c, "edit">> \in Requests
      BY <1>2 DEF Requests
    <2>2. [i \in DOMAIN editing |-> <<editing[i], "edit">>] \in [1 .. 1 -> Requests]
      BY <2>1
    <2> QED BY <2>2, FiniteSequence
  <1> QED BY <1>1, <1>2 DEF TransferTypes

LEMMA UnservedShape ==
  ASSUME TransferTypes
  PROVE  /\ Asked(OnTheWay) \in Seq(Requests)
         /\ Unserved \in Seq(Requests) /\ Len(Unserved) \in Nat
         /\ \A i \in 1 .. Len(Unserved) : Unserved[i] \in Requests
PROOF
  <1>1. Asked(OnTheWay) \in Seq(Requests)
    BY OnTheWayShape, AskedShape
  <1>2. Unserved \in Seq(Requests)
    BY <1>1, BegunShape, ConcatProperties DEF Unserved
  <1> QED BY <1>1, <1>2, LenProperties, ElementOfSeq

\* With no edit in the making what is unserved is on its way; an edit comes first.
LEMMA UnservedWhenIdle ==
  ASSUME TransferTypes, editing = <<>>
  PROVE  Unserved = Asked(OnTheWay)
PROOF
  <1>1. [i \in DOMAIN editing |-> <<editing[i], "edit">>] = <<>>
    <2>1. DOMAIN editing = {}
      OBVIOUS
    <2> QED BY <2>1
  <1> QED BY <1>1, UnservedShape, ConcatEmptySeq DEF Unserved

LEMMA UnservedWhenEditing ==
  ASSUME TransferTypes, NEW c \in Edits, editing = <<c>>
  PROVE  /\ Unserved # <<>> /\ Head(Unserved) = <<c, "edit">>
         /\ Tail(Unserved) = Asked(OnTheWay)
PROOF
  <1> DEFINE b == [i \in DOMAIN editing |-> <<editing[i], "edit">>]
             q == Asked(OnTheWay)
  <1>1. b \in Seq(Requests) /\ q \in Seq(Requests) /\ Unserved \in Seq(Requests) /\ Unserved = b \o q
    BY BegunShape, UnservedShape DEF Unserved
  <1>2. b = <<<<c, "edit">>>>
    <2>1. DOMAIN editing = 1 .. 1 /\ editing[1] = c
      OBVIOUS
    <2> QED BY <2>1
  <1> HIDE DEF b, q
  <1>3. Len(b) = 1 /\ b[1] = <<c, "edit">>
    BY <1>2
  <1>4. Len(q) \in Nat
    BY <1>1, LenProperties
  <1>5. /\ Len(Unserved) = 1 + Len(q)
        /\ \A i \in 1 .. 1 + Len(q) : Unserved[i] = IF i <= 1 THEN b[i] ELSE q[i - 1]
    BY <1>1, <1>3, ConcatProperties
  <1>6. Unserved # <<>>
    BY <1>1, <1>4, <1>5, EmptySeq
  <1>7. Head(Unserved) = Unserved[1] /\ Unserved[1] = <<c, "edit">>
    BY <1>1, <1>3, <1>4, <1>5, <1>6
  <1>8. /\ Tail(Unserved) \in Seq(Requests) /\ Len(Tail(Unserved)) = Len(Unserved) - 1
        /\ \A i \in 1 .. Len(Tail(Unserved)) : Tail(Unserved)[i] = Unserved[i + 1]
    BY <1>1, <1>6, HeadTailProperties
  <1>9. ASSUME NEW i \in 1 .. Len(q) PROVE Tail(Unserved)[i] = q[i]
    <2>1. /\ i \in 1 .. Len(Tail(Unserved)) /\ i + 1 \in 1 .. 1 + Len(q) /\ ~(i + 1 <= 1)
          /\ i + 1 - 1 = i
      BY <1>4, <1>5, <1>8
    <2> QED BY <1>5, <1>8, <2>1
  <1>10. Len(Tail(Unserved)) = Len(q)
    BY <1>4, <1>5, <1>8
  <1>11. Tail(Unserved) = q
    BY <1>1, <1>8, <1>9, <1>10, SeqEqual
  <1> QED BY <1>6, <1>7, <1>11 DEF q

\* drain() writes pieces that were on their way already.
LEMMA DrainedOrder ==
  ASSUME TransferTypes, NEW n \in 0 .. 2 * Len(frames) - offset, Flush(frames, n)
  PROVE  /\ frames' \in Seq(Requests) /\ offset' \in {0, 1} /\ (offset' = 1 => frames' # <<>>)
         /\ wire' \in Seq(Requests \X {0, 1})
         /\ OnTheWay' = OnTheWay
PROOF
  BY FlushMoves DEF TransferTypes, OnTheWay

\* request() puts a whole frame behind what is on its way.
LEMMA RequestedOrder ==
  ASSUME TransferTypes, NEW r \in Requests,
         NEW n \in 0 .. 2 * Len(Append(frames, r)) - offset, Flush(Append(frames, r), n),
         Whole(OnTheWay), Len(OnTheWay) % 2 = 0, editing' = editing
  PROVE  /\ frames' \in Seq(Requests) /\ offset' \in {0, 1} /\ (offset' = 1 => frames' # <<>>)
         /\ wire' \in Seq(Requests \X {0, 1})
         /\ Whole(OnTheWay)' /\ Len(OnTheWay)' % 2 = 0
         /\ Unserved' = Append(Unserved, r)
PROOF
  <1> DEFINE gs == Append(frames, r)
             P == Requests \X {0, 1}
             U == Unwritten(frames, offset)
  <1>1. /\ frames \in Seq(Requests) /\ offset \in {0, 1} /\ wire \in Seq(P)
        /\ U \in Seq(P) /\ OnTheWay \in Seq(P) /\ offset <= 2 * Len(frames)
    BY OnTheWayShape DEF TransferTypes
  <1>2. gs \in Seq(Requests) /\ gs # <<>>
    BY <1>1, AppendProperties
  <1>3. /\ frames' \in Seq(Requests) /\ offset' \in {0, 1} /\ (offset' = 1 => frames' # <<>>)
        /\ wire' \in Seq(P) /\ OnTheWay' = wire \o Unwritten(gs, offset)
    <2>1. n \in 0 .. 2 * Len(gs) - offset /\ Flush(gs, n) /\ wire \in Seq(Requests \X {0, 1})
      BY <1>1
    <2> HIDE DEF gs
    <2> QED BY <1>1, <1>2, <2>1, FlushMoves
  <1>4. Unwritten(gs, offset) = U \o Pieces(r)
    BY <1>1, UnwrittenAppend
  <1>5. Pieces(r) \in Seq(P)
    BY DEF Pieces
  <1> HIDE DEF gs, U, P
  <1>6. OnTheWay' = OnTheWay \o Pieces(r)
    <2>1. OnTheWay = wire \o U
      BY DEF OnTheWay, U
    <2>2. (wire \o U) \o Pieces(r) = wire \o (U \o Pieces(r))
      <3> DEFINE R == Pieces(r)
      <3>1. wire \in Seq(P) /\ U \in Seq(P) /\ R \in Seq(P)
        BY <1>1, <1>5
      <3> HIDE DEF R
      <3>2. (wire \o U) \o R = wire \o (U \o R)
        BY ONLY <3>1, ConcatAssociative
      <3> QED BY <3>2 DEF R
    <2> QED BY <1>3, <1>4, <2>1, <2>2
  <1>7. /\ Whole(OnTheWay \o Pieces(r)) /\ Len(OnTheWay \o Pieces(r)) % 2 = 0
        /\ Asked(OnTheWay \o Pieces(r)) = Append(Asked(OnTheWay), r)
    BY OnTheWayShape, WholeAppend
  <1>8. Unserved' = Append(Unserved, r)
    <2> DEFINE b == [i \in DOMAIN editing |-> <<editing[i], "edit">>]
               q == Asked(OnTheWay)
    <2>1. b \in Seq(Requests) /\ q \in Seq(Requests) /\ Unserved = b \o q
      BY BegunShape, UnservedShape DEF Unserved
    <2>2. b' = b /\ Asked(OnTheWay)' = Append(q, r)
      BY <1>6, <1>7
    <2>3. Unserved' = b \o Append(q, r)
      BY <2>2 DEF Unserved
    <2> HIDE DEF b, q
    <2>4. Append(q, r) = q \o <<r>> /\ Append(b \o q, r) = (b \o q) \o <<r>> /\ <<r>> \in Seq(Requests)
      BY <2>1, AppendIsConcat, ConcatProperties
    <2>5. (b \o q) \o <<r>> = b \o (q \o <<r>>)
      BY ONLY <2>1, <2>4, ConcatAssociative
    <2> QED BY <2>1, <2>3, <2>4, <2>5
  <1> QED BY <1>3, <1>6, <1>7, <1>8 DEF P

\* The agent reads a whole frame, the first of those on their way.
LEMMA ArrivedOrder ==
  ASSUME TransferTypes, NEW c, NEW s, Arrived(c, s), wire' = SubSeq(wire, 3, Len(wire)),
         UNCHANGED writer, Whole(OnTheWay)
  PROVE  /\ wire' \in Seq(Requests \X {0, 1})
         /\ Whole(OnTheWay)' /\ (Len(OnTheWay) % 2 = 0 => Len(OnTheWay)' % 2 = 0)
         /\ <<c, s>> \in Requests
         /\ Unserved # <<>> /\ Head(Unserved) = <<c, s>>
         /\ Asked(OnTheWay)' = Tail(Unserved)
PROOF
  <1> DEFINE P == Requests \X {0, 1}
             U == Unwritten(frames, offset)
  <1>1. wire \in Seq(P) /\ U \in Seq(P) /\ OnTheWay \in Seq(P) /\ OnTheWay = wire \o U
    BY OnTheWayShape DEF TransferTypes, OnTheWay
  <1>2. U' = U
    BY DEF writer
  <1>3. Len(wire) >= 2 /\ wire[2] = <<<<c, s>>, 0>> /\ editing = <<>>
    BY DEF Arrived
  <1> HIDE DEF U, P
  <1>4. wire' \in Seq(P) /\ wire' \o U = SubSeq(OnTheWay, 3, Len(OnTheWay))
    BY <1>1, <1>3, ServedPieces
  <1>5. OnTheWay' = wire' \o U
    BY <1>2 DEF OnTheWay, U
  <1>6. Len(OnTheWay) >= 2 /\ OnTheWay[2] = <<<<c, s>>, 0>>
    <2>1. Len(wire) \in Nat /\ Len(U) \in Nat
      BY <1>1, LenProperties
    <2>2. /\ Len(OnTheWay) = Len(wire) + Len(U)
          /\ \A i \in 1 .. Len(wire) + Len(U) : OnTheWay[i] = IF i <= Len(wire) THEN wire[i] ELSE U[i - Len(wire)]
      BY <1>1, ConcatProperties
    <2> QED BY <1>3, <2>1, <2>2
  <1> DEFINE X == OnTheWay
             Y == SubSeq(X, 3, Len(X))
  <1>7. /\ Whole(Y) /\ (Len(X) % 2 = 0 => Len(Y) % 2 = 0)
        /\ Asked(X) # <<>> /\ Head(Asked(X)) = X[2][1] /\ X[2][1] \in Requests
        /\ Asked(Y) = Tail(Asked(X))
    <2>1. X \in Seq(Requests \X {0, 1}) /\ Whole(X) /\ Len(X) >= 2
      BY <1>1, <1>6 DEF P
    <2> HIDE DEF X
    <2> QED BY <2>1, WholeServed
  <1>8. X[2][1] = <<c, s>>
    BY <1>6
  <1>9. OnTheWay' = Y
    BY <1>4, <1>5
  <1> HIDE DEF Y
  <1>10. Unserved = Asked(X)
    BY <1>3, UnservedWhenIdle
  <1> QED BY <1>4, <1>7, <1>8, <1>9, <1>10 DEF P

\* What a channel that fails leaves on its way is the first part of what was.
LEMMA CutOrder ==
  ASSUME TransferTypes, Whole(OnTheWay), NEW n \in 0 .. Len(wire), wire' = SubSeq(wire, 1, n),
         frames' = <<>>, offset' = 0, editing' = editing
  PROVE  /\ wire' \in Seq(Requests \X {0, 1})
         /\ Whole(OnTheWay)'
         /\ Len(Unserved') \in Nat /\ Len(Unserved') <= Len(Unserved)
         /\ \A i \in 1 .. Len(Unserved') : Unserved'[i] = Unserved[i]
PROOF
  <1> DEFINE P == Requests \X {0, 1}
             U == Unwritten(frames, offset)
             X == OnTheWay
  <1>1. wire \in Seq(P) /\ U \in Seq(P) /\ X \in Seq(P) /\ X = wire \o U
    BY OnTheWayShape DEF TransferTypes, OnTheWay
  <1> HIDE DEF U, P
  <1>2. wire' \in Seq(P) /\ wire' = SubSeq(X, 1, n) /\ n \in 0 .. Len(X)
    BY <1>1, CutPieces
  <1>3. OnTheWay' = wire'
    <2>1. Unwritten(<<>>, 0) \in Seq(Requests \X {0, 1}) /\ Len(Unwritten(<<>>, 0)) = 0
      <3>1. <<>> \in Seq(Requests) /\ Len(<<>>) = 0 /\ 0 \in {0, 1} /\ 0 <= 2 * 0 /\ 2 * 0 - 0 = 0
        BY EmptySeq
      <3> QED BY ONLY <3>1, UnwrittenShape
    <2>2. Unwritten(<<>>, 0) = <<>>
      BY <2>1, EmptySeq
    <2>3. OnTheWay' = wire' \o <<>>
      BY <2>2 DEF OnTheWay
    <2> QED BY <1>2, <2>3, ConcatEmptySeq
  <1> DEFINE Y == SubSeq(X, 1, n)
  <1>4. /\ Whole(Y) /\ Asked(Y) \in Seq(Requests) /\ Len(Asked(Y)) <= Len(Asked(X))
        /\ \A i \in 1 .. Len(Asked(Y)) : Asked(Y)[i] = Asked(X)[i]
    <2>1. X \in Seq(Requests \X {0, 1}) /\ Whole(X) /\ n \in 0 .. Len(X)
      BY <1>1, <1>2 DEF P
    <2> HIDE DEF X
    <2> QED BY <2>1, WholeCut
  <1>5. OnTheWay' = Y
    BY <1>2, <1>3
  <1> DEFINE b == [i \in DOMAIN editing |-> <<editing[i], "edit">>]
             q == Asked(X)
             z == Asked(Y)
  <1>6. b \in Seq(Requests) /\ q \in Seq(Requests) /\ Unserved = b \o q
    BY BegunShape, UnservedShape DEF Unserved
  <1>7. Unserved' = b \o z
    <2>1. b' = b /\ Asked(OnTheWay)' = z
      BY <1>5
    <2> QED BY <2>1 DEF Unserved
  <1> HIDE DEF b, q
  <1>8. /\ z \in Seq(Requests) /\ Len(z) <= Len(q)
        /\ \A i \in 1 .. Len(z) : z[i] = q[i]
    BY <1>4 DEF q
  <1> HIDE DEF z
  <1>9. Len(b) \in Nat /\ Len(q) \in Nat /\ Len(z) \in Nat
    BY <1>6, <1>8, LenProperties
  <1>10. /\ Len(b \o q) = Len(b) + Len(q) /\ Len(b \o z) = Len(b) + Len(z)
         /\ \A i \in 1 .. Len(b) + Len(q) : (b \o q)[i] = IF i <= Len(b) THEN b[i] ELSE q[i - Len(b)]
         /\ \A i \in 1 .. Len(b) + Len(z) : (b \o z)[i] = IF i <= Len(b) THEN b[i] ELSE z[i - Len(b)]
    BY <1>6, <1>8, ConcatProperties
  <1>11. \A i \in 1 .. Len(b) + Len(z) : (b \o z)[i] = (b \o q)[i]
    <2> TAKE i \in 1 .. Len(b) + Len(z)
    <2>1. i \in 1 .. Len(b) + Len(q)
      BY <1>8, <1>9
    <2>2. CASE i <= Len(b)
      BY <1>10, <2>1, <2>2
    <2>3. CASE ~(i <= Len(b))
      <3>1. i - Len(b) \in 1 .. Len(z)
        BY <1>9, <2>3
      <3> QED BY <1>8, <1>10, <2>1, <2>3, <3>1
    <2> QED BY <2>2, <2>3
  <1> QED BY <1>2, <1>4, <1>5, <1>6, <1>7, <1>8, <1>9, <1>10, <1>11 DEF P

----------------------------------------------------------------------------
(* the answers of the agent                                                *)

\* The agent answers its first request; for the calls of the others nothing changes.
AnswersFirst(c, s, ok) ==
  /\ Unserved # <<>> /\ Head(Unserved) = <<c, s>> /\ Unserved' = Tail(Unserved)
  /\ Whole(OnTheWay)' /\ (Len(OnTheWay) % 2 = 0 => Len(OnTheWay)' % 2 = 0)
  /\ replies' = Append(replies, [call |-> c, step |-> s, ok |-> ok])
  /\ editing' = <<>>
  /\ UNCHANGED <<client, channel, pending, frames, agent>>

SparesOthers(c) ==
  /\ \A d \in Calls : d # c =>
       /\ d \in DOMAIN temps' <=> d \in DOMAIN temps
       /\ d \in DOMAIN temps => temps'[d] = temps[d]
       /\ d \in litter' <=> d \in litter
       /\ d \in applied' <=> d \in applied
  /\ \A d \in Edits : d # c => seen'[d] = seen[d]
  /\ applied \subseteq applied' /\ dirs \subseteq dirs'
  /\ agent = "gone" => DOMAIN temps' \subseteq DOMAIN temps

LEMMA FirstUnserved ==
  ASSUME TransferTypes, OrderKept, Unserved # <<>>, NEW c, NEW s, Head(Unserved) = <<c, s>>
  PROVE  /\ c \in Calls /\ s \in Steps /\ <<c, s>> \in Requests
         /\ Len(Unserved) \in Nat /\ 1 <= Len(Unserved) /\ Unserved[1] = <<c, s>>
         /\ Tail(Unserved) \in Seq(Requests) /\ Len(Tail(Unserved)) = Len(Unserved) - 1
         /\ \A i \in 1 .. Len(Unserved) - 1 : Tail(Unserved)[i] = Unserved[i + 1] /\ Unserved[i + 1][1] # c
PROOF
  <1>1. Unserved \in Seq(Requests) /\ Len(Unserved) \in Nat
    BY UnservedShape
  <1>2. 1 <= Len(Unserved)
    BY <1>1, EmptySeq
  <1>3. Head(Unserved) \in Requests /\ Head(Unserved) = Unserved[1]
    BY <1>1, HeadTailProperties
  <1>4. /\ Tail(Unserved) \in Seq(Requests) /\ Len(Tail(Unserved)) = Len(Unserved) - 1
        /\ \A i \in 1 .. Len(Tail(Unserved)) : Tail(Unserved)[i] = Unserved[i + 1]
    BY <1>1, HeadTailProperties
  <1>5. ASSUME NEW i \in 1 .. Len(Unserved) - 1 PROVE Unserved[i + 1][1] # c
    <2>1. \A k, j \in 1 .. Len(Unserved) : Unserved[k][1] = Unserved[j][1] => k = j
      BY DEF OrderKept
    <2>2. 1 \in 1 .. Len(Unserved) /\ i + 1 \in 1 .. Len(Unserved) /\ i + 1 # 1
      BY <1>1, <1>2
    <2>3. Unserved[1][1] = c
      BY <1>3
    <2> QED BY <2>1, <2>2, <2>3
  <1>6. c \in Calls /\ s \in Steps
    BY <1>3 DEF Requests, Calls, Steps, Uploading
  <1> QED BY <1>1, <1>2, <1>3, <1>4, <1>5, <1>6

\* While the channel is open it waits for this answer, and no reply is for it.
LEMMA FirstWaits ==
  ASSUME TransferTypes, OrderKept, Unserved # <<>>, NEW c, NEW s, Head(Unserved) = <<c, s>>, channel = "open"
  PROVE  /\ c \in Range(pending) /\ step[c] = s /\ result[c] = "none"
         /\ \A i \in 1 .. Len(replies) : replies[i].call # c
PROOF
  <1>1. QueueKept /\ Len(Unserved) \in Nat /\ 1 <= Len(Unserved) /\ Unserved[1] = <<c, s>>
    BY FirstUnserved DEF OrderKept
  <1>2. /\ pending \in Seq(Calls) /\ Len(pending) \in Nat /\ DOMAIN pending = 1 .. Len(pending)
        /\ replies \in Seq(Answers) /\ Len(replies) \in Nat
    BY LenProperties DEF TransferTypes
  <1> DEFINE m == Len(replies) + 1
  <1>3. m \in 1 .. Len(pending) /\ \A i \in 1 .. Len(replies) : i \in 1 .. Len(pending) /\ i # m
    BY <1>1, <1>2 DEF QueueKept
  <1>4. pending[m] = c /\ step[c] = s
    <2>1. 1 \in 1 .. Len(Unserved)
      BY <1>1
    <2>2. <<pending[m], step[pending[m]]>> = <<c, s>>
      BY <1>1, <2>1 DEF QueueKept
    <2> QED BY <2>2
  <1> HIDE DEF m
  <1>5. c \in Range(pending)
    BY <1>2, <1>3, <1>4 DEF Range
  <1>6. result[c] = "none"
    BY <1>1, <1>3, <1>4 DEF QueueKept
  <1>7. ASSUME NEW i \in 1 .. Len(replies), replies[i].call = c PROVE FALSE
    <2>1. pending[i] = c
      BY <1>1, <1>7 DEF QueueKept
    <2> QED BY <1>1, <1>3, <1>4, <2>1 DEF QueueKept
  <1> QED BY <1>4, <1>5, <1>6, <1>7

LEMMA RepliesGrow ==
  ASSUME TransferTypes, NEW c \in Calls, NEW s \in Steps, NEW ok \in {"yes", "no"},
         replies' = Append(replies, [call |-> c, step |-> s, ok |-> ok])
  PROVE  /\ replies' \in Seq(Answers) /\ Len(replies) \in Nat /\ Len(replies') = Len(replies) + 1
         /\ \A i \in 1 .. Len(replies) : replies'[i] = replies[i]
         /\ replies'[Len(replies) + 1] = [call |-> c, step |-> s, ok |-> ok]
PROOF
  <1>1. replies \in Seq(Answers) /\ [call |-> c, step |-> s, ok |-> ok] \in Answers
    BY DEF TransferTypes, Answers
  <1> QED BY <1>1, AppendProperties, LenProperties

LEMMA AnswerKeepsOrder ==
  ASSUME TransferTypes, OrderKept, NEW c, NEW s, NEW ok \in {"yes", "no"}, AnswersFirst(c, s, ok)
  PROVE  OrderKept'
PROOF
  <1>1. /\ c \in Calls /\ s \in Steps /\ Len(Unserved) \in Nat /\ 1 <= Len(Unserved) /\ Unserved[1] = <<c, s>>
        /\ Len(Unserved') = Len(Unserved) - 1
        /\ \A i \in 1 .. Len(Unserved) - 1 : Unserved'[i] = Unserved[i + 1]
    BY FirstUnserved DEF AnswersFirst
  <1>2. UNCHANGED <<step, result, channel, pending, frames>>
    BY DEF AnswersFirst, client
  <1>3. \A i, j \in 1 .. Len(Unserved') : Unserved'[i][1] = Unserved'[j][1] => i = j
    <2> TAKE i \in 1 .. Len(Unserved'), j \in 1 .. Len(Unserved')
    <2>1. /\ i \in 1 .. Len(Unserved) - 1 /\ j \in 1 .. Len(Unserved) - 1
          /\ i + 1 \in 1 .. Len(Unserved) /\ j + 1 \in 1 .. Len(Unserved)
          /\ (i + 1 = j + 1 => i = j)
      BY <1>1
    <2> QED BY <1>1, <2>1 DEF OrderKept
  <1>4. ASSUME channel = "open" PROVE QueueKept'
    <2>1. QueueKept
      BY <1>4 DEF OrderKept
    <2>2. /\ Len(replies) \in Nat /\ Len(replies') = Len(replies) + 1
          /\ \A i \in 1 .. Len(replies) : replies'[i] = replies[i]
          /\ replies'[Len(replies) + 1] = [call |-> c, step |-> s, ok |-> ok]
      BY <1>1, RepliesGrow DEF AnswersFirst
    <2>3. Len(OnTheWay)' % 2 = 0
      BY <2>1 DEF QueueKept, AnswersFirst
    <2>4. Len(pending') = Len(replies') + Len(Unserved')
      BY <1>1, <1>2, <2>1, <2>2 DEF QueueKept
    <2>5. \A i \in 1 .. Len(replies') :
            <<pending'[i], step'[pending'[i]]>> = <<replies'[i].call, replies'[i].step>>
      <3> TAKE i \in 1 .. Len(replies')
      <3>1. CASE i \in 1 .. Len(replies)
        BY <1>2, <2>1, <2>2, <3>1 DEF QueueKept
      <3>2. CASE i = Len(replies) + 1
        <4>1. 1 \in 1 .. Len(Unserved)
          BY <1>1
        <4>2. <<pending[i], step[pending[i]]>> = <<c, s>>
          BY <1>1, <2>1, <3>2, <4>1 DEF QueueKept
        <4> QED BY <1>2, <2>2, <3>2, <4>2
      <3> QED BY <2>2, <3>1, <3>2
    <2>6. \A i \in 1 .. Len(Unserved') :
            <<pending'[Len(replies') + i], step'[pending'[Len(replies') + i]]>> = Unserved'[i]
      <3> TAKE i \in 1 .. Len(Unserved')
      <3>1. /\ i \in 1 .. Len(Unserved) - 1 /\ i + 1 \in 1 .. Len(Unserved)
            /\ Len(replies') + i = Len(replies) + (i + 1)
        BY <1>1, <2>2
      <3> QED BY <1>1, <1>2, <2>1, <3>1 DEF QueueKept
    <2> QED BY <1>2, <2>1, <2>3, <2>4, <2>5, <2>6 DEF QueueKept
  <1> QED BY <1>2, <1>3, <1>4 DEF OrderKept, AnswersFirst

\* What is ready for another call stays so.
LEMMA OthersReady ==
  ASSUME NEW c, NEW d \in Calls, d # c, NEW s, SparesOthers(c), agent' = agent, Ready(d, s)
  PROVE  Ready(d, s)'
PROOF
  <1>1. /\ d \in DOMAIN temps' <=> d \in DOMAIN temps
        /\ d \in DOMAIN temps => temps'[d] = temps[d]
        /\ d \in litter' <=> d \in litter
        /\ d \in applied' <=> d \in applied
        /\ d \in Edits => seen'[d] = seen[d]
        /\ dirs \subseteq dirs'
    BY DEF SparesOthers
  <1> QED BY <1>1 DEF Ready

LEMMA AnswerKeepsService ==
  ASSUME TransferTypes, OrderKept, ServiceKept, NEW c, NEW s, NEW ok \in {"yes", "no"},
         AnswersFirst(c, s, ok), SparesOthers(c),
         Truthful([call |-> c, step |-> s, ok |-> ok])'
  PROVE  ServiceKept'
PROOF
  <1>1. /\ c \in Calls /\ s \in Steps /\ Len(Unserved) \in Nat
        /\ Len(Unserved') = Len(Unserved) - 1
        /\ \A i \in 1 .. Len(Unserved) - 1 : Unserved'[i] = Unserved[i + 1] /\ Unserved[i + 1][1] # c
    BY FirstUnserved DEF AnswersFirst
  <1>2. UNCHANGED <<step, result, channel, pending, agent>> /\ editing' = <<>>
    BY DEF AnswersFirst, client
  <1>3. \A d \in Calls : result'[d] = "ok" => d \in applied'
    BY <1>2 DEF ServiceKept, SparesOthers
  <1>4. agent' = "gone" => DOMAIN temps' = {}
    BY <1>2 DEF ServiceKept, SparesOthers
  <1>5. ASSUME NEW i \in 1 .. Len(Unserved') PROVE Ready(Unserved[i][1], Unserved[i][2])'
    <2>1. i \in 1 .. Len(Unserved) - 1 /\ i + 1 \in 1 .. Len(Unserved)
      BY <1>1
    <2>2. Ready(Unserved[i + 1][1], Unserved[i + 1][2]) /\ Unserved[i + 1] \in Requests
      BY <2>1, UnservedShape DEF ServiceKept
    <2>3. Unserved'[i] = Unserved[i + 1] /\ Unserved[i + 1][1] # c
      BY <1>1, <2>1
    <2>4. PICK d \in Calls, t \in Steps : <<d, t>> = Unserved[i + 1]
      BY <2>2 DEF Requests, Calls, Steps, Uploading
    <2>5. Ready(d, t) /\ d # c
      BY <2>2, <2>3, <2>4
    <2>6. Ready(d, t)'
      BY <1>2, <2>5, OthersReady
    <2>7. Unserved'[i] = <<d, t>>
      BY <2>3, <2>4
    <2> QED BY <2>6, <2>7 DEF Ready
  <1>7. ASSUME channel = "open", NEW i \in 1 .. Len(replies') PROVE Truthful(replies[i])'
    <2>1. /\ Len(replies) \in Nat /\ Len(replies') = Len(replies) + 1
          /\ \A j \in 1 .. Len(replies) : replies'[j] = replies[j]
          /\ replies'[Len(replies) + 1] = [call |-> c, step |-> s, ok |-> ok]
      BY <1>1, RepliesGrow DEF AnswersFirst
    <2>2. CASE i = Len(replies) + 1
      BY <2>1, <2>2 DEF Truthful, Ready
    <2>3. CASE i \in 1 .. Len(replies)
      <3>1. replies[i] \in Answers /\ replies'[i] = replies[i]
        BY <2>1, <2>3, ElementOfSeq DEF TransferTypes
      <3> DEFINE r == replies[i]
      <3>2. r.call \in Calls /\ r.call # c /\ Truthful(r)
        BY <1>7, <2>3, <3>1, FirstWaits DEF AnswersFirst, ServiceKept, Answers
      <3>3. PICK q \in Answers : q = r /\ q = r'
        BY <3>1, <2>1, <2>3
      <3>4. q.call \in Calls /\ q.call # c /\ Truthful(q)
        BY <3>2, <3>3
      <3>5. Ready(q.call, NextStep(q.step, TRUE)) => Ready(q.call, NextStep(q.step, TRUE))'
        BY <1>2, <3>4, OthersReady
      <3>6. /\ q.call \in DOMAIN temps' <=> q.call \in DOMAIN temps
            /\ q.call \in litter' <=> q.call \in litter
            /\ applied \subseteq applied'
        BY <3>4 DEF SparesOthers
      <3>7. Truthful(q)'
        BY <3>4, <3>5, <3>6 DEF Truthful
      <3> QED BY <3>3, <3>7 DEF Truthful, Ready
    <2> QED BY <2>1, <2>2, <2>3
  <1>8. ASSUME channel = "open", NEW d \in Calls \ Range(pending') PROVE AtRest(d)'
    <2>1. d \notin Range(pending) /\ d # c /\ AtRest(d)
      BY <1>2, <1>8, FirstWaits DEF AnswersFirst, ServiceKept
    <2>2. Ready(d, step[d])'
      <3>1. Ready(d, step[d])
        BY <2>1 DEF AtRest
      <3>2. PICK t : t = step[d] /\ t = step'[d]
        BY <1>2
      <3>3. Ready(d, t)'
        BY <1>2, <2>1, <3>1, <3>2, OthersReady
      <3> QED BY <3>2, <3>3
    <2>3. (d \in DOMAIN temps' <=> d \in DOMAIN temps) /\ (d \in litter' <=> d \in litter)
      BY <2>1 DEF SparesOthers
    <2> QED BY <1>2, <2>1, <2>2, <2>3 DEF AtRest
  <1> QED BY <1>2, <1>3, <1>4, <1>5, <1>7, <1>8 DEF ServiceKept

\* The workspace keeps its shape.
ShapeKept ==
  /\ DOMAIN files' = DOMAIN files /\ DOMAIN seen' = DOMAIN seen
  /\ DOMAIN temps' \subseteq Writes /\ litter' \subseteq Writes \cup Edits \cup Removes
  /\ applied' \subseteq Calls

LEMMA ArrivedReady ==
  ASSUME TransferInv, NEW c, NEW s, Arrived(c, s), wire' = SubSeq(wire, 3, Len(wire)), UNCHANGED writer
  PROVE  <<c, s>> \in Requests /\ c \in Calls /\ Ready(c, s) /\ agent = "up"
PROOF
  <1>1. TransferTypes /\ OrderKept /\ ServiceKept /\ Whole(OnTheWay)
    BY DEF TransferInv, OrderKept
  <1>2. Unserved # <<>> /\ Head(Unserved) = <<c, s>>
    BY <1>1, ArrivedOrder
  <1>3. /\ <<c, s>> \in Requests /\ c \in Calls /\ Len(Unserved) \in Nat /\ 1 <= Len(Unserved)
        /\ Unserved[1] = <<c, s>>
    BY <1>1, <1>2, FirstUnserved
  <1>4. 1 \in 1 .. Len(Unserved)
    BY <1>3
  <1>5. Ready(Unserved[1][1], Unserved[1][2])
    BY <1>1, <1>4 DEF ServiceKept
  <1>6. Ready(c, s)
    BY <1>3, <1>5
  <1> QED BY <1>3, <1>6 DEF Arrived

LEMMA ReplyKeeps ==
  ASSUME TransferInv, NEW c, NEW s, NEW ok \in {"yes", "no"}, Arrived(c, s), Reply(c, s, ok),
         SparesOthers(c), ShapeKept, Truthful([call |-> c, step |-> s, ok |-> ok])'
  PROVE  TransferInv'
PROOF
  <1>1. TransferTypes /\ StepsTold /\ OrderKept /\ ServiceKept /\ Whole(OnTheWay)
    BY DEF TransferInv, OrderKept
  <1>2. /\ wire' = SubSeq(wire, 3, Len(wire)) /\ editing = <<>>
        /\ replies' = Append(replies, [call |-> c, step |-> s, ok |-> ok])
        /\ UNCHANGED <<step, result, channel, pending, frames, offset, agent, editing>>
    BY DEF Arrived, Reply, writer, client
  <1>3. UNCHANGED writer
    BY <1>2 DEF writer
  <1>4. /\ wire' \in Seq(Requests \X {0, 1})
        /\ Whole(OnTheWay)' /\ (Len(OnTheWay) % 2 = 0 => Len(OnTheWay)' % 2 = 0)
        /\ Unserved # <<>> /\ Head(Unserved) = <<c, s>> /\ Asked(OnTheWay)' = Tail(Unserved)
    BY <1>1, <1>2, <1>3, ArrivedOrder
  <1>5. c \in Calls /\ s \in Steps
    BY <1>1, <1>4, FirstUnserved
  <1>6. TransferTypes'
    <2>1. replies' \in Seq(Answers)
      BY <1>1, <1>2, <1>5, RepliesGrow
    <2> QED BY <1>1, <1>2, <1>4, <2>1 DEF TransferTypes, ShapeKept
  <1>7. Unserved' = Tail(Unserved)
    <2>1. (Unserved = Asked(OnTheWay))'
      <3>1. (TransferTypes /\ editing = <<>>)'
        BY <1>2, <1>6
      <3> QED BY <3>1, UnservedWhenIdle, PTL
    <2> QED BY <1>4, <2>1
  <1>8. AnswersFirst(c, s, ok)
    BY <1>2, <1>4, <1>7 DEF AnswersFirst, client
  <1>9. OrderKept' /\ ServiceKept'
    BY <1>1, <1>8, AnswerKeepsOrder, AnswerKeepsService
  <1>10. StepsTold'
    BY <1>1, <1>2 DEF StepsTold
  <1> QED BY <1>6, <1>9, <1>10 DEF TransferInv

LEMMA TwoAppended ==
  ASSUME NEW S, NEW s \in Seq(S), NEW e \in S, NEW t \in Seq(S),
         Len(s) = 1, Len(t) = 2, t[1] = s[1], t[2] = e
  PROVE  Append(s, e) = t
PROOF
  <1>1. /\ Append(s, e) \in Seq(S) /\ Len(Append(s, e)) = Len(s) + 1
        /\ \A i \in 1 .. Len(s) : Append(s, e)[i] = s[i]
        /\ Append(s, e)[Len(s) + 1] = e
    <2>1. s \in Seq(S) /\ e \in S
      OBVIOUS
    <2> QED BY ONLY <2>1, AppendProperties
  <1>2. \A i \in 1 .. Len(Append(s, e)) : Append(s, e)[i] = t[i]
    BY <1>1
  <1> QED BY <1>1, <1>2, SeqEqual

\* What With and Without do to the temporary files.
LEMMA WithShape ==
  ASSUME NEW c, NEW f, temps' = With(c, f)
  PROVE  /\ DOMAIN temps' = DOMAIN temps \cup {c} /\ temps'[c] = f
         /\ \A d \in DOMAIN temps : d # c => temps'[d] = temps[d]
PROOF
  BY DEF With, Transfers

LEMMA WithoutShape ==
  ASSUME NEW c, temps' = Without(c)
  PROVE  /\ DOMAIN temps' = DOMAIN temps \ {c}
         /\ \A d \in DOMAIN temps : d # c => temps'[d] = temps[d]
PROOF
  BY DEF Without, Transfers

\* Only a call that is served learns, changes or leaves anything.
LEMMA SparesShape ==
  ASSUME TransferInv, NEW c \in Calls,
         \/ UNCHANGED temps
         \/ temps' = Without(c)
         \/ c \in Writes /\ \E f : temps' = With(c, f),
         \/ UNCHANGED litter
         \/ c \notin Moves /\ litter' \in {litter, litter \cup {c}},
         dirs \subseteq dirs',
         agent = "up",
         applied' \in {applied, applied \cup {c}},
         \/ UNCHANGED seen
         \/ \E f : seen' = [seen EXCEPT ![c] = f],
         DOMAIN files' = DOMAIN files
  PROVE  SparesOthers(c) /\ ShapeKept
PROOF
  <1>1. TransferTypes
    BY DEF TransferInv
  <1>2. /\ DOMAIN seen = Edits /\ DOMAIN temps \subseteq Writes /\ applied \subseteq Calls
        /\ litter \subseteq Writes \cup Edits \cup Removes
    BY <1>1 DEF TransferTypes
  <1>3. DOMAIN seen' = DOMAIN seen /\ \A d \in Edits : d # c => seen'[d] = seen[d]
    BY <1>2
  <1>4. /\ DOMAIN temps' \subseteq Writes
        /\ \A d \in Calls : d # c =>
             /\ d \in DOMAIN temps' <=> d \in DOMAIN temps
             /\ d \in DOMAIN temps => temps'[d] = temps[d]
    <2>1. CASE UNCHANGED temps
      BY <1>2, <2>1
    <2>2. CASE temps' = Without(c)
      <3>1. /\ DOMAIN temps' = DOMAIN temps \ {c}
            /\ \A d \in DOMAIN temps : d # c => temps'[d] = temps[d]
        BY <2>2 DEF Without, Transfers
      <3> QED BY <1>2, <3>1
    <2>3. CASE c \in Writes /\ \E f : temps' = With(c, f)
      <3>1. PICK f : temps' = With(c, f)
        BY <2>3
      <3> QED BY <1>2, <2>3, <3>1, WithShape
    <2> QED BY <2>1, <2>2, <2>3
  <1>5. /\ litter' \subseteq Writes \cup Edits \cup Removes
        /\ \A d \in Calls : d # c => (d \in litter' <=> d \in litter)
    <2>1. c \notin Moves => c \in Writes \cup Edits \cup Removes
      BY DEF Calls
    <2> QED BY <1>2, <2>1
  <1> QED BY <1>2, <1>3, <1>4, <1>5 DEF SparesOthers, ShapeKept

\* A transfer that is discarded is not open, and only its own file may stay.
LEMMA DiscardShape ==
  ASSUME NEW c, Discard(c)
  PROVE  /\ temps' = Without(c) /\ c \notin DOMAIN temps'
         /\ litter' \in {litter, litter \cup {c}}
PROOF
  BY DEF Discard, Without, Transfers

LEMMA BeginKeeps ==
  ASSUME TransferInv, NEW c \in Writes, GuestBegin(c)
  PROVE  TransferInv'
PROOF
  <1>1. /\ Arrived(c, "begin") /\ UNCHANGED <<litter, files, applied, seen>>
        /\ wire' = SubSeq(wire, 3, Len(wire)) /\ UNCHANGED <<writer, agent>>
        /\ dirs \subseteq dirs'
    BY DEF GuestBegin, Reply
  <1>2. c \in Calls /\ Ready(c, "begin") /\ agent = "up"
    BY <1>1, ArrivedReady
  <1>3. CASE Target[c] \in dirs' /\ temps' = With(c, <<>>) /\ Reply(c, "begin", "yes")
    <2>1. SparesOthers(c) /\ ShapeKept
      BY <1>1, <1>2, <1>3, SparesShape
    <2>2. c \in DOMAIN temps' /\ temps'[c] = <<>> /\ c \notin litter' /\ c \notin applied'
      BY <1>1, <1>2, <1>3, WithShape DEF Ready
    <2>3. Truthful([call |-> c, step |-> "begin", ok |-> "yes"])'
      BY <1>3, <2>2 DEF Truthful, Ready, NextStep, Sent
    <2> QED BY <1>1, <1>3, <2>1, <2>3, ReplyKeeps
  <1>4. CASE UNCHANGED temps /\ Reply(c, "begin", "no")
    <2>1. SparesOthers(c) /\ ShapeKept
      BY <1>1, <1>2, <1>4, SparesShape
    <2>2. Truthful([call |-> c, step |-> "begin", ok |-> "no"])'
      BY DEF Truthful
    <2> QED BY <1>1, <1>4, <2>1, <2>2, ReplyKeeps
  <1> QED BY <1>3, <1>4 DEF GuestBegin

LEMMA ChunkKeeps ==
  ASSUME TransferInv, NEW c \in Writes, GuestChunk(c)
  PROVE  TransferInv'
PROOF
  <1>1. PICK i \in {1, 2}, s \in {"chunk1", "chunk2"} :
          /\ s = (IF i = 1 THEN "chunk1" ELSE "chunk2")
          /\ Arrived(c, s)
          /\ \/ c \in Transfers /\ temps' = With(c, Append(temps[c], <<c, i>>)) /\ UNCHANGED litter /\ Reply(c, s, "yes")
             \/ UNCHANGED <<temps, litter>> /\ Reply(c, s, "no")
             \/ Discard(c) /\ Reply(c, s, "no")
          /\ UNCHANGED <<dirs, files, applied, seen>>
    BY DEF GuestChunk
  <1>2. wire' = SubSeq(wire, 3, Len(wire)) /\ UNCHANGED writer /\ agent' = agent
    BY <1>1 DEF Reply
  <1>3. c \in Calls /\ Ready(c, s) /\ agent = "up"
    BY <1>1, <1>2, ArrivedReady
  <1>6. c \notin Moves
    BY CallsAssumption
  <1>4. CASE c \in Transfers /\ temps' = With(c, Append(temps[c], <<c, i>>)) /\ UNCHANGED litter /\ Reply(c, s, "yes")
    <2>1. SparesOthers(c) /\ ShapeKept
      BY <1>1, <1>3, <1>4, SparesShape
    <2>2. temps'[c] = Append(temps[c], <<c, i>>) /\ c \in DOMAIN temps'
      BY <1>4 DEF With, Transfers
    <2>3. c \notin applied' /\ temps[c] = Sent(c, s) /\ Target[c] \in dirs' /\ c \notin litter'
      BY <1>1, <1>3, <1>4 DEF Ready
    <2>4. temps'[c] = Sent(c, NextStep(s, TRUE))
      <3>1. CASE i = 1
        BY <1>1, <2>2, <2>3, <3>1 DEF Sent, NextStep
      <3>2. CASE i = 2
        <4>1. Append(<<<<c, 1>>>>, <<c, 2>>) = <<<<c, 1>>, <<c, 2>>>>
          <5> DEFINE S == {<<c, 1>>, <<c, 2>>}
                     a == <<<<c, 1>>>>
                     t == <<<<c, 1>>, <<c, 2>>>>
                     e == <<c, 2>>
          <5>1. a \in Seq(S) /\ t \in Seq(S) /\ e \in S /\ Len(a) = 1 /\ Len(t) = 2 /\ t[1] = a[1] /\ t[2] = e
            OBVIOUS
          <5> HIDE DEF S, a, t, e
          <5>2. Append(a, e) = t
            BY <5>1, TwoAppended
          <5> QED BY <5>2 DEF a, t, e
        <4> QED BY <1>1, <2>2, <2>3, <3>2, <4>1 DEF Sent, NextStep, Upload
      <3> QED BY <3>1, <3>2
    <2>5. NextStep(s, TRUE) \in {"chunk2", "commit"}
      BY DEF NextStep
    <2>6. Truthful([call |-> c, step |-> s, ok |-> "yes"])'
      BY <2>2, <2>3, <2>4, <2>5 DEF Truthful, Ready
    <2> QED BY <1>1, <1>4, <2>1, <2>6, ReplyKeeps
  <1>5. CASE (UNCHANGED <<temps, litter>> \/ Discard(c)) /\ Reply(c, s, "no")
    <2>1. SparesOthers(c) /\ ShapeKept
      BY <1>1, <1>3, <1>5, <1>6, SparesShape, DiscardShape
    <2>2. Truthful([call |-> c, step |-> s, ok |-> "no"])'
      BY DEF Truthful
    <2> QED BY <1>1, <1>5, <2>1, <2>2, ReplyKeeps
  <1> QED BY <1>1, <1>4, <1>5

LEMMA CommitKeeps ==
  ASSUME TransferInv, NEW c \in Writes, GuestCommit(c)
  PROVE  TransferInv'
PROOF
  <1>1. Arrived(c, "commit") /\ UNCHANGED <<dirs, seen>>
    BY DEF GuestCommit
  <1>2. PICK ok \in {"yes", "no"} :
          /\ Reply(c, "commit", ok)
          /\ DOMAIN files' = DOMAIN files
          /\ \/ applied' = applied \cup {c} /\ temps' = Without(c) /\ UNCHANGED litter
             \/ ok = "no" /\ applied' = applied /\ Discard(c)
    BY DEF GuestCommit
  <1>3. wire' = SubSeq(wire, 3, Len(wire)) /\ UNCHANGED writer
    BY <1>2 DEF Reply
  <1>4. c \in Calls /\ agent = "up" /\ Ready(c, "commit") /\ c \notin Moves
    BY <1>1, <1>3, ArrivedReady, CallsAssumption
  <1>5. temps' = Without(c) /\ litter' \in {litter, litter \cup {c}} /\ c \notin DOMAIN temps'
    BY <1>2, DiscardShape, WithoutShape
  <1>6. SparesOthers(c) /\ ShapeKept
    BY <1>1, <1>2, <1>4, <1>5, SparesShape
  <1>7. ok = "yes" => c \in applied' /\ c \notin litter'
    BY <1>2, <1>4 DEF Ready
  <1>8. Truthful([call |-> c, step |-> "commit", ok |-> ok])'
    BY <1>5, <1>7 DEF Truthful, Ready, NextStep
  <1> QED BY <1>1, <1>2, <1>6, <1>8, ReplyKeeps

LEMMA AbortKeeps ==
  ASSUME TransferInv, NEW c \in Writes, GuestAbort(c)
  PROVE  TransferInv'
PROOF
  <1>1. Arrived(c, "abort") /\ Discard(c) /\ UNCHANGED <<dirs, files, applied, seen>>
    BY DEF GuestAbort
  <1>2. PICK ok \in {"yes", "no"} : Reply(c, "abort", ok)
    BY DEF GuestAbort
  <1>3. c \in Calls /\ agent = "up" /\ c \notin Moves
    BY <1>1, CallsAssumption DEF Calls, Arrived
  <1>4. SparesOthers(c) /\ ShapeKept
    BY <1>1, <1>3, SparesShape, DiscardShape
  <1>5. Truthful([call |-> c, step |-> "abort", ok |-> ok])'
    BY <1>1, DiscardShape DEF Truthful, Ready, NextStep
  <1> QED BY <1>1, <1>2, <1>4, <1>5, ReplyKeeps

LEMMA ReadKeeps ==
  ASSUME TransferInv, NEW c \in Edits, GuestRead(c)
  PROVE  TransferInv'
PROOF
  <1>1. Arrived(c, "read") /\ UNCHANGED <<temps, litter, dirs, files, applied>>
    BY DEF GuestRead
  <1>2. PICK ok \in {"yes", "no"} :
          /\ Reply(c, "read", ok)
          /\ \/ files[Target[c]] # Absent /\ seen' = [seen EXCEPT ![c] = files[Target[c]]]
             \/ ok = "no" /\ UNCHANGED seen
    BY DEF GuestRead
  <1>3. wire' = SubSeq(wire, 3, Len(wire)) /\ UNCHANGED writer /\ agent' = agent
    BY <1>2 DEF Reply
  <1>4. c \in Calls /\ Ready(c, "read") /\ agent = "up"
    BY <1>1, <1>3, ArrivedReady
  <1>5. SparesOthers(c) /\ ShapeKept
    BY <1>1, <1>2, <1>4, SparesShape
  <1>6. DOMAIN seen = Edits
    BY DEF TransferInv, TransferTypes
  <1>7. Truthful([call |-> c, step |-> "read", ok |-> ok])'
    <2>1. CASE ok = "yes"
      <3>1. seen'[c] # Absent
        BY <1>2, <1>6, <2>1
      <3>2. NextStep("read", TRUE) = "edit"
        BY DEF NextStep
      <3> QED BY <1>1, <1>4, <3>1, <3>2 DEF Truthful, Ready, Absent
    <2>2. CASE ok = "no"
      BY <2>2 DEF Truthful
    <2> QED BY <2>1, <2>2
  <1> QED BY <1>1, <1>2, <1>5, <1>7, ReplyKeeps

LEMMA MoveKeeps ==
  ASSUME TransferInv, NEW c \in Moves, GuestMove(c)
  PROVE  TransferInv'
PROOF
  <1>1. Arrived(c, "move") /\ UNCHANGED <<temps, litter, dirs, seen>>
    BY DEF GuestMove
  <1>2. PICK ok \in {"yes", "no"} :
          /\ Reply(c, "move", ok) /\ DOMAIN files' = DOMAIN files
          /\ \/ applied' = applied \cup {c}
             \/ ok = "no" /\ applied' = applied
    BY DEF GuestMove
  <1>3. wire' = SubSeq(wire, 3, Len(wire)) /\ UNCHANGED writer /\ agent' = agent
    BY <1>2 DEF Reply
  <1>4. c \in Calls /\ Ready(c, "move") /\ agent = "up"
    BY <1>1, <1>3, ArrivedReady
  <1>5. SparesOthers(c) /\ ShapeKept
    BY <1>1, <1>2, <1>4, SparesShape
  <1>6. Truthful([call |-> c, step |-> "move", ok |-> ok])'
    BY <1>1, <1>2, <1>4 DEF Truthful, Ready, NextStep
  <1> QED BY <1>1, <1>2, <1>5, <1>6, ReplyKeeps

LEMMA RemoveKeeps ==
  ASSUME TransferInv, NEW c \in Removes, GuestRemove(c)
  PROVE  TransferInv'
PROOF
  <1>1. Arrived(c, "remove") /\ UNCHANGED <<temps, dirs, seen>>
    BY DEF GuestRemove
  <1>2. PICK ok \in {"yes", "no"} :
          /\ Reply(c, "remove", ok) /\ DOMAIN files' = DOMAIN files
          /\ \/ applied' = applied \cup {c} /\ UNCHANGED litter
             \/ /\ ok = "no" /\ applied' \in {applied, applied \cup {c}}
                /\ litter' \in {litter, litter \cup {c}}
    <2>1. CASE UNCHANGED <<litter, files, applied>> /\ Reply(c, "remove", "no")
      BY <2>1
    <2>2. CASE /\ files' = [files EXCEPT ![Target[c]] = Absent]
               /\ applied' = applied \cup {c}
               /\ \/ UNCHANGED litter /\ \E ok \in {"yes", "no"} : Reply(c, "remove", ok)
                  \/ litter' = litter \cup {c} /\ Reply(c, "remove", "no")
      BY <2>2
    <2> QED BY <2>1, <2>2 DEF GuestRemove
  <1>3. wire' = SubSeq(wire, 3, Len(wire)) /\ UNCHANGED writer /\ agent' = agent
    BY <1>2 DEF Reply
  <1>4. c \in Calls /\ Ready(c, "remove") /\ agent = "up" /\ c \notin Moves
    BY <1>1, <1>3, ArrivedReady, CallsAssumption
  <1>5. SparesOthers(c) /\ ShapeKept
    BY <1>1, <1>2, <1>4, SparesShape
  <1>6. Truthful([call |-> c, step |-> "remove", ok |-> ok])'
    BY <1>1, <1>2, <1>4 DEF Truthful, Ready, NextStep
  <1> QED BY <1>1, <1>2, <1>5, <1>6, ReplyKeeps

LEMMA HeadTailEqual ==
  ASSUME NEW S, NEW s \in Seq(S), NEW t \in Seq(S), s # <<>>, t # <<>>, Head(s) = Head(t), Tail(s) = Tail(t)
  PROVE  s = t
PROOF
  <1>1. Len(s) \in Nat /\ Len(t) \in Nat /\ Len(s) >= 1 /\ Len(t) >= 1
    BY LenProperties, EmptySeq
  <1>2. /\ Len(Tail(s)) = Len(s) - 1 /\ \A i \in 1 .. Len(Tail(s)) : Tail(s)[i] = s[i + 1]
        /\ Len(Tail(t)) = Len(t) - 1 /\ \A i \in 1 .. Len(Tail(t)) : Tail(t)[i] = t[i + 1]
    BY HeadTailProperties
  <1>3. Head(s) = s[1] /\ Head(t) = t[1]
    OBVIOUS
  <1>4. Len(s) = Len(t)
    <2>1. Len(Tail(s)) = Len(Tail(t))
      OBVIOUS
    <2> QED BY ONLY <1>1, <1>2, <2>1
  <1>5. ASSUME NEW i \in 1 .. Len(s) PROVE s[i] = t[i]
    <2>1. CASE i = 1
      BY <1>3, <2>1
    <2>2. CASE i # 1
      <3> DEFINE j == i - 1
      <3>1. j \in 1 .. Len(Tail(s)) /\ j \in 1 .. Len(Tail(t)) /\ j + 1 = i
        BY <1>1, <1>2, <1>4, <2>2
      <3> HIDE DEF j
      <3>2. Tail(s)[j] = s[i] /\ Tail(t)[j] = t[i]
        BY <1>2, <3>1
      <3> QED BY <3>2
    <2> QED BY <2>1, <2>2
  <1> QED BY <1>4, <1>5, SeqEqual

\* The order depends on nothing but the requests, the replies and who waits.
LEMMA OrderFrame ==
  ASSUME OrderKept, OnTheWay' = OnTheWay, Unserved' = Unserved,
         UNCHANGED <<pending, replies, step, result, channel>>,
         channel = "closed" => frames' = frames
  PROVE  OrderKept'
PROOF
  BY DEF OrderKept, QueueKept, Whole

LEMMA ServiceFrame ==
  ASSUME ServiceKept, Unserved' = Unserved, UNCHANGED <<pending, replies, step, result, channel>>,
         \A d, s : Ready(d, s) => Ready(d, s)',
         DOMAIN temps' \subseteq DOMAIN temps, litter' \subseteq litter \cup DOMAIN temps,
         applied \subseteq applied',
         agent' = "gone" => DOMAIN temps' = {}
  PROVE  ServiceKept'
PROOF
  <1>1. (\A c \in Calls : result[c] = "ok" => c \in applied)'
    BY DEF ServiceKept
  <1>2. ASSUME NEW i \in 1 .. Len(Unserved') PROVE Ready(Unserved[i][1], Unserved[i][2])'
    <2>1. Ready(Unserved[i][1], Unserved[i][2])
      BY <1>2 DEF ServiceKept
    <2>2. PICK d, s : d = Unserved[i][1] /\ s = Unserved[i][2] /\ Unserved'[i][1] = d /\ Unserved'[i][2] = s
      OBVIOUS
    <2>3. Ready(d, s)'
      BY <2>1, <2>2
    <2> QED BY <2>2, <2>3 DEF Ready
  <1>3. ASSUME channel = "open", NEW i \in 1 .. Len(replies') PROVE Truthful(replies[i])'
    <2>1. PICK r : r = replies[i] /\ r = replies'[i] /\ Truthful(r)
      BY <1>3 DEF ServiceKept
    <2>2. Truthful(r)'
      BY <2>1 DEF Truthful
    <2> QED BY <2>1, <2>2 DEF Truthful, Ready
  <1>4. ASSUME channel = "open", NEW d \in Calls \ Range(pending') PROVE AtRest(d)'
    <2>1. AtRest(d)
      BY <1>4 DEF ServiceKept
    <2>2. PICK t : t = step[d] /\ t = step'[d]
      OBVIOUS
    <2>3. Ready(d, t)'
      BY <2>1, <2>2 DEF AtRest
    <2>4. Ready(d, step[d])'
      BY <2>2, <2>3 DEF Ready
    <2> QED BY <2>1, <2>4 DEF AtRest
  <1> QED BY <1>1, <1>2, <1>3, <1>4 DEF ServiceKept

LEMMA EditKeeps ==
  ASSUME TransferInv, NEW c \in Edits, GuestEdit(c)
  PROVE  TransferInv'
PROOF
  <1>1. Arrived(c, "edit") /\ UNCHANGED <<temps, litter, dirs, files, applied, seen>>
    BY DEF GuestEdit, service
  <1>2. CASE Reply(c, "edit", "no")
    <2>1. c \in Calls /\ agent = "up"
      BY <1>1 DEF Calls, Arrived
    <2>2. SparesOthers(c) /\ ShapeKept
      BY <1>1, <2>1, SparesShape
    <2>3. Truthful([call |-> c, step |-> "edit", ok |-> "no"])'
      BY DEF Truthful
    <2> QED BY <1>1, <1>2, <2>2, <2>3, ReplyKeeps
  <1>3. CASE /\ files[Target[c]] = seen[c]
             /\ editing' = <<c>>
             /\ wire' = SubSeq(wire, 3, Len(wire))
             /\ UNCHANGED <<client, channel, pending, writer, replies, agent, held, limits>>
    <2>1. TransferTypes /\ StepsTold /\ OrderKept /\ ServiceKept /\ Whole(OnTheWay)
      BY DEF TransferInv, OrderKept
    <2>2. UNCHANGED <<step, result, channel, pending, frames, offset, replies, agent, writer>>
      BY <1>3 DEF client, writer
    <2>3. /\ wire' \in Seq(Requests \X {0, 1})
          /\ Whole(OnTheWay)' /\ (Len(OnTheWay) % 2 = 0 => Len(OnTheWay)' % 2 = 0)
          /\ Unserved # <<>> /\ Head(Unserved) = <<c, "edit">> /\ Asked(OnTheWay)' = Tail(Unserved)
      BY <1>1, <1>3, <2>1, <2>2, ArrivedOrder
    <2>4. TransferTypes'
      BY <1>1, <1>3, <2>1, <2>2, <2>3 DEF TransferTypes
    <2>5. Unserved' = Unserved
      <3>1. (Unserved # <<>> /\ Head(Unserved) = <<c, "edit">> /\ Tail(Unserved) = Asked(OnTheWay))'
        <4>1. (TransferTypes /\ editing = <<c>>)'
          BY <1>3, <2>4
        <4> QED BY <4>1, UnservedWhenEditing, PTL
      <3>2. Unserved \in Seq(Requests)
        BY <2>1, UnservedShape
      <3>3. (Unserved \in Seq(Requests))'
        BY <2>4, UnservedShape, PTL
      <3> QED BY <2>3, <3>1, <3>2, <3>3, HeadTailEqual
    <2>6. OrderKept'
      <3>1. ASSUME channel = "open" PROVE QueueKept'
        <4>1. QueueKept /\ Len(OnTheWay)' % 2 = 0
          BY <2>1, <2>3, <3>1 DEF OrderKept, QueueKept
        <4> QED BY <2>2, <2>5, <4>1 DEF QueueKept
      <3> QED BY <2>1, <2>2, <2>3, <2>5, <3>1 DEF OrderKept
    <2>7. \A d, s : Ready(d, s) => Ready(d, s)'
      BY <1>1, <2>2 DEF Ready
    <2>9. agent' = "gone" => DOMAIN temps' = {}
      BY <1>1, <2>1, <2>2 DEF ServiceKept
    <2>10. ServiceKept'
      BY <1>1, <2>1, <2>2, <2>5, <2>7, <2>9, ServiceFrame
    <2>11. StepsTold'
      BY <2>1, <2>2 DEF StepsTold
    <2> QED BY <2>4, <2>6, <2>10, <2>11 DEF TransferInv
  <1> QED BY <1>2, <1>3 DEF GuestEdit

LEMMA ReplaceKeeps ==
  ASSUME TransferInv, NEW c \in Edits, GuestReplace(c)
  PROVE  TransferInv'
PROOF
  <1>1. TransferTypes /\ StepsTold /\ OrderKept /\ ServiceKept
    BY DEF TransferInv
  <1>2. PICK ok \in {"yes", "no"} :
          /\ editing = <<c>> /\ editing' = <<>>
          /\ replies' = Append(replies, [call |-> c, step |-> "edit", ok |-> ok])
          /\ DOMAIN files' = DOMAIN files
          /\ \/ applied' = applied \cup {c} /\ UNCHANGED litter
             \/ ok = "no" /\ applied' = applied /\ litter' \in {litter, litter \cup {c}}
          /\ UNCHANGED <<step, result, channel, pending, frames, offset, wire, agent, temps, dirs, seen>>
    BY DEF GuestReplace, client, writer
  <1>3. OnTheWay' = OnTheWay
    BY <1>2 DEF OnTheWay
  <1>4. Unserved # <<>> /\ Head(Unserved) = <<c, "edit">> /\ Tail(Unserved) = Asked(OnTheWay)
    BY <1>1, <1>2, UnservedWhenEditing
  <1>5. c \in Calls /\ "edit" \in Steps /\ Len(Unserved) \in Nat /\ 1 <= Len(Unserved) /\ Unserved[1] = <<c, "edit">>
    BY <1>1, <1>4, FirstUnserved
  <1>6. TransferTypes'
    <2>1. replies' \in Seq(Answers)
      BY <1>1, <1>2, <1>5, RepliesGrow
    <2> QED BY <1>1, <1>2, <1>5, <2>1 DEF TransferTypes
  <1>7. Unserved' = Tail(Unserved)
    <2>1. (Unserved = Asked(OnTheWay))'
      <3>1. (TransferTypes /\ editing = <<>>)'
        BY <1>2, <1>6
      <3> QED BY <3>1, UnservedWhenIdle, PTL
    <2> QED BY <1>3, <1>4, <2>1
  <1>8. AnswersFirst(c, "edit", ok)
    BY <1>1, <1>2, <1>3, <1>4, <1>7 DEF AnswersFirst, client, OrderKept, Whole
  <1>9. SparesOthers(c)
    BY <1>1, <1>2 DEF SparesOthers, TransferTypes
  <1>10. Ready(c, "edit")
    <2>1. 1 \in 1 .. Len(Unserved)
      BY <1>5
    <2>2. Ready(Unserved[1][1], Unserved[1][2])
      BY <1>1, <2>1 DEF ServiceKept
    <2> QED BY <1>5, <2>2
  <1>11. Truthful([call |-> c, step |-> "edit", ok |-> ok])'
    BY <1>2, <1>10 DEF Truthful, Ready, NextStep
  <1>12. OrderKept' /\ ServiceKept'
    BY <1>1, <1>8, <1>9, <1>11, AnswerKeepsOrder, AnswerKeepsService
  <1>13. StepsTold'
    BY <1>1, <1>2 DEF StepsTold
  <1> QED BY <1>6, <1>12, <1>13 DEF TransferInv

----------------------------------------------------------------------------
(* the end of the agent, and the commands of the turn                      *)

LEMMA AgentExitKeeps ==
  ASSUME TransferInv, AgentExits
  PROVE  TransferInv'
PROOF
  <1>1. TransferTypes /\ StepsTold /\ OrderKept /\ ServiceKept
    BY DEF TransferInv
  <1>2. /\ agent' = "gone" /\ DOMAIN temps' = {}
        /\ litter \subseteq litter' /\ litter' \subseteq litter \cup DOMAIN temps
        /\ UNCHANGED <<step, result, channel, pending, frames, offset, wire, replies, editing, dirs, files, applied, seen>>
    BY DEF AgentExits, Transfers, client, writer
  <1>3. OnTheWay' = OnTheWay /\ Unserved' = Unserved
    BY <1>2 DEF OnTheWay, Unserved
  <1>4. TransferTypes'
    BY <1>1, <1>2 DEF TransferTypes
  <1>5. OrderKept'
    BY <1>1, <1>2, <1>3, OrderFrame
  <1>6. \A d, s : Ready(d, s) => Ready(d, s)'
    BY <1>2 DEF Ready
  <1>7. ServiceKept'
    <2>1. DOMAIN temps' \subseteq DOMAIN temps
      BY <1>2
    <2> QED BY <1>1, <1>2, <1>3, <1>6, <2>1, ServiceFrame
  <1>8. StepsTold'
    BY <1>1, <1>2 DEF StepsTold
  <1> QED BY <1>4, <1>5, <1>7, <1>8 DEF TransferInv

LEMMA ShellKeeps ==
  ASSUME TransferInv, NEW p \in DOMAIN files, ShellWrites(p)
  PROVE  TransferInv'
PROOF
  <1>1. TransferTypes /\ StepsTold /\ OrderKept /\ ServiceKept
    BY DEF TransferInv
  <1>2. /\ DOMAIN files' = DOMAIN files /\ dirs \subseteq dirs'
        /\ UNCHANGED <<step, result, channel, pending, frames, offset, wire, replies, agent, editing, temps, litter, applied, seen>>
    BY DEF ShellWrites, client, writer
  <1>3. OnTheWay' = OnTheWay /\ Unserved' = Unserved
    BY <1>2 DEF OnTheWay, Unserved
  <1>4. TransferTypes'
    BY <1>1, <1>2 DEF TransferTypes
  <1>5. OrderKept'
    BY <1>1, <1>2, <1>3, OrderFrame
  <1>6. \A d, s : Ready(d, s) => Ready(d, s)'
    BY <1>2 DEF Ready
  <1>8. ServiceKept'
    <2>1. agent' = "gone" => DOMAIN temps' = {}
      BY <1>1, <1>2 DEF ServiceKept
    <2> QED BY <1>1, <1>2, <1>3, <1>6, <2>1, ServiceFrame
  <1>9. StepsTold'
    BY <1>1, <1>2 DEF StepsTold
  <1> QED BY <1>4, <1>5, <1>8, <1>9 DEF TransferInv

\* Nothing of the invariant depends on the agent standing in a command's request.
LEMMA HeldKeeps ==
  ASSUME TransferInv, AgentHeld \/ AgentFreed
  PROVE  TransferInv'
PROOF
  <1>1. TransferTypes /\ StepsTold /\ OrderKept /\ ServiceKept
    BY DEF TransferInv
  <1>2. UNCHANGED <<step, result, channel, pending, frames, offset, wire, replies, agent, editing, temps, litter, dirs, files, applied, seen>>
    BY DEF AgentHeld, AgentFreed, client, writer, service
  <1>3. OnTheWay' = OnTheWay /\ Unserved' = Unserved
    BY <1>2 DEF OnTheWay, Unserved
  <1>4. TransferTypes'
    BY <1>1, <1>2 DEF TransferTypes
  <1>5. OrderKept'
    BY <1>1, <1>2, <1>3, OrderFrame
  <1>6. \A d, s : Ready(d, s) => Ready(d, s)'
    BY <1>2 DEF Ready
  <1>7. ServiceKept'
    <2>1. agent' = "gone" => DOMAIN temps' = {}
      BY <1>1, <1>2 DEF ServiceKept
    <2> QED BY <1>1, <1>2, <1>3, <1>6, <2>1, ServiceFrame
  <1>8. StepsTold'
    BY <1>1, <1>2 DEF StepsTold
  <1> QED BY <1>4, <1>5, <1>7, <1>8 DEF TransferInv

----------------------------------------------------------------------------
(* the calls and the channel                                               *)

\* What a call does after an answer to a request of its own.
LEMMA NextStepShape ==
  ASSUME NEW c, NEW s, <<c, s>> \in Requests, NEW ok \in BOOLEAN
  PROVE  /\ NextStep(s, ok) \in Steps /\ Verdict(s, ok) \in {"none", "ok", "failed"}
         /\ Verdict(s, ok) = "none" => <<c, NextStep(s, ok)>> \in Requests
         /\ Verdict(s, ok) # "none" => NextStep(s, ok) = "over"
         /\ Verdict(s, ok) = "ok" => ok /\ s # "abort" /\ NextStep(s, TRUE) = "over"
         /\ ~ok => NextStep(s, ok) \in {"abort", "over"}
         /\ ~ok /\ NextStep(s, ok) = "over" => s \notin Uploading
PROOF
  <1>1. \/ c \in Writes /\ s \in {"begin", "chunk1", "chunk2", "commit", "abort"}
        \/ c \in Edits /\ s \in {"read", "edit"}
        \/ c \in Moves /\ s = "move"
        \/ c \in Removes /\ s = "remove"
    BY DEF Requests, Uploading
  <1>2. CASE ok
    <2>1. Verdict(s, ok) = IF NextStep(s, TRUE) # "over" THEN "none" ELSE IF s # "abort" THEN "ok" ELSE "failed"
      BY <1>2 DEF Verdict
    <2>2. CASE c \in Writes /\ s \in {"begin", "chunk1", "chunk2", "commit", "abort"}
      BY <1>2, <2>1, <2>2 DEF NextStep, Requests, Uploading, Steps
    <2>3. CASE c \in Edits /\ s \in {"read", "edit"}
      BY <1>2, <2>1, <2>3 DEF NextStep, Requests, Uploading, Steps
    <2>4. CASE s \in {"move", "remove"}
      BY <1>2, <2>1, <2>4 DEF NextStep, Steps
    <2> QED BY <1>1, <2>2, <2>3, <2>4
  <1>3. CASE ~ok
    <2>1. /\ NextStep(s, ok) = IF s \in Uploading THEN "abort" ELSE "over"
          /\ Verdict(s, ok) = IF NextStep(s, ok) # "over" THEN "none" ELSE "failed"
      BY <1>3 DEF Verdict, NextStep
    <2>2. CASE c \in Writes /\ s \in {"begin", "chunk1", "chunk2", "commit", "abort"}
      BY <1>3, <2>1, <2>2 DEF Requests, Uploading, Steps
    <2>3. CASE s \in {"read", "edit", "move", "remove"}
      BY <1>3, <2>1, <2>3 DEF Uploading, Steps
    <2> QED BY <1>1, <2>2, <2>3
  <1> QED BY <1>2, <1>3

LEMMA AnsweredShape ==
  ASSUME TransferTypes, StepsTold, NEW S, \A c \in S : c \in Calls /\ result[c] = "none",
         NEW ok \in BOOLEAN, Answered(S, ok)
  PROVE  /\ step' \in [Calls -> Steps] /\ result' \in [Calls -> {"idle", "none", "ok", "failed"}]
         /\ \A c \in S : step'[c] = NextStep(step[c], ok) /\ result'[c] = Verdict(step[c], ok)
         /\ \A c \in Calls \ S : step'[c] = step[c] /\ result'[c] = result[c]
         /\ StepsTold'
PROOF
  <1>1. /\ step' = [c \in Calls |-> IF c \in S THEN NextStep(step[c], ok) ELSE step[c]]
        /\ result' = [c \in Calls |-> IF c \in S THEN Verdict(step[c], ok) ELSE result[c]]
    BY DEF Answered
  <1>2. step \in [Calls -> Steps] /\ result \in [Calls -> {"idle", "none", "ok", "failed"}]
    BY DEF TransferTypes
  <1>3. ASSUME NEW c \in S
        PROVE  /\ NextStep(step[c], ok) \in Steps /\ Verdict(step[c], ok) \in {"none", "ok", "failed"}
               /\ Verdict(step[c], ok) = "none" => <<c, NextStep(step[c], ok)>> \in Requests
               /\ Verdict(step[c], ok) # "none" => NextStep(step[c], ok) = "over"
    <2>1. <<c, step[c]>> \in Requests
      BY DEF StepsTold
    <2> QED BY <2>1, NextStepShape
  <1>4. step' \in [Calls -> Steps] /\ result' \in [Calls -> {"idle", "none", "ok", "failed"}]
    BY <1>1, <1>2, <1>3
  <1>5. /\ \A c \in S : step'[c] = NextStep(step[c], ok) /\ result'[c] = Verdict(step[c], ok)
        /\ \A c \in Calls \ S : step'[c] = step[c] /\ result'[c] = result[c]
    BY <1>1
  <1>6. StepsTold'
    <2> SUFFICES ASSUME NEW c \in Calls
                 PROVE  /\ result'[c] = "none" => <<c, step'[c]>> \in Requests
                        /\ result'[c] \in {"ok", "failed"} => step'[c] = "over"
                        /\ result'[c] = "idle" => step'[c] = FirstStep(c)
      BY DEF StepsTold
    <2>1. CASE c \in S
      BY <1>3, <1>5, <2>1
    <2>2. CASE c \notin S
      BY <1>5, <2>2 DEF StepsTold
    <2> QED BY <2>1, <2>2
  <1> QED BY <1>4, <1>5, <1>6

LEMMA SourceFailsKeeps ==
  ASSUME TransferInv, NEW c \in Calls, SourceFails(c)
  PROVE  TransferInv'
PROOF
  <1>1. TransferTypes /\ StepsTold /\ OrderKept /\ ServiceKept
    BY DEF TransferInv
  <1>2. /\ result[c] = "none" /\ c \notin Range(pending) /\ step[c] \in {"chunk1", "chunk2", "commit"}
        /\ step' = [step EXCEPT ![c] = "abort"]
        /\ UNCHANGED <<result, channel, pending, frames, offset, wire, replies, agent, editing, temps, litter, dirs, files, applied, seen>>
    BY DEF SourceFails, Open, Waits, writer, guest, service
  <1>3. OnTheWay' = OnTheWay /\ Unserved' = Unserved
    BY <1>2 DEF OnTheWay, Unserved
  <1>4. step' \in [Calls -> Steps] /\ step'[c] = "abort" /\ \A d \in Calls : d # c => step'[d] = step[d]
    BY <1>1, <1>2 DEF TransferTypes, Steps
  <1>5. TransferTypes'
    BY <1>1, <1>2, <1>4 DEF TransferTypes
  <1>6. StepsTold'
    <2>1. <<c, step[c]>> \in Requests
      BY <1>1, <1>2 DEF StepsTold
    <2>2. <<c, "abort">> \in Requests
      BY <1>2, <2>1 DEF Requests
    <2> QED BY <1>1, <1>2, <1>4, <2>2 DEF StepsTold
  <1>7. OrderKept'
    <2>1. ASSUME channel = "open" PROVE QueueKept'
      <3>1. QueueKept
        BY <1>1, <2>1 DEF OrderKept
      <3>2. pending \in Seq(Calls) /\ Len(pending) \in Nat /\ DOMAIN pending = 1 .. Len(pending)
        BY <1>1, LenProperties DEF TransferTypes
      <3>3. \A i \in 1 .. Len(pending) : pending[i] \in Calls /\ pending[i] # c
        BY <1>2, <3>2, ElementOfSeq DEF Range
      <3>4. \A i \in 1 .. Len(pending) : step'[pending[i]] = step[pending[i]]
        BY <1>4, <3>3
      <3>5. Len(replies) \in Nat /\ Len(Unserved) \in Nat
        BY <1>1, UnservedShape, LenProperties DEF TransferTypes
      <3>6. /\ \A i \in 1 .. Len(replies) : i \in 1 .. Len(pending)
            /\ \A i \in 1 .. Len(Unserved) : Len(replies) + i \in 1 .. Len(pending)
        BY <3>1, <3>5 DEF QueueKept
      <3> QED BY <1>2, <1>3, <3>1, <3>4, <3>6 DEF QueueKept
    <2> QED BY <1>1, <1>2, <1>3, <2>1 DEF OrderKept, Whole
  <1>8. ServiceKept'
    <2>1. \A d, s : Ready(d, s) => Ready(d, s)'
      BY <1>2 DEF Ready
    <2>2. ASSUME NEW i \in 1 .. Len(Unserved') PROVE Ready(Unserved[i][1], Unserved[i][2])'
      <3>1. Ready(Unserved[i][1], Unserved[i][2])
        BY <1>1, <1>3, <2>2 DEF ServiceKept
      <3> QED BY <1>2, <1>3, <3>1 DEF Ready
    <2>3. ASSUME channel = "open", NEW i \in 1 .. Len(replies') PROVE Truthful(replies[i])'
      <3>1. Truthful(replies[i])
        BY <1>1, <1>2, <2>3 DEF ServiceKept
      <3> QED BY <1>2, <3>1 DEF Truthful, Ready
    <2>4. ASSUME channel = "open", NEW d \in Calls \ Range(pending') PROVE AtRest(d)'
      <3>1. AtRest(d)
        BY <1>1, <1>2, <2>4 DEF ServiceKept
      <3>2. CASE d = c
        BY <1>4, <3>2 DEF AtRest, Ready
      <3>3. CASE d # c
        BY <1>2, <1>4, <3>1, <3>3 DEF AtRest, Ready
      <3> QED BY <3>2, <3>3
    <2> QED BY <1>1, <1>2, <2>2, <2>3, <2>4 DEF ServiceKept
  <1> QED BY <1>5, <1>6, <1>7, <1>8 DEF TransferInv

LEMMA DrainKeeps ==
  ASSUME TransferInv, Drain
  PROVE  TransferInv'
PROOF
  <1>1. TransferTypes /\ StepsTold /\ OrderKept /\ ServiceKept
    BY DEF TransferInv
  <1>2. /\ channel = "open"
        /\ UNCHANGED <<step, result, channel, pending, replies, agent, editing, temps, litter, dirs, files, applied, seen>>
    BY DEF Drain, client, guest, service
  <1>3. PICK n \in 1 .. 2 * Len(frames) - offset : Flush(frames, n)
    BY DEF Drain
  <1>4. n \in 0 .. 2 * Len(frames) - offset
    BY <1>1, OnTheWayShape DEF TransferTypes
  <1>5. /\ frames' \in Seq(Requests) /\ offset' \in {0, 1} /\ (offset' = 1 => frames' # <<>>)
        /\ wire' \in Seq(Requests \X {0, 1}) /\ OnTheWay' = OnTheWay
    BY <1>1, <1>3, <1>4, DrainedOrder
  <1>6. Unserved' = Unserved
    BY <1>2, <1>5 DEF Unserved
  <1>7. TransferTypes'
    BY <1>1, <1>2, <1>5 DEF TransferTypes
  <1>8. OrderKept'
    BY <1>1, <1>2, <1>5, <1>6, OrderFrame
  <1>9. ServiceKept'
    <2>1. \A d, s : Ready(d, s) => Ready(d, s)'
      BY <1>2 DEF Ready
    <2>2. agent' = "gone" => DOMAIN temps' = {}
      BY <1>1, <1>2 DEF ServiceKept
    <2> QED BY <1>1, <1>2, <1>6, <2>1, <2>2, ServiceFrame
  <1>10. StepsTold'
    BY <1>1, <1>2 DEF StepsTold
  <1> QED BY <1>7, <1>8, <1>9, <1>10 DEF TransferInv

LEMMA RequestKeeps ==
  ASSUME TransferInv, NEW c \in Calls, Request(c)
  PROVE  TransferInv'
PROOF
  <1> DEFINE r == <<c, step[c]>>
  <1>1. TransferTypes /\ StepsTold /\ OrderKept /\ ServiceKept
    BY DEF TransferInv
  <1>2. /\ result[c] = "none" /\ c \notin Range(pending) /\ channel = "open"
        /\ pending' = Append(pending, c)
        /\ UNCHANGED <<step, result, channel, replies, agent, editing, temps, litter, dirs, files, applied, seen>>
    BY DEF Request, Open, Waits, client, guest, service
  <1>3. PICK n \in 0 .. 2 * Len(Append(frames, r)) - offset : Flush(Append(frames, r), n)
    BY DEF Request
  <1>4. r \in Requests
    BY <1>1, <1>2 DEF StepsTold
  <1>5. QueueKept /\ Whole(OnTheWay) /\ Len(OnTheWay) % 2 = 0
    BY <1>1, <1>2 DEF OrderKept, QueueKept
  <1> HIDE DEF r
  <1>6. /\ frames' \in Seq(Requests) /\ offset' \in {0, 1} /\ (offset' = 1 => frames' # <<>>)
        /\ wire' \in Seq(Requests \X {0, 1})
        /\ Whole(OnTheWay)' /\ Len(OnTheWay)' % 2 = 0
        /\ Unserved' = Append(Unserved, r)
    BY <1>1, <1>2, <1>3, <1>4, <1>5, RequestedOrder
  <1>7. /\ pending \in Seq(Calls) /\ Len(pending) \in Nat /\ DOMAIN pending = 1 .. Len(pending)
        /\ \A i \in 1 .. Len(pending) : pending[i] \in Calls /\ pending[i] # c
        /\ pending' \in Seq(Calls) /\ Len(pending') = Len(pending) + 1 /\ DOMAIN pending' = 1 .. Len(pending')
        /\ \A i \in 1 .. Len(pending) : pending'[i] = pending[i]
        /\ pending'[Len(pending) + 1] = c
    <2>1. pending \in Seq(Calls)
      BY <1>1 DEF TransferTypes
    <2>2. Len(pending) \in Nat /\ DOMAIN pending = 1 .. Len(pending)
      BY <2>1, LenProperties
    <2>3. \A i \in 1 .. Len(pending) : pending[i] \in Calls /\ pending[i] # c
      BY <1>2, <2>1, <2>2, ElementOfSeq DEF Range
    <2>4. /\ pending' \in Seq(Calls) /\ Len(pending') = Len(pending) + 1
          /\ \A i \in 1 .. Len(pending) : pending'[i] = pending[i]
          /\ pending'[Len(pending) + 1] = c
      BY <1>2, <2>1, AppendProperties
    <2> QED BY <2>1, <2>2, <2>3, <2>4, LenProperties
  <1>8. /\ Len(Unserved) \in Nat /\ Len(Unserved') = Len(Unserved) + 1
        /\ \A i \in 1 .. Len(Unserved) : Unserved'[i] = Unserved[i]
        /\ Unserved'[Len(Unserved) + 1] = r
    BY <1>1, <1>4, <1>6, UnservedShape, AppendProperties
  <1>9. Len(replies) \in Nat
    BY <1>1, LenProperties DEF TransferTypes
  <1>10. TransferTypes'
    BY <1>1, <1>2, <1>6, <1>7 DEF TransferTypes
  <1>11. \A i \in 1 .. Len(Unserved) : Unserved[i][1] # c
    <2> TAKE i \in 1 .. Len(Unserved)
    <2>1. Len(replies) + i \in 1 .. Len(pending)
      BY <1>5, <1>8, <1>9 DEF QueueKept
    <2>2. <<pending[Len(replies) + i], step[pending[Len(replies) + i]]>> = Unserved[i]
      BY <1>5 DEF QueueKept
    <2>3. Unserved[i][1] = pending[Len(replies) + i]
      BY <2>2
    <2> QED BY <1>7, <2>1, <2>3
  <1>12. \A i, j \in 1 .. Len(Unserved') : Unserved'[i][1] = Unserved'[j][1] => i = j
    <2> TAKE i \in 1 .. Len(Unserved'), j \in 1 .. Len(Unserved')
    <2>1. r[1] = c
      BY DEF r
    <2>2. /\ i \in 1 .. Len(Unserved) \/ i = Len(Unserved) + 1
          /\ j \in 1 .. Len(Unserved) \/ j = Len(Unserved) + 1
      BY <1>8
    <2>3. CASE i \in 1 .. Len(Unserved) /\ j \in 1 .. Len(Unserved)
      BY <1>1, <1>8, <2>3 DEF OrderKept
    <2>4. CASE i = Len(Unserved) + 1 /\ j = Len(Unserved) + 1
      BY <2>4
    <2>5. CASE i \in 1 .. Len(Unserved) /\ j = Len(Unserved) + 1
      BY <1>8, <1>11, <2>1, <2>5
    <2>6. CASE i = Len(Unserved) + 1 /\ j \in 1 .. Len(Unserved)
      BY <1>8, <1>11, <2>1, <2>6
    <2> QED BY <2>2, <2>3, <2>4, <2>5, <2>6
  <1>13. QueueKept'
    <2>1. Len(pending') = Len(replies') + Len(Unserved')
      BY <1>2, <1>5, <1>7, <1>8, <1>9 DEF QueueKept
    <2>2. ASSUME NEW i \in 1 .. Len(replies')
          PROVE  <<pending'[i], step'[pending'[i]]>> = <<replies'[i].call, replies'[i].step>>
      <3>1. i \in 1 .. Len(pending) /\ i \in 1 .. Len(replies)
        BY <1>2, <1>5, <1>8, <1>9 DEF QueueKept
      <3> QED BY <1>2, <1>5, <1>7, <3>1 DEF QueueKept
    <2>3. ASSUME NEW i \in 1 .. Len(Unserved')
          PROVE  <<pending'[Len(replies') + i], step'[pending'[Len(replies') + i]]>> = Unserved'[i]
      <3>1. CASE i \in 1 .. Len(Unserved)
        <4>1. Len(replies) + i \in 1 .. Len(pending)
          BY <1>5, <1>8, <1>9, <3>1 DEF QueueKept
        <4>2. <<pending[Len(replies) + i], step[pending[Len(replies) + i]]>> = Unserved[i]
          BY <1>5, <3>1 DEF QueueKept
        <4> QED BY <1>2, <1>7, <1>8, <3>1, <4>1, <4>2
      <3>2. CASE i = Len(Unserved) + 1
        <4>1. Len(replies) + i = Len(pending) + 1
          BY <1>5, <1>8, <1>9, <3>2 DEF QueueKept
        <4> QED BY <1>2, <1>7, <1>8, <3>2, <4>1 DEF r
      <3> QED BY <1>8, <3>1, <3>2
    <2>4. \A i, j \in 1 .. Len(pending') : pending'[i] = pending'[j] => i = j
      BY <1>5, <1>7 DEF QueueKept
    <2>5. \A i \in 1 .. Len(pending') : result'[pending'[i]] = "none"
      BY <1>2, <1>5, <1>7 DEF QueueKept
    <2> QED BY <1>6, <2>1, <2>2, <2>3, <2>4, <2>5 DEF QueueKept
  <1>14. OrderKept'
    BY <1>2, <1>6, <1>12, <1>13 DEF OrderKept
  <1>15. Ready(c, step[c])
    BY <1>1, <1>2 DEF ServiceKept, AtRest
  <1>16. ServiceKept'
    <2>1. ASSUME NEW i \in 1 .. Len(Unserved') PROVE Ready(Unserved[i][1], Unserved[i][2])'
      <3>1. CASE i \in 1 .. Len(Unserved)
        <4>1. Ready(Unserved[i][1], Unserved[i][2]) /\ Unserved'[i] = Unserved[i]
          BY <1>1, <1>8, <3>1 DEF ServiceKept
        <4> QED BY <1>2, <4>1 DEF Ready
      <3>2. CASE i = Len(Unserved) + 1
        BY <1>2, <1>8, <1>15, <3>2 DEF Ready, r
      <3> QED BY <1>8, <3>1, <3>2
    <2>2. ASSUME NEW i \in 1 .. Len(replies') PROVE Truthful(replies[i])'
      <3>1. Truthful(replies[i])
        BY <1>1, <1>2, <2>2 DEF ServiceKept
      <3> QED BY <1>2, <3>1 DEF Truthful, Ready
    <2>3. ASSUME NEW d \in Calls \ Range(pending') PROVE AtRest(d)'
      <3>1. d \notin Range(pending)
        <4>1. \A i \in 1 .. Len(pending) : i \in DOMAIN pending' /\ pending'[i] = pending[i]
          BY <1>7
        <4> QED BY <1>7, <2>3, <4>1 DEF Range
      <3>2. AtRest(d)
        BY <1>1, <1>2, <3>1 DEF ServiceKept
      <3> QED BY <1>2, <3>2 DEF AtRest, Ready
    <2> QED BY <1>1, <1>2, <2>1, <2>2, <2>3 DEF ServiceKept
  <1>17. StepsTold'
    BY <1>1, <1>2 DEF StepsTold
  <1> QED BY <1>10, <1>14, <1>16, <1>17 DEF TransferInv

LEMMA RequestClosedKeeps ==
  ASSUME TransferInv, NEW c \in Calls, RequestClosed(c)
  PROVE  TransferInv'
PROOF
  <1>1. TransferTypes /\ StepsTold /\ OrderKept /\ ServiceKept
    BY DEF TransferInv
  <1>2. /\ result[c] = "none" /\ channel = "closed" /\ Answered({c}, FALSE)
        /\ UNCHANGED <<channel, pending, frames, offset, wire, replies, agent, editing, temps, litter, dirs, files, applied, seen>>
    BY DEF RequestClosed, Open, writer, guest, service
  <1>3. /\ step' \in [Calls -> Steps] /\ result' \in [Calls -> {"idle", "none", "ok", "failed"}]
        /\ result'[c] = Verdict(step[c], FALSE)
        /\ \A d \in Calls \ {c} : result'[d] = result[d]
        /\ StepsTold'
    BY <1>1, <1>2, AnsweredShape
  <1>4. OnTheWay' = OnTheWay /\ Unserved' = Unserved
    BY <1>2 DEF OnTheWay, Unserved
  <1>5. TransferTypes'
    BY <1>1, <1>2, <1>3 DEF TransferTypes
  <1>6. OrderKept'
    BY <1>1, <1>2, <1>4 DEF OrderKept, Whole
  <1>7. ServiceKept'
    <2>1. result'[c] # "ok"
      <3>1. <<c, step[c]>> \in Requests
        BY <1>1, <1>2 DEF StepsTold
      <3> QED BY <1>3, <3>1, NextStepShape
    <2>2. ASSUME NEW i \in 1 .. Len(Unserved') PROVE Ready(Unserved[i][1], Unserved[i][2])'
      <3>1. Ready(Unserved[i][1], Unserved[i][2])
        BY <1>1, <1>4, <2>2 DEF ServiceKept
      <3> QED BY <1>2, <1>4, <3>1 DEF Ready
    <2> QED BY <1>1, <1>2, <1>3, <2>1, <2>2 DEF ServiceKept
  <1> QED BY <1>3, <1>5, <1>6, <1>7 DEF TransferInv

LEMMA ChannelFailsKeeps ==
  ASSUME TransferInv, ChannelFails
  PROVE  TransferInv'
PROOF
  <1>1. TransferTypes /\ StepsTold /\ OrderKept /\ ServiceKept /\ Whole(OnTheWay)
    BY DEF TransferInv, OrderKept
  <1>2. /\ channel = "open" /\ channel' = "closed" /\ Answered(Range(pending), FALSE)
        /\ pending' = <<>> /\ frames' = <<>> /\ offset' = 0
        /\ UNCHANGED <<replies, agent, editing, temps, litter, dirs, files, applied, seen>>
    BY DEF ChannelFails, guest, service
  <1>3. PICK n \in 0 .. Len(wire) : wire' = SubSeq(wire, 1, n)
    BY DEF ChannelFails
  <1>4. \A c \in Range(pending) : c \in Calls /\ result[c] = "none"
    <2>1. pending \in Seq(Calls) /\ DOMAIN pending = 1 .. Len(pending)
      BY <1>1, LenProperties DEF TransferTypes
    <2>2. \A i \in 1 .. Len(pending) : pending[i] \in Calls /\ result[pending[i]] = "none"
      BY <1>1, <1>2, <2>1, ElementOfSeq DEF OrderKept, QueueKept
    <2> QED BY <2>1, <2>2 DEF Range
  <1>5. /\ step' \in [Calls -> Steps] /\ result' \in [Calls -> {"idle", "none", "ok", "failed"}]
        /\ \A c \in Range(pending) : result'[c] = Verdict(step[c], FALSE)
        /\ \A c \in Calls \ Range(pending) : result'[c] = result[c]
        /\ StepsTold'
    <2> DEFINE S == Range(pending)
    <2>1. (\A c \in S : c \in Calls /\ result[c] = "none") /\ Answered(S, FALSE)
      BY <1>2, <1>4
    <2> HIDE DEF S
    <2>2. /\ step' \in [Calls -> Steps] /\ result' \in [Calls -> {"idle", "none", "ok", "failed"}]
          /\ \A c \in S : result'[c] = Verdict(step[c], FALSE)
          /\ \A c \in Calls \ S : result'[c] = result[c]
          /\ StepsTold'
      BY <1>1, <2>1, AnsweredShape
    <2> QED BY <2>2 DEF S
  <1>6. /\ wire' \in Seq(Requests \X {0, 1}) /\ Whole(OnTheWay)'
        /\ Len(Unserved') \in Nat /\ Len(Unserved') <= Len(Unserved)
        /\ \A i \in 1 .. Len(Unserved') : Unserved'[i] = Unserved[i]
    BY <1>1, <1>2, <1>3, CutOrder
  <1>7. TransferTypes'
    <2>1. <<>> \in Seq(Calls) /\ <<>> \in Seq(Requests)
      BY EmptySeq
    <2> QED BY <1>1, <1>2, <1>5, <1>6, <2>1 DEF TransferTypes
  <1>8. Len(Unserved) \in Nat /\ \A i \in 1 .. Len(Unserved') : i \in 1 .. Len(Unserved)
    BY <1>1, <1>6, UnservedShape
  <1>9. OrderKept'
    <2>1. \A i, j \in 1 .. Len(Unserved') : Unserved'[i][1] = Unserved'[j][1] => i = j
      BY <1>1, <1>6, <1>8 DEF OrderKept
    <2> QED BY <1>2, <1>6, <2>1 DEF OrderKept
  <1>10. ServiceKept'
    <2>1. ASSUME NEW c \in Calls, result'[c] = "ok" PROVE c \in applied'
      <3>1. CASE c \in Range(pending)
        <4>1. <<c, step[c]>> \in Requests
          BY <1>1, <1>4, <3>1 DEF StepsTold
        <4>2. Verdict(step[c], FALSE) # "ok"
          BY <4>1, NextStepShape
        <4> QED BY <1>5, <2>1, <3>1, <4>2
      <3>2. CASE c \notin Range(pending)
        BY <1>1, <1>2, <1>5, <2>1, <3>2 DEF ServiceKept
      <3> QED BY <3>1, <3>2
    <2>2. ASSUME NEW i \in 1 .. Len(Unserved') PROVE Ready(Unserved[i][1], Unserved[i][2])'
      <3>1. Ready(Unserved[i][1], Unserved[i][2]) /\ Unserved'[i] = Unserved[i]
        BY <1>1, <1>6, <1>8, <2>2 DEF ServiceKept
      <3> QED BY <1>2, <3>1 DEF Ready
    <2> QED BY <1>1, <1>2, <2>1, <2>2 DEF ServiceKept
  <1> QED BY <1>5, <1>7, <1>9, <1>10 DEF TransferInv

\* The answer that is received is that of the call that waits longest.
LEMMA FirstReply ==
  ASSUME TransferTypes, OrderKept, channel = "open", replies # <<>>, pending # <<>>
  PROVE  /\ Head(pending) \in Calls /\ Head(replies) \in Answers
         /\ Head(pending) = Head(replies).call /\ step[Head(pending)] = Head(replies).step
         /\ result[Head(pending)] = "none"
         /\ Len(pending) \in Nat /\ 1 <= Len(pending) /\ Len(replies) \in Nat /\ 1 <= Len(replies)
         /\ Head(replies) = replies[1]
         /\ Tail(pending) \in Seq(Calls) /\ Len(Tail(pending)) = Len(pending) - 1
         /\ \A i \in 1 .. Len(pending) - 1 :
              Tail(pending)[i] = pending[i + 1] /\ pending[i + 1] # Head(pending)
         /\ Tail(replies) \in Seq(Answers) /\ Len(Tail(replies)) = Len(replies) - 1
         /\ \A i \in 1 .. Len(replies) - 1 : Tail(replies)[i] = replies[i + 1]
         /\ \A d : d \notin Range(Tail(pending)) => d = Head(pending) \/ d \notin Range(pending)
PROOF
  <1>1. QueueKept /\ pending \in Seq(Calls) /\ replies \in Seq(Answers)
    BY DEF OrderKept, TransferTypes
  <1>2. /\ Len(pending) \in Nat /\ 1 <= Len(pending) /\ DOMAIN pending = 1 .. Len(pending)
        /\ Len(replies) \in Nat /\ 1 <= Len(replies)
    BY <1>1, LenProperties, EmptySeq
  <1>3. /\ Head(pending) \in Calls /\ Head(replies) \in Answers
        /\ Head(pending) = pending[1] /\ Head(replies) = replies[1]
    BY <1>1, HeadTailProperties
  <1>4. /\ Tail(pending) \in Seq(Calls) /\ Len(Tail(pending)) = Len(pending) - 1
        /\ \A i \in 1 .. Len(Tail(pending)) : Tail(pending)[i] = pending[i + 1]
    BY <1>1, HeadTailProperties
  <1>5. /\ Tail(replies) \in Seq(Answers) /\ Len(Tail(replies)) = Len(replies) - 1
        /\ \A i \in 1 .. Len(Tail(replies)) : Tail(replies)[i] = replies[i + 1]
    BY <1>1, HeadTailProperties
  <1>6. 1 \in 1 .. Len(replies) /\ 1 \in 1 .. Len(pending)
    BY <1>2
  <1>7. /\ <<pending[1], step[pending[1]]>> = <<replies[1].call, replies[1].step>>
        /\ result[pending[1]] = "none"
    BY <1>1, <1>6 DEF QueueKept
  <1>8. \A i \in 1 .. Len(pending) - 1 : i + 1 \in 1 .. Len(pending) /\ i + 1 # 1
    BY <1>2
  <1>9. \A i \in 1 .. Len(pending) - 1 : pending[i + 1] # pending[1]
    BY <1>1, <1>6, <1>8 DEF QueueKept
  <1>10. ASSUME NEW d, d \notin Range(Tail(pending)), d # Head(pending) PROVE d \notin Range(pending)
    <2> SUFFICES ASSUME NEW i \in 1 .. Len(pending), pending[i] = d PROVE FALSE
      BY <1>2 DEF Range
    <2>1. i # 1
      BY <1>3, <1>10
    <2> DEFINE j == i - 1
    <2>2. j \in 1 .. Len(Tail(pending)) /\ j + 1 = i
      BY <1>2, <1>4, <2>1
    <2> HIDE DEF j
    <2>3. Tail(pending)[j] = d /\ j \in DOMAIN Tail(pending)
      BY <1>4, <2>2, LenProperties
    <2> QED BY <1>10, <2>3 DEF Range
  <1> QED BY <1>2, <1>3, <1>4, <1>5, <1>7, <1>9, <1>10

LEMMA ReceivedKeeps ==
  ASSUME TransferInv, Receive
  PROVE  TransferInv'
PROOF
  <1>1. TransferTypes /\ StepsTold /\ OrderKept /\ ServiceKept
    BY DEF TransferInv
  <1>2. /\ channel = "open" /\ replies # <<>> /\ pending # <<>>
        /\ replies' = Tail(replies) /\ pending' = Tail(pending)
        /\ UNCHANGED <<channel, frames, offset, wire, agent, editing, temps, litter, dirs, files, applied, seen>>
    BY DEF Receive, writer, guest, service
  <1>0. PICK c \in Calls, r \in Answers : c = Head(pending) /\ r = Head(replies)
    BY <1>1, <1>2, FirstReply
  <1>3. PICK ok \in BOOLEAN : Answered({c}, ok) /\ (ok => r.ok = "yes")
    BY <1>0 DEF Receive
  <1>4. /\ c \in Calls /\ r \in Answers /\ c = r.call /\ step[c] = r.step /\ result[c] = "none"
        /\ Len(pending) \in Nat /\ 1 <= Len(pending) /\ Len(replies) \in Nat /\ 1 <= Len(replies)
        /\ r = replies[1]
        /\ pending' \in Seq(Calls) /\ Len(pending') = Len(pending) - 1
        /\ \A i \in 1 .. Len(pending) - 1 : pending'[i] = pending[i + 1] /\ pending[i + 1] # c
        /\ replies' \in Seq(Answers) /\ Len(replies') = Len(replies) - 1
        /\ \A i \in 1 .. Len(replies) - 1 : replies'[i] = replies[i + 1]
        /\ \A d : d \notin Range(pending') => d = c \/ d \notin Range(pending)
    BY <1>0, <1>1, <1>2, FirstReply
  <1>5. /\ step' \in [Calls -> Steps] /\ result' \in [Calls -> {"idle", "none", "ok", "failed"}]
        /\ step'[c] = NextStep(step[c], ok) /\ result'[c] = Verdict(step[c], ok)
        /\ \A d \in Calls \ {c} : step'[d] = step[d] /\ result'[d] = result[d]
        /\ StepsTold'
    <2>1. \A d \in {c} : d \in Calls /\ result[d] = "none"
      BY <1>4
    <2> QED BY <1>1, <1>3, <2>1, AnsweredShape
  <1>6. OnTheWay' = OnTheWay /\ Unserved' = Unserved
    BY <1>2 DEF OnTheWay, Unserved
  <1>7. QueueKept /\ Len(Unserved) \in Nat
    BY <1>1, <1>2, UnservedShape DEF OrderKept
  <1>8. TransferTypes'
    BY <1>1, <1>2, <1>4, <1>5 DEF TransferTypes
  <1>9. ASSUME NEW i \in 1 .. Len(pending')
        PROVE  /\ i + 1 \in 1 .. Len(pending) /\ pending'[i] = pending[i + 1] /\ pending'[i] \in Calls
               /\ pending'[i] # c /\ step'[pending'[i]] = step[pending[i + 1]]
               /\ result'[pending'[i]] = result[pending[i + 1]]
    <2>1. i \in 1 .. Len(pending) - 1 /\ i + 1 \in 1 .. Len(pending)
      BY <1>4
    <2>2. pending'[i] \in Calls
      BY <1>4, ElementOfSeq
    <2> QED BY <1>4, <1>5, <2>1, <2>2
  <1>10. QueueKept'
    <2>1. Len(pending') = Len(replies') + Len(Unserved')
      BY <1>4, <1>6, <1>7 DEF QueueKept
    <2>2. ASSUME NEW i \in 1 .. Len(replies')
          PROVE  <<pending'[i], step'[pending'[i]]>> = <<replies'[i].call, replies'[i].step>>
      <3>1. /\ i \in 1 .. Len(pending') /\ i + 1 \in 1 .. Len(replies) /\ i \in 1 .. Len(replies) - 1
        BY <1>4, <1>6, <1>7, <2>1
      <3>2. <<pending[i + 1], step[pending[i + 1]]>> = <<replies[i + 1].call, replies[i + 1].step>>
        BY <1>7, <3>1 DEF QueueKept
      <3>3. replies'[i] = replies[i + 1]
        BY <1>4, <3>1
      <3> QED BY <1>9, <3>1, <3>2, <3>3
    <2>3. ASSUME NEW i \in 1 .. Len(Unserved')
          PROVE  <<pending'[Len(replies') + i], step'[pending'[Len(replies') + i]]>> = Unserved'[i]
      <3> DEFINE m == Len(replies') + i
      <3>1. m \in 1 .. Len(pending') /\ m + 1 = Len(replies) + i /\ i \in 1 .. Len(Unserved)
        BY <1>4, <1>6, <1>7, <2>1
      <3> HIDE DEF m
      <3>2. <<pending[Len(replies) + i], step[pending[Len(replies) + i]]>> = Unserved[i]
        BY <1>7, <3>1 DEF QueueKept
      <3>3. <<pending'[m], step'[pending'[m]]>> = Unserved'[i]
        BY <1>6, <1>9, <3>1, <3>2
      <3> QED BY <3>3 DEF m
    <2>4. ASSUME NEW i \in 1 .. Len(pending'), NEW j \in 1 .. Len(pending'), pending'[i] = pending'[j]
          PROVE  i = j
      <3>1. /\ i + 1 \in 1 .. Len(pending) /\ j + 1 \in 1 .. Len(pending)
            /\ pending[i + 1] = pending[j + 1]
        BY <1>9, <2>4
      <3>2. i + 1 = j + 1
        BY <1>7, <3>1 DEF QueueKept
      <3> QED BY <3>2
    <2>5. \A i \in 1 .. Len(pending') : result'[pending'[i]] = "none"
      BY <1>7, <1>9 DEF QueueKept
    <2> QED BY <1>6, <1>7, <2>1, <2>2, <2>3, <2>4, <2>5 DEF QueueKept
  <1>11. OrderKept'
    BY <1>1, <1>2, <1>6, <1>10 DEF OrderKept, Whole
  <1>12. Truthful(r) /\ <<c, step[c]>> \in Requests
    <2>1. 1 \in 1 .. Len(replies)
      BY <1>4
    <2> QED BY <1>1, <1>2, <1>4, <2>1 DEF ServiceKept, StepsTold
  <1>13. /\ result'[c] = "ok" => c \in applied
         /\ AtRest(c)'
    <2> DEFINE s == step[c]
               t == NextStep(s, ok)
    <2>1. /\ Verdict(s, ok) = "ok" => ok /\ s # "abort" /\ NextStep(s, TRUE) = "over"
          /\ ~ok => t \in {"abort", "over"}
          /\ ~ok /\ t = "over" => s \notin Uploading
          /\ t = "over" => Verdict(s, ok) \in {"ok", "failed"}
      BY <1>12, NextStepShape DEF Verdict
    <2>2. result'[c] = "ok" => c \in applied
      BY <1>3, <1>4, <1>5, <1>12, <2>1 DEF Truthful
    <2>3. Ready(c, t)
      <3>1. CASE ok
        BY <1>3, <1>4, <1>12, <3>1 DEF Truthful
      <3>2. CASE ~ok
        BY <2>1, <3>2 DEF Ready
      <3> QED BY <3>1, <3>2
    <2>4. ASSUME t = "over" PROVE c \notin DOMAIN temps /\ (result'[c] = "ok" => c \notin litter)
      <3>1. CASE ok
        BY <1>3, <1>4, <1>5, <1>12, <2>1, <2>4, <3>1 DEF Truthful
      <3>2. CASE ~ok
        <4>1. s \in {"read", "edit", "move", "remove", "abort"} /\ result'[c] # "ok"
          BY <1>5, <1>12, <2>1, <2>4, <3>2 DEF Requests, Uploading
        <4>2. CASE s = "abort"
          BY <1>4, <1>12, <4>1, <4>2 DEF Truthful
        <4>3. CASE s # "abort"
          <5>1. c \notin Writes
            BY <1>12, <4>1, <4>3, CallsAssumption DEF Requests, Uploading
          <5> QED BY <1>1, <4>1, <5>1 DEF TransferTypes
        <4> QED BY <4>2, <4>3
      <3> QED BY <3>1, <3>2
    <2>5. step'[c] = t
      BY <1>5
    <2> HIDE DEF t
    <2>6. AtRest(c)'
      <3>1. Ready(c, step[c])'
        BY <1>2, <2>3, <2>5 DEF Ready
      <3> QED BY <1>2, <2>4, <2>5, <3>1 DEF AtRest
    <2> QED BY <2>2, <2>6
  <1>14. ServiceKept'
    <2>1. ASSUME NEW d \in Calls, result'[d] = "ok" PROVE d \in applied'
      <3>1. CASE d = c
        BY <1>2, <1>13, <2>1, <3>1
      <3>2. CASE d # c
        BY <1>1, <1>2, <1>5, <2>1, <3>2 DEF ServiceKept
      <3> QED BY <3>1, <3>2
    <2>2. ASSUME NEW i \in 1 .. Len(Unserved') PROVE Ready(Unserved[i][1], Unserved[i][2])'
      <3>1. Ready(Unserved[i][1], Unserved[i][2])
        BY <1>1, <1>6, <2>2 DEF ServiceKept
      <3> QED BY <1>2, <1>6, <3>1 DEF Ready
    <2>3. ASSUME NEW i \in 1 .. Len(replies') PROVE Truthful(replies[i])'
      <3>1. i \in 1 .. Len(replies) - 1 /\ i + 1 \in 1 .. Len(replies)
        BY <1>4
      <3>2. Truthful(replies[i + 1]) /\ replies'[i] = replies[i + 1]
        BY <1>1, <1>2, <1>4, <3>1 DEF ServiceKept
      <3> QED BY <1>2, <3>2 DEF Truthful, Ready
    <2>4. ASSUME NEW d \in Calls \ Range(pending') PROVE AtRest(d)'
      <3>1. CASE d = c
        BY <1>13, <3>1
      <3>2. CASE d # c
        <4>1. AtRest(d)
          BY <1>1, <1>2, <1>4, <2>4, <3>2 DEF ServiceKept
        <4> QED BY <1>2, <1>5, <3>2, <4>1 DEF AtRest, Ready
      <3> QED BY <3>1, <3>2
    <2> QED BY <1>1, <1>2, <2>1, <2>2, <2>3, <2>4 DEF ServiceKept
  <1> QED BY <1>5, <1>8, <1>11, <1>14 DEF TransferInv

----------------------------------------------------------------------------
LEMMA FirstStepShape ==
  ASSUME NEW c \in Calls
  PROVE  /\ FirstStep(c) \in {"begin", "read", "move", "remove"} /\ <<c, FirstStep(c)>> \in Requests
PROOF
  <1>1. CASE c \in Writes
    <2>1. c \notin Edits /\ c \notin Moves /\ c \notin Removes
      BY <1>1, CallsAssumption
    <2>2. FirstStep(c) = "begin"
      BY <1>1, <2>1 DEF FirstStep
    <2> QED BY <1>1, <2>2 DEF Requests, Uploading
  <1>2. CASE c \in Edits
    <2>1. c \notin Writes /\ c \notin Moves /\ c \notin Removes
      BY <1>2, CallsAssumption
    <2>2. FirstStep(c) = "read"
      BY <1>2, <2>1 DEF FirstStep
    <2> QED BY <1>2, <2>2 DEF Requests
  <1>3. CASE c \in Moves
    <2>1. c \notin Writes /\ c \notin Edits /\ c \notin Removes
      BY <1>3, CallsAssumption
    <2>2. FirstStep(c) = "move"
      BY <1>3, <2>1 DEF FirstStep
    <2> QED BY <1>3, <2>2 DEF Requests
  <1>4. CASE c \in Removes
    <2>1. c \notin Writes /\ c \notin Edits /\ c \notin Moves
      BY <1>4, CallsAssumption
    <2>2. FirstStep(c) = "remove"
      BY <1>4, <2>1 DEF FirstStep
    <2> QED BY <1>4, <2>2 DEF Requests
  <1> QED BY <1>1, <1>2, <1>3, <1>4 DEF Calls

LEMMA TransferInit ==
  ASSUME FilesInit
  PROVE  TransferInv
PROOF
  <1>1. /\ step = [c \in Calls |-> FirstStep(c)]
        /\ result \in [Calls -> {"none", "idle"}]
        /\ seen = [c \in Edits |-> Absent] /\ channel = "open"
        /\ pending = <<>> /\ frames = <<>> /\ offset = 0 /\ wire = <<>> /\ replies = <<>>
        /\ agent = "up" /\ editing = <<>> /\ DOMAIN temps = {} /\ litter = {} /\ files = Initial /\ applied = {}
    BY DEF FilesInit
  <1>2. TransferTypes
    <2>1. step \in [Calls -> Steps]
      BY <1>1, FirstStepShape DEF Steps
    <2>2. <<>> \in Seq(Calls) /\ <<>> \in Seq(Requests) /\ <<>> \in Seq(Requests \X {0, 1}) /\ <<>> \in Seq(Answers)
      BY EmptySeq
    <2> QED BY <1>1, <2>1, <2>2 DEF TransferTypes
  <1>3. StepsTold
    BY <1>1, FirstStepShape DEF StepsTold
  <1>4. OnTheWay = <<>>
    <2>1. Unwritten(<<>>, 0) \in Seq(Requests \X {0, 1}) /\ Len(Unwritten(<<>>, 0)) = 0
      <3>1. <<>> \in Seq(Requests) /\ Len(<<>>) = 0 /\ 0 \in {0, 1} /\ 0 <= 2 * 0 /\ 2 * 0 - 0 = 0
        BY EmptySeq
      <3> QED BY ONLY <3>1, UnwrittenShape
    <2>2. Unwritten(<<>>, 0) = <<>>
      BY <2>1, EmptySeq
    <2>3. <<>> \in Seq(Requests)
      BY EmptySeq
    <2> QED BY <1>1, <2>2, <2>3, ConcatEmptySeq DEF OnTheWay
  <1>5. Len(OnTheWay) = 0 /\ Len(Unserved) = 0
    <2>1. OnTheWay \in Seq(Requests \X {0, 1}) /\ Len(OnTheWay) = 0
      BY <1>2, <1>4, OnTheWayShape, EmptySeq
    <2>2. Len(Asked(OnTheWay)) = 0
      <3>1. Len(Asked(OnTheWay)) = Len(OnTheWay) \div 2
        BY <2>1, AskedShape
      <3>2. 0 \div 2 = 0
        OBVIOUS
      <3> QED BY <2>1, <3>1, <3>2
    <2> QED BY <1>1, <1>2, <2>1, <2>2, UnservedWhenIdle
  <1>6. Len(pending) = 0 /\ Len(replies) = 0 /\ Range(pending) = {}
    BY <1>1 DEF Range
  <1>7. OrderKept
    BY <1>1, <1>5, <1>6 DEF OrderKept, QueueKept, Whole
  <1>8. ASSUME NEW c \in Calls PROVE AtRest(c)
    <2>1. step[c] \in {"begin", "read", "move", "remove"}
      BY <1>1, FirstStepShape
    <2> QED BY <1>1, <2>1 DEF AtRest, Ready
  <1>9. ServiceKept
    BY <1>1, <1>5, <1>6, <1>8 DEF ServiceKept
  <1> QED BY <1>2, <1>3, <1>7, <1>9 DEF TransferInv

LEMMA TransferStep ==
  ASSUME TransferInv, [FilesNext]_transferVars
  PROVE  TransferInv'
PROOF
  <1>1. ASSUME NEW c \in Calls, SourceFails(c) \/ Request(c) \/ RequestClosed(c) PROVE TransferInv'
    BY <1>1, SourceFailsKeeps, RequestKeeps, RequestClosedKeeps
  <1>2. ASSUME NEW c \in Writes, GuestBegin(c) \/ GuestChunk(c) \/ GuestCommit(c) \/ GuestAbort(c) PROVE TransferInv'
    BY <1>2, BeginKeeps, ChunkKeeps, CommitKeeps, AbortKeeps
  <1>3. ASSUME NEW c \in Edits, GuestRead(c) \/ GuestEdit(c) \/ GuestReplace(c) PROVE TransferInv'
    BY <1>3, ReadKeeps, EditKeeps, ReplaceKeeps
  <1>4. ASSUME NEW c \in Moves, GuestMove(c) PROVE TransferInv'
    BY <1>4, MoveKeeps
  <1>5. ASSUME NEW c \in Removes, GuestRemove(c) PROVE TransferInv'
    BY <1>5, RemoveKeeps
  <1>6. CASE Serve
    BY <1>2, <1>3, <1>4, <1>5, <1>6 DEF Serve
  <1>7. CASE Drain \/ Receive \/ ChannelFails \/ AgentExits \/ AgentHeld \/ AgentFreed
    BY <1>7, DrainKeeps, ReceivedKeeps, ChannelFailsKeeps, AgentExitKeeps, HeldKeeps
  <1>8. ASSUME NEW p \in DOMAIN files, ShellWrites(p) PROVE TransferInv'
    BY <1>8, ShellKeeps
  <1>9. CASE UNCHANGED transferVars
    <2>1. /\ UNCHANGED <<step, result, channel, pending, frames, offset, wire, replies, agent, editing, temps,
                         litter, dirs, files, applied, seen>>
      BY <1>9 DEF transferVars, client, writer, guest, service
    <2>2. OnTheWay' = OnTheWay
      BY <2>1 DEF OnTheWay
    <2>3. Unserved' = Unserved
      BY <2>1, <2>2 DEF Unserved
    <2>4. TransferTypes' /\ StepsTold'
      BY <2>1 DEF TransferInv, TransferTypes, StepsTold
    <2>5. OrderKept'
      BY <2>1, <2>2, <2>3, OrderFrame DEF TransferInv
    <2>6. ServiceKept'
      <3>1. \A d, s : Ready(d, s) => Ready(d, s)'
        BY <2>1 DEF Ready
      <3>2. agent' = "gone" => DOMAIN temps' = {}
        BY <2>1 DEF TransferInv, ServiceKept
      <3> QED BY <2>1, <2>3, <3>1, <3>2, ServiceFrame DEF TransferInv
    <2> QED BY <2>4, <2>5, <2>6 DEF TransferInv
  <1> QED BY <1>1, <1>6, <1>7, <1>8, <1>9 DEF FilesNext

\* The invariant holds: every request and every answer is where its call waits for
\* it, and the workspace is as each call left it (agent-transport.ts:39-50, 75-111,
\* file_ops.rs).
THEOREM TransfersAreOrdered == FilesSpec => []TransferInv
PROOF
  <1>1. FilesInit => TransferInv
    BY TransferInit
  <1>2. TransferInv /\ [FilesNext]_transferVars => TransferInv'
    BY TransferStep
  <1> QED BY <1>1, <1>2, PTL DEF FilesSpec

LEMMA TransferInvGivesOrder ==
  ASSUME TransferInv
  PROVE  AnswersInOrder
PROOF
  <1> SUFFICES ASSUME channel = "open"
               PROVE  /\ Len(OnTheWay) % 2 = 0
                      /\ Whole(OnTheWay)
                      /\ [i \in DOMAIN pending |-> <<pending[i], step[pending[i]]>>] =
                           [i \in DOMAIN replies |-> <<replies[i].call, replies[i].step>>]
                             \o [i \in DOMAIN editing |-> <<editing[i], "edit">>]
                             \o Asked(OnTheWay)
    BY DEF AnswersInOrder, Whole, Asked
  <1>1. TransferTypes /\ StepsTold /\ QueueKept /\ Whole(OnTheWay)
    BY DEF TransferInv, OrderKept
  <1> DEFINE P == Calls \X Steps
             w == [i \in DOMAIN pending |-> <<pending[i], step[pending[i]]>>]
             a == [i \in DOMAIN replies |-> <<replies[i].call, replies[i].step>>]
             b == [i \in DOMAIN editing |-> <<editing[i], "edit">>]
             q == Asked(OnTheWay)
  <1>2. Requests \subseteq P
    BY DEF Requests, Calls, Steps, Uploading
  <1>3. /\ b \in Seq(Requests) /\ q \in Seq(Requests) /\ Unserved \in Seq(Requests) /\ Unserved = b \o q
        /\ Len(Unserved) \in Nat
    BY <1>1, BegunShape, UnservedShape DEF Unserved
  <1>4. pending \in Seq(Calls) /\ Len(pending) \in Nat /\ DOMAIN pending = 1 .. Len(pending)
    BY <1>1, LenProperties DEF TransferTypes
  <1>5. replies \in Seq(Answers) /\ Len(replies) \in Nat /\ DOMAIN replies = 1 .. Len(replies)
    BY <1>1, LenProperties DEF TransferTypes
  <1>6. w \in Seq(P) /\ Len(w) = Len(pending) /\ \A i \in 1 .. Len(pending) : w[i] = <<pending[i], step[pending[i]]>>
    <2>1. \A i \in 1 .. Len(pending) : pending[i] \in Calls
      BY <1>4, ElementOfSeq
    <2>2. \A i \in 1 .. Len(pending) : step[pending[i]] \in Steps
      BY <1>1, <2>1 DEF TransferTypes
    <2>3. w \in [1 .. Len(pending) -> P] /\ \A i \in 1 .. Len(pending) : w[i] = <<pending[i], step[pending[i]]>>
      BY <1>4, <2>1, <2>2
    <2> HIDE DEF w, P
    <2> QED BY <1>4, <2>3, FiniteSequence
  <1>7. a \in Seq(P) /\ Len(a) = Len(replies) /\ \A i \in 1 .. Len(replies) : a[i] = <<replies[i].call, replies[i].step>>
    <2>1. \A i \in 1 .. Len(replies) : replies[i] \in Answers
      BY <1>5, ElementOfSeq
    <2>2. a \in [1 .. Len(replies) -> P] /\ \A i \in 1 .. Len(replies) : a[i] = <<replies[i].call, replies[i].step>>
      BY <1>5, <2>1 DEF Answers
    <2> HIDE DEF a, P
    <2> QED BY <1>5, <2>2, FiniteSequence
  <1> HIDE DEF P, w, a, b, q
  <1>8. b \in Seq(P) /\ q \in Seq(P) /\ Unserved \in Seq(P)
    BY <1>2, <1>3, SeqMonotonic
  <1>9. w = a \o Unserved
    <2>1. Len(w) = Len(a) + Len(Unserved)
      BY <1>1, <1>6, <1>7 DEF QueueKept
    <2>2. \A i \in 1 .. Len(a) : a[i] = w[i]
      <3> TAKE i \in 1 .. Len(a)
      <3>1. i \in 1 .. Len(replies) /\ i \in 1 .. Len(pending)
        BY <1>1, <1>3, <1>5, <1>7 DEF QueueKept
      <3>2. <<pending[i], step[pending[i]]>> = <<replies[i].call, replies[i].step>>
        BY <1>1, <3>1 DEF QueueKept
      <3> QED BY ONLY <1>6, <1>7, <3>1, <3>2
    <2>3. \A i \in 1 .. Len(Unserved) : Unserved[i] = w[Len(a) + i]
      <3> TAKE i \in 1 .. Len(Unserved)
      <3>1. Len(replies) + i \in 1 .. Len(pending)
        BY <1>1, <1>3, <1>5 DEF QueueKept
      <3> QED BY <1>1, <1>6, <1>7, <3>1 DEF QueueKept
    <2> QED BY <1>6, <1>7, <1>8, <2>1, <2>2, <2>3, Glued
  <1>10. (a \o b) \o q = a \o (b \o q)
    <2>1. a \in Seq(P) /\ b \in Seq(P) /\ q \in Seq(P)
      BY <1>7, <1>8
    <2> QED BY ONLY <2>1, ConcatAssociative
  <1>11. w = (a \o b) \o q
    BY <1>3, <1>9, <1>10
  <1> QED BY <1>1, <1>11 DEF QueueKept, w, a, b, q

\* While the channel is open its calls wait in the order of their answers, whatever
\* the socket took of a frame at a time: the answer that push() gives to the call that
\* waits longest is its own (agent-transport.ts:39-50, 75, 88).
THEOREM RepliesInOrder == FilesSpec => []AnswersInOrder
PROOF
  <1>1. TransferInv => AnswersInOrder
    BY TransferInvGivesOrder
  <1> QED BY <1>1, TransfersAreOrdered, PTL

LEMMA TransferInvLeavesNothing ==
  ASSUME TransferInv
  PROVE  NoTransferLeft
PROOF
  <1> SUFFICES ASSUME Open = {}, channel = "open", agent = "up"
               PROVE  Transfers = {} /\ \A c \in litter : c \notin Moves /\ result[c] = "failed"
    BY DEF NoTransferLeft
  <1>1. TransferTypes /\ StepsTold /\ QueueKept /\ ServiceKept
    BY DEF TransferInv, OrderKept
  <1>2. ASSUME NEW c \in Calls
        PROVE  c \notin DOMAIN temps /\ (c \in litter => result[c] = "failed")
    <2>1. result[c] \in {"idle", "ok", "failed"}
      BY <1>1 DEF TransferTypes, Open
    <2>2. c \notin Range(pending)
      <3>1. pending \in Seq(Calls) /\ DOMAIN pending = 1 .. Len(pending)
        BY <1>1, LenProperties DEF TransferTypes
      <3>2. \A i \in 1 .. Len(pending) : result[pending[i]] = "none"
        BY <1>1 DEF QueueKept
      <3> QED BY <2>1, <3>1, <3>2 DEF Range
    <2>3. AtRest(c)
      BY <1>1, <2>2 DEF ServiceKept
    <2>4. CASE result[c] = "idle"
      <3>1. step[c] \in {"begin", "read", "move", "remove"}
        BY <1>1, <2>4, FirstStepShape DEF StepsTold
      <3> QED BY <2>3, <3>1 DEF AtRest, Ready
    <2>5. CASE result[c] \in {"ok", "failed"}
      BY <1>1, <2>3, <2>5 DEF StepsTold, AtRest
    <2> QED BY <2>1, <2>4, <2>5
  <1>3. /\ DOMAIN temps \subseteq Calls /\ litter \subseteq Calls
        /\ \A c \in litter : c \notin Moves
    BY <1>1, CallsAssumption DEF TransferTypes, Calls
  <1> QED BY <1>2, <1>3 DEF Transfers

\* When every call has returned over a channel that is open, no transfer is open: every
\* write that failed was aborted after what it had begun (agent-files.ts:165); and a
\* temporary name that could not be removed is of a call that was told it failed.
THEOREM NothingIsLeft == FilesSpec => []NoTransferLeft
PROOF
  <1>1. TransferInv => NoTransferLeft
    BY TransferInvLeavesNothing
  <1> QED BY <1>1, TransfersAreOrdered, PTL

----------------------------------------------------------------------------
(* the refinement                                                          *)

\* What the abstract specification sees of the results.
Shown == [c \in Calls |-> IF result[c] = "idle" THEN "none" ELSE result[c]]

\* The edit it sees to have checked its file.
Checked == {c \in Edits : editing = <<c>>}

LEMMA PromisedDefs ==
  /\ Promised!Calls = Calls
  /\ Promised!vars = <<files, dirs, seen, Checked, applied, Shown>>
PROOF
  BY DEF Promised!Calls, Promised!vars, Calls, Checked, Shown

\* A step that touches nothing the abstract specification sees.
LEMMA StutterStep ==
  ASSUME UNCHANGED <<files, dirs, seen, editing, applied, result>>
  PROVE  UNCHANGED Promised!vars
PROOF
  BY PromisedDefs DEF Promised!vars, Checked, Shown

\* A request that is served is not of a call that answered "ok".
LEMMA ServedIsOpen ==
  ASSUME TransferInv, NEW c \in Calls, NEW s, Ready(c, s), s \notin {"abort", "over"}
  PROVE  c \notin applied /\ Shown[c] # "ok"
PROOF
  <1>1. c \notin applied
    BY DEF Ready
  <1>2. result[c] # "ok"
    BY <1>1 DEF TransferInv, ServiceKept
  <1> QED BY <1>1, <1>2 DEF Shown

LEMMA EffectStep ==
  ASSUME TransferInv, NEW c \in Calls, NEW s, Ready(c, s), s \notin {"abort", "over"},
         editing \in {<<>>, <<c>>}, editing' = <<>>,
         Promised!Effect(c), applied' = applied \cup {c}, UNCHANGED <<dirs, seen, result>>
  PROVE  Promised!Next
PROOF
  <1>1. c \notin applied /\ Shown[c] # "ok"
    BY ServedIsOpen
  <1>2. Checked \subseteq {c} /\ Checked' = {}
    BY DEF Checked
  <1>3. Promised!TakeEffect(c)
    BY <1>1, <1>2 DEF Promised!TakeEffect, Shown, Checked
  <1> QED BY <1>3, PromisedDefs DEF Promised!Next

LEMMA ServeImplements ==
  ASSUME TransferInv, Serve
  PROVE  [Promised!Next]_(Promised!vars)
PROOF
  <1>1. ASSUME NEW c \in Writes, GuestCommit(c) PROVE [Promised!Next]_(Promised!vars)
    <2>1. /\ Arrived(c, "commit") /\ wire' = SubSeq(wire, 3, Len(wire))
          /\ editing = <<>> /\ editing' = <<>>
          /\ UNCHANGED <<writer, client, result, dirs, seen>>
      BY <1>1 DEF GuestCommit, Arrived, Reply, client
    <2>2. c \in Calls /\ Ready(c, "commit") /\ agent = "up"
      BY <2>1, ArrivedReady
    <2>3. CASE files' = [files EXCEPT ![Target[c]] = temps[c]] /\ applied' = applied \cup {c}
      <3>1. temps[c] = Upload(c) /\ Target[c] \in dirs
        BY <2>2 DEF Ready, Sent
      <3>2. Promised!Effect(c)
        BY <2>3, <3>1 DEF Promised!Effect
      <3> QED BY <2>1, <2>2, <2>3, <3>2, EffectStep
    <2>4. CASE UNCHANGED <<files, applied>>
      BY <2>1, <2>4, StutterStep
    <2> QED BY <1>1, <2>3, <2>4 DEF GuestCommit
  <1>2. ASSUME NEW c \in Writes, GuestChunk(c) \/ GuestAbort(c) PROVE [Promised!Next]_(Promised!vars)
    <2>1. UNCHANGED <<files, dirs, applied, seen, editing, result>>
      BY <1>2 DEF GuestChunk, GuestAbort, Reply, client
    <2> QED BY <2>1, StutterStep
  <1>8. ASSUME NEW c \in Writes, GuestBegin(c) PROVE [Promised!Next]_(Promised!vars)
    <2>1. /\ Arrived(c, "begin") /\ wire' = SubSeq(wire, 3, Len(wire))
          /\ UNCHANGED <<writer, files, applied, seen, editing, result>>
          /\ dirs' \in {dirs, dirs \cup {Target[c]}}
      BY <1>8 DEF GuestBegin, Reply, client
    <2>2. c \in Calls /\ Ready(c, "begin")
      BY <2>1, ArrivedReady
    <2>3. CASE dirs' = dirs \cup {Target[c]}
      <3>1. c \notin applied /\ Shown[c] # "ok"
        BY <2>2, ServedIsOpen
      <3>2. Checked' = Checked /\ Shown' = Shown
        BY <2>1 DEF Checked, Shown
      <3>3. Promised!MakeDirectories(c)
        BY <2>1, <2>3, <3>1, <3>2 DEF Promised!MakeDirectories, Checked, Shown
      <3> QED BY <2>2, <3>3, PromisedDefs DEF Promised!Next
    <2>4. CASE UNCHANGED dirs
      BY <2>1, <2>4, StutterStep
    <2> QED BY <2>1, <2>3, <2>4
  <1>3. ASSUME NEW c \in Edits, GuestRead(c) PROVE [Promised!Next]_(Promised!vars)
    <2>1. editing = <<>> /\ UNCHANGED <<files, dirs, applied, editing, result>>
      BY <1>3 DEF GuestRead, Arrived, Reply, client
    <2>2. CASE seen' = [seen EXCEPT ![c] = files[Target[c]]]
      <3>1. Checked = {} /\ Checked' = Checked /\ Shown' = Shown
        BY <2>1 DEF Checked, Shown
      <3>2. Promised!Read(c)
        BY <2>1, <2>2, <3>1 DEF Promised!Read, Checked, Shown
      <3> QED BY <3>2, PromisedDefs DEF Promised!Next, Calls
    <2>3. CASE UNCHANGED seen
      BY <2>1, <2>3, StutterStep
    <2> QED BY <1>3, <2>2, <2>3 DEF GuestRead
  <1>4. ASSUME NEW c \in Edits, GuestEdit(c) PROVE [Promised!Next]_(Promised!vars)
    <2>1. /\ Arrived(c, "edit") /\ editing = <<>>
          /\ UNCHANGED <<files, dirs, applied, seen, result>>
      BY <1>4 DEF GuestEdit, Arrived, Reply, client, service
    <2>2. CASE /\ files[Target[c]] = seen[c] /\ editing' = <<c>>
               /\ wire' = SubSeq(wire, 3, Len(wire)) /\ UNCHANGED writer
      <3>1. c \in Calls /\ Ready(c, "edit")
        BY <2>1, <2>2, ArrivedReady
      <3>2. seen[c] # Absent
        BY <3>1 DEF Ready
      <3>3. Checked = {} /\ Checked' = {c} /\ Shown' = Shown
        BY <2>1, <2>2 DEF Checked, Shown
      <3>4. Promised!Check(c)
        BY <2>1, <2>2, <3>2, <3>3 DEF Promised!Check, Checked, Shown
      <3> QED BY <3>1, <3>4, PromisedDefs DEF Promised!Next
    <2>3. CASE UNCHANGED editing
      BY <2>1, <2>3, StutterStep
    <2> QED BY <1>4, <2>2, <2>3 DEF GuestEdit, Reply
  <1>5. ASSUME NEW c \in Edits, GuestReplace(c) PROVE [Promised!Next]_(Promised!vars)
    <2>1. editing = <<c>> /\ editing' = <<>> /\ UNCHANGED <<dirs, seen, result>>
      BY <1>5 DEF GuestReplace, client
    <2>2. c \in Calls /\ c \in Checked /\ Checked' = Checked \ {c} /\ Shown' = Shown
      BY <2>1 DEF Checked, Shown, Calls
    <2>3. CASE files' = [files EXCEPT ![Target[c]] = Edited(c, seen[c])] /\ applied' = applied \cup {c}
      <3>1. TransferTypes /\ OrderKept /\ ServiceKept
        BY DEF TransferInv
      <3>2. Unserved # <<>> /\ Head(Unserved) = <<c, "edit">>
        BY <2>1, <3>1, UnservedWhenEditing
      <3>3. Unserved[1] = <<c, "edit">> /\ 1 \in 1 .. Len(Unserved)
        <4>1. Unserved[1] = <<c, "edit">> /\ Len(Unserved) \in Nat /\ 1 <= Len(Unserved)
          BY <3>1, <3>2, FirstUnserved
        <4> QED BY <4>1
      <3>4. Ready(Unserved[1][1], Unserved[1][2])
        BY <3>1, <3>3 DEF ServiceKept
      <3>5. Ready(c, "edit")
        BY <3>3, <3>4
      <3>6. Promised!Effect(c)
        BY <2>2, <2>3 DEF Promised!Effect, Checked
      <3> QED BY <2>1, <2>2, <2>3, <3>5, <3>6, EffectStep
    <2>4. CASE UNCHANGED <<files, applied>>
      <3>1. Promised!GiveUp(c)
        BY <2>1, <2>2, <2>4 DEF Promised!GiveUp, Checked, Shown
      <3> QED BY <2>2, <3>1, PromisedDefs DEF Promised!Next
    <2> QED BY <1>5, <2>3, <2>4 DEF GuestReplace
  <1>6. ASSUME NEW c \in Moves, GuestMove(c) PROVE [Promised!Next]_(Promised!vars)
    <2>1. /\ Arrived(c, "move") /\ wire' = SubSeq(wire, 3, Len(wire))
          /\ editing = <<>> /\ editing' = <<>>
          /\ UNCHANGED <<writer, client, result, dirs, seen>>
      BY <1>6 DEF GuestMove, Arrived, Reply, client
    <2>2. c \in Calls /\ Ready(c, "move")
      BY <2>1, ArrivedReady
    <2>3. CASE /\ files[Source[c]] # Absent /\ Target[c] \in dirs
               /\ files' = [files EXCEPT ![Source[c]] = Absent, ![Target[c]] = files[Source[c]]]
               /\ applied' = applied \cup {c}
      <3>1. Promised!Effect(c)
        BY <2>3 DEF Promised!Effect
      <3> QED BY <2>1, <2>2, <2>3, <3>1, EffectStep
    <2>4. CASE UNCHANGED <<files, applied>>
      BY <2>1, <2>4, StutterStep
    <2> QED BY <1>6, <2>3, <2>4 DEF GuestMove
  <1>7. ASSUME NEW c \in Removes, GuestRemove(c) PROVE [Promised!Next]_(Promised!vars)
    <2>1. /\ Arrived(c, "remove") /\ wire' = SubSeq(wire, 3, Len(wire))
          /\ editing = <<>> /\ editing' = <<>>
          /\ UNCHANGED <<writer, client, result, dirs, seen>>
      BY <1>7 DEF GuestRemove, Arrived, Reply, client
    <2>2. c \in Calls /\ Ready(c, "remove")
      BY <2>1, ArrivedReady
    <2>3. CASE /\ files[Target[c]] # Absent
               /\ files' = [files EXCEPT ![Target[c]] = Absent]
               /\ applied' = applied \cup {c}
      <3>1. Promised!Effect(c)
        BY <2>3 DEF Promised!Effect
      <3> QED BY <2>1, <2>2, <2>3, <3>1, EffectStep
    <2>4. CASE UNCHANGED <<files, applied>>
      BY <2>1, <2>4, StutterStep
    <2> QED BY <1>7, <2>3, <2>4 DEF GuestRemove
  <1> QED BY <1>1, <1>2, <1>3, <1>4, <1>5, <1>6, <1>7, <1>8 DEF Serve

\* The calls in S are told that they failed, unless they abort a transfer first.
LEMMA BreakStep ==
  ASSUME TransferInv, NEW S, \A c \in S : c \in Calls /\ result[c] = "none",
         Answered(S, FALSE), UNCHANGED <<files, dirs, seen, editing, applied>>
  PROVE  [Promised!Next]_(Promised!vars)
PROOF
  <1>0. PICK B : B = {c \in S : Verdict(step[c], FALSE) = "failed"}
    OBVIOUS
  <1>1. TransferTypes /\ StepsTold
    BY DEF TransferInv
  <1>2. /\ \A c \in S : result'[c] = Verdict(step[c], FALSE)
        /\ \A c \in Calls \ S : result'[c] = result[c]
    BY <1>1, AnsweredShape
  <1>3. \A c \in S : Verdict(step[c], FALSE) \in {"none", "failed"}
    <2> TAKE c \in S
    <2>1. <<c, step[c]>> \in Requests
      BY <1>1 DEF StepsTold
    <2> QED BY <2>1, NextStepShape
  <1>4. \A c \in B : c \in Calls /\ Shown[c] = "none"
    BY <1>0 DEF Shown
  <1>5. Shown' = [c \in Calls |-> IF c \in B THEN "failed" ELSE Shown[c]]
    <2>1. \A c \in Calls : Shown'[c] = IF c \in B THEN "failed" ELSE Shown[c]
      BY <1>0, <1>2, <1>3 DEF Shown
    <2> QED BY <2>1 DEF Shown
  <1>6. Promised!Break(B) /\ B \in SUBSET Calls
    BY <1>4, <1>5, PromisedDefs DEF Promised!Break, Shown, Checked
  <1> QED BY <1>6, PromisedDefs DEF Promised!Next

LEMMA ReceiveImplements ==
  ASSUME TransferInv, Receive
  PROVE  [Promised!Next]_(Promised!vars)
PROOF
  <1>1. TransferTypes /\ StepsTold /\ OrderKept /\ ServiceKept
    BY DEF TransferInv
  <1>2. /\ channel = "open" /\ replies # <<>> /\ pending # <<>>
        /\ UNCHANGED <<files, dirs, applied, seen, editing>>
    BY DEF Receive, guest, service
  <1>3. PICK c \in Calls, r \in Answers : c = Head(pending) /\ r = Head(replies)
    BY <1>1, <1>2, FirstReply
  <1>4. /\ c = r.call /\ step[c] = r.step /\ result[c] = "none"
        /\ r = replies[1] /\ 1 <= Len(replies) /\ Len(replies) \in Nat
    BY <1>1, <1>2, <1>3, FirstReply
  <1>5. PICK ok \in BOOLEAN : Answered({c}, ok) /\ (ok => r.ok = "yes")
    BY <1>3 DEF Receive
  <1>6. Truthful(r) /\ <<c, step[c]>> \in Requests
    <2>1. 1 \in 1 .. Len(replies)
      BY <1>4
    <2> QED BY <1>1, <1>2, <1>4, <2>1 DEF ServiceKept, StepsTold
  <1>7. \A d \in {c} : d \in Calls /\ result[d] = "none"
    BY <1>4
  <1>8. CASE ~ok
    BY <1>2, <1>5, <1>7, <1>8, BreakStep
  <1>9. CASE ok
    <2>1. /\ result'[c] = Verdict(step[c], TRUE)
          /\ \A d \in Calls \ {c} : result'[d] = result[d]
      BY <1>1, <1>5, <1>7, <1>9, AnsweredShape
    <2>2. /\ Verdict(step[c], TRUE) \in {"none", "ok", "failed"}
          /\ Verdict(step[c], TRUE) = "ok" => step[c] # "abort" /\ NextStep(step[c], TRUE) = "over"
      BY <1>6, NextStepShape
    <2>3. Verdict(step[c], TRUE) = "ok" => c \in applied
      BY <1>4, <1>5, <1>6, <1>9, <2>2 DEF Truthful
    <2>4. Shown \in [Calls -> {"none", "ok", "failed"}] /\ Shown[c] = "none"
      BY <1>1, <1>4 DEF Shown, TransferTypes
    <2>5. Shown' = [Shown EXCEPT ![c] = Verdict(step[c], TRUE)]
      <3>1. \A d \in Calls : Shown'[d] = IF d = c THEN Verdict(step[c], TRUE) ELSE Shown[d]
        BY <2>1, <2>2 DEF Shown
      <3>2. Shown' = [d \in Calls |-> Shown'[d]]
        BY DEF Shown
      <3> QED BY <2>4, <3>1, <3>2
    <2>6. CASE Verdict(step[c], TRUE) = "none"
      <3>1. Shown' = Shown
        BY <2>4, <2>5, <2>6
      <3> QED BY <1>2, <3>1, PromisedDefs DEF Promised!vars, Shown, Checked
    <2>7. CASE Verdict(step[c], TRUE) \in {"ok", "failed"}
      <3>1. Promised!Answer(c)
        BY <1>2, <2>3, <2>4, <2>5, <2>7 DEF Promised!Answer, Shown, Checked
      <3> QED BY <3>1, PromisedDefs DEF Promised!Next
    <2> QED BY <2>2, <2>6, <2>7
  <1> QED BY <1>8, <1>9

LEMMA StepImplements ==
  ASSUME TransferInv, [FilesNext]_transferVars
  PROVE  [Promised!Next]_(Promised!vars)
PROOF
  <1>1. ASSUME NEW c \in Calls, SourceFails(c) \/ Request(c) PROVE [Promised!Next]_(Promised!vars)
    <2>1. UNCHANGED <<files, dirs, applied, seen, editing, result>>
      BY <1>1 DEF SourceFails, Request, guest, service, client
    <2> QED BY <2>1, StutterStep
  <1>2. ASSUME NEW c \in Calls, RequestClosed(c) PROVE [Promised!Next]_(Promised!vars)
    <2>1. /\ Answered({c}, FALSE) /\ UNCHANGED <<files, dirs, applied, seen, editing>>
          /\ \A d \in {c} : d \in Calls /\ result[d] = "none"
      BY <1>2 DEF RequestClosed, guest, service, Open
    <2> QED BY <2>1, BreakStep
  <1>3. CASE ChannelFails
    <2>1. /\ channel = "open" /\ Answered(Range(pending), FALSE)
          /\ UNCHANGED <<files, dirs, applied, seen, editing>>
      BY <1>3 DEF ChannelFails, guest, service
    <2>2. \A c \in Range(pending) : c \in Calls /\ result[c] = "none"
      <3>1. pending \in Seq(Calls) /\ DOMAIN pending = 1 .. Len(pending)
        BY LenProperties DEF TransferInv, TransferTypes
      <3>2. \A i \in 1 .. Len(pending) : pending[i] \in Calls /\ result[pending[i]] = "none"
        BY <2>1, <3>1, ElementOfSeq DEF TransferInv, OrderKept, QueueKept
      <3> QED BY <3>1, <3>2 DEF Range
    <2> DEFINE S == Range(pending)
    <2>3. (\A c \in S : c \in Calls /\ result[c] = "none") /\ Answered(S, FALSE)
      BY <2>1, <2>2
    <2> HIDE DEF S
    <2> QED BY <2>1, <2>3, BreakStep
  <1>4. CASE Drain \/ AgentExits \/ AgentHeld \/ AgentFreed
    <2>1. UNCHANGED <<files, dirs, applied, seen, editing, result>>
      BY <1>4 DEF Drain, AgentExits, AgentHeld, AgentFreed, guest, service, client
    <2> QED BY <2>1, StutterStep
  <1>5. ASSUME NEW p \in DOMAIN files, ShellWrites(p) PROVE [Promised!Next]_(Promised!vars)
    <2>1. /\ files' = [files EXCEPT ![p] = ByShell] /\ dirs' = dirs \cup {p}
          /\ UNCHANGED <<applied, seen, editing, result>>
      BY <1>5 DEF ShellWrites, client
    <2>2. Promised!ShellWrites(p)
      BY <2>1 DEF Promised!ShellWrites, Shown, Checked
    <2> QED BY <2>2 DEF Promised!Next
  <1>6. CASE UNCHANGED transferVars
    <2>1. UNCHANGED <<files, dirs, applied, seen, editing, result>>
      BY <1>6 DEF transferVars, guest, service, client
    <2> QED BY <2>1, StutterStep
  <1> QED BY <1>1, <1>2, <1>3, <1>4, <1>5, <1>6, ServeImplements, ReceiveImplements DEF FilesNext

LEMMA InitImplements ==
  ASSUME FilesInit
  PROVE  Promised!Init
PROOF
  <1>1. \A c \in Calls : result[c] \in {"none", "idle"}
    BY DEF FilesInit
  <1>2. Shown = [c \in Calls |-> "none"]
    BY <1>1 DEF Shown
  <1>3. {c \in Edits : editing = <<c>>} = {}
    BY DEF FilesInit
  <1> QED BY <1>2, <1>3, PromisedDefs DEF FilesInit, Promised!Init, Shown

\* The tools over the channel implement those that change the files at once: each change
\* of a file is the whole effect of one call, once, and "ok" is never said before it; of
\* a write that fails only directories stay; and an edit replaces what its caller has
\* read, or what a command wrote after that was checked (README.md:31, 242).
THEOREM FilesImplementPromise == FilesSpec => FilesAreAtomic
PROOF
  <1>1. FilesInit => Promised!Init
    BY InitImplements
  <1>2. TransferInv /\ [FilesNext]_transferVars => [Promised!Next]_(Promised!vars)
    BY StepImplements
  <1> QED BY <1>1, <1>2, TransfersAreOrdered, PTL DEF FilesSpec, FilesAreAtomic, Promised!Spec
=============================================================================

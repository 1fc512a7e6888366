------------------------------- MODULE Paging -------------------------------
(***************************************************************************)
(* The answers of `read`, `glob` and `grep` that come in pages: what one   *)
(* page takes of the lines, entries or matches there are, by count and by  *)
(* the size of its encoding, where the next page starts, and the numbers   *)
(* the daemon gives to the lines of a read by ranges.                      *)
(*                                                                         *)
(* Lines, entries and matches are numbered from 1 and stand for their      *)
(* sizes; the workspace does not change while it is read.                  *)
(***************************************************************************)
EXTENDS Naturals, Sequences, FiniteSets

CONSTANTS
  Inputs,      \* the sequences of sizes that are read
  RangeLists,  \* the line ranges asked for, sequences of <<start, end>>
  Limits,      \* the limits asked for
  PageBytes,   \* the size a page may have
  Top          \* stands for the last number there is, and for no limit

VARIABLES
  tool,    \* "file", "artifact", "listing", "grep" or "raw"
  items,   \* the sizes
  ranges,  \* the ranges, NoRanges if none are given
  limit,   \* the limit
  cursor,  \* where the next page starts
  got,     \* what came, as records of the item, the number it was given, and
           \* whether its page has a gap
  reading  \* "more"; "end", nothing is left out; "cut", something is and the caller
           \* does not get on; "stuck" in lineNumbers

pageVars == <<tool, items, ranges, limit, cursor, got, reading>>

NoRanges == <<<<1, Top>>>>
Tools == {"file", "artifact", "listing", "grep", "raw"}

\* Limits and ranges are checked where they are parsed; no line is beyond Top.
ASSUME PagingAssumption ==
  /\ PageBytes \in Nat /\ Top \in Nat \ {0}
  /\ Limits \subseteq Nat \ {0}
  /\ \A s \in Inputs : s \in Seq(Nat) /\ Len(s) <= Top
  /\ \A rs \in RangeLists : rs \in Seq((Nat \ {0}) \X Nat)

\* The elements of a set of numbers from the least on.
Ascending(S) == [i \in 1 .. Cardinality(S) |-> CHOOSE n \in S : Cardinality({m \in S : m <= n}) = i]

\* The guest and streamArtifactLines sort the ranges, workspaceReadResult does not.
Lowest(rs) == CHOOSE n \in {rs[i][1] : i \in DOMAIN rs} : \A i \in DOMAIN rs : n <= rs[i][1]
InRanges(n, rs) == \E i \in DOMAIN rs : rs[i][1] <= n /\ n <= rs[i][2]

\* selectedLine.  The guest takes an empty list of ranges for none.
Asks(n) == InRanges(n, ranges) \/ (tool = "file" /\ ranges = <<>>)
SelectedLine(n) == n >= cursor /\ Asks(n)
Selected == {n \in DOMAIN items : SelectedLine(n)}

\* What is on a page is counted byte by byte.
SizeOf(S) == Cardinality(UNION {{n} \X (1 .. items[n]) : n \in S})
Fits(S) == Cardinality(S) <= limit /\ SizeOf(S) <= PageBytes
Before(n) == {m \in Selected : m <= n}

\* Directory, glob and artifact lines: the page ends before the first that does not fit.
Contiguous == {n \in Selected : Fits(Before(n))}

\* The guest's file_read and grep go on after one that does not fit, and take
\* what is smaller: whatever fits with what was taken before it.
Skipping ==
  CHOOSE taken \in SUBSET Selected :
    \A n \in Selected : n \in taken <=> Fits({m \in taken : m < n} \cup {n})

Page == IF tool \in {"file", "grep"} THEN Skipping ELSE Contiguous

\* Wrong: the cursor of a page of lines is the last line of it.
CursorIsLast(page) ==
  LET missed == Selected \ page
      largest == CHOOSE n \in page \cup {0} : \A m \in page : m <= n
      least == CHOOSE n \in missed : \A m \in missed : n <= m IN
  IF missed = {} THEN 0
  ELSE IF tool \in {"listing", "grep"} THEN IF page = {} THEN 0 ELSE largest + 1
  ELSE IF page = {} THEN least ELSE largest

\* Where the next page starts, 0 if there is none: lines go on at the first that
\* was not taken, the others after the last that was.
NextCursor(page) ==
  LET missed == Selected \ page
      largest == CHOOSE n \in page \cup {0} : \A m \in page : m <= n IN
  IF missed = {} THEN 0
  ELSE IF tool \in {"listing", "grep"} THEN IF page = {} THEN 0 ELSE largest + 1
  ELSE CHOOSE n \in missed : \A m \in missed : n <= m

\* Wrong: the numbers start at the first range on every page.
StartLineOfRanges == IF ranges # <<>> /\ ranges # NoRanges THEN ranges[1][1] ELSE cursor

\* The number of the first line of a page: the cursor's, or the first range as the
\* caller wrote it.
StartLine == IF got = <<>> /\ ranges # <<>> /\ ranges # NoRanges /\ tool = "file" THEN ranges[1][1] ELSE cursor

\* lineNumbers: the numbers in a range, from the start on; 0 when they run out.
LineNumber(i) ==
  LET numbers == {n \in StartLine .. Top : InRanges(n, ranges)} IN
  IF Cardinality(numbers) < i THEN 0
  ELSE CHOOSE n \in numbers : Cardinality({m \in numbers : m <= n}) = i

PagingIdle ==
  /\ tool = "raw" /\ items = <<>> /\ ranges = NoRanges /\ limit = 1 /\ cursor = 1
  /\ got = <<>> /\ reading = "end"

\* Ranges exclude a limit, and are for lines.
PagingInit ==
  /\ tool \in Tools
  /\ items \in IF tool = "raw" THEN {s \in Inputs : \A i \in DOMAIN s : s[i] = 1} ELSE Inputs
  /\ \/ ranges = NoRanges /\ limit \in Limits
     \/ tool \in {"file", "artifact"} /\ ranges \in RangeLists /\ limit = Top
  /\ cursor = IF ranges = <<>> THEN 1 ELSE Lowest(ranges)
  /\ got = <<>>
  /\ reading = "more"

\* One call: the page, its numbers, and the cursor the caller goes on with, until
\* nothing is left out, nothing comes, or the cursor does not move.
ReadPage ==
  LET lines == Ascending(Page)
      next == NextCursor(Page)
      numbered == [i \in DOMAIN lines |->
        [item |-> lines[i],
         number |-> IF tool \in {"file", "artifact"} THEN LineNumber(i) ELSE lines[i],
         gap |-> Page # Contiguous]] IN
  /\ reading = "more"
  /\ IF \E i \in DOMAIN numbered : numbered[i].number = 0
     THEN reading' = "stuck" /\ UNCHANGED <<got, cursor>>
     ELSE /\ got' = got \o numbered
          /\ cursor' = next
          /\ reading' = IF Selected \ Page = {} THEN "end" ELSE IF Page = {} \/ next = cursor THEN "cut" ELSE "more"
  /\ UNCHANGED <<tool, items, ranges, limit>>

PagingSpec == PagingInit /\ [][ReadPage]_pageVars

----------------------------------------------------------------------------
(* properties                                                              *)

\* The ranges the daemon numbers the lines of a file by: some, and the lowest first.
RangesInOrder == tool = "file" => ranges # <<>> /\ ranges[1][1] = Lowest(ranges)

\* A page of file_read or grep took something after what it left out.
Gaps == \E i \in DOMAIN got : got[i].gap

\* What comes was asked for; in order, none of it twice; and when nothing is left out
\* all of it came, so that pages without gaps are exactly what was asked for.  With
\* gaps, file_read repeats lines and loses none, grep loses matches and repeats none.
\* Only at what no page has room for does the caller not get on (server.ts:340,
\* file_ops.rs:602, 721, 1323, 1946).
PagesAreExact ==
  /\ \A i \in DOMAIN got : got[i].item \in DOMAIN items /\ Asks(got[i].item)
  /\ tool # "file" \/ ~Gaps => \A i, j \in DOMAIN got : i < j => got[i].item < got[j].item
  /\ reading = "end" /\ (tool # "grep" \/ ~Gaps) =>
       \A n \in DOMAIN items : Asks(n) => \E i \in DOMAIN got : got[i].item = n
  /\ reading = "cut" => \E n \in DOMAIN items : Asks(n) /\ items[n] > PageBytes

\* A line of a page without a gap has the number it has in the file, whatever the
\* pages before it, and lineNumbers comes to its end on every page, if the ranges of
\* a file are given with the lowest first (server.ts:217-227, 395).
NumbersAreTrue ==
  RangesInOrder =>
    /\ reading # "stuck"
    /\ \A i \in DOMAIN got : ~got[i].gap => got[i].number = got[i].item
=============================================================================

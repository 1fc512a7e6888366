---------------------------- MODULE AtomicFiles ----------------------------
(***************************************************************************)
(* What the file tools of a turn promise, without frames, transfers or     *)
(* temporary files: a call changes the files in one step or not at all, at *)
(* most once, and when it answers "ok" it has.  A call that failed may     *)
(* have taken effect, and may still do so.  A write makes its directories  *)
(* in a step before that, and they stay if it fails.  An edit replaces     *)
(* what its caller has read; only what a command of the turn writes        *)
(* between the check of that and the edit is lost.                         *)
(***************************************************************************)
EXTENDS Naturals, Sequences

CONSTANTS
  Writes, Edits, Moves, Removes,   \* the calls, by tool
  Target,      \* the path of a call; for a move its destination
  Source,      \* the source of a move
  Initial,     \* the workspace the turn starts with
  Rooted,      \* the paths whose directories are there then
  Absent,      \* the content of a path that names no file
  ByShell,     \* what a command writes
  Upload(_),   \* what a write uploads
  Edited(_, _) \* what an edit makes of a content

VARIABLES
  files,    \* the content of each path
  dirs,     \* the paths whose directories are there
  seen,     \* what an edit was told its file is
  checked,  \* the edit that has found its file to be that, if any
  applied,  \* the calls that took effect
  result    \* what a call answered: "none", "ok", "failed"

vars == <<files, dirs, seen, checked, applied, result>>
Calls == Writes \cup Edits \cup Moves \cup Removes

Init ==
  /\ files = Initial
  /\ dirs = Rooted
  /\ seen = [c \in Edits |-> Absent]
  /\ checked = {}
  /\ applied = {}
  /\ result = [c \in Calls |-> "none"]

Read(c) ==
  /\ c \in Edits \ checked
  /\ seen' = [seen EXCEPT ![c] = files[Target[c]]]
  /\ UNCHANGED <<files, dirs, checked, applied, result>>

\* An edit finds its file as it was read, and then takes effect or gives up.
Check(c) ==
  /\ c \in Edits /\ checked = {}
  /\ seen[c] # Absent /\ files[Target[c]] = seen[c]
  /\ checked' = {c}
  /\ UNCHANGED <<files, dirs, seen, applied, result>>

GiveUp(c) ==
  /\ c \in checked
  /\ checked' = checked \ {c}
  /\ UNCHANGED <<files, dirs, seen, applied, result>>

MakeDirectories(c) ==
  /\ c \in Writes \ applied
  /\ result[c] # "ok"
  /\ dirs' = dirs \cup {Target[c]}
  /\ UNCHANGED <<files, seen, checked, applied, result>>

Effect(c) ==
  \/ c \in Writes /\ Target[c] \in dirs /\ files' = [files EXCEPT ![Target[c]] = Upload(c)]
  \/ c \in checked /\ files' = [files EXCEPT ![Target[c]] = Edited(c, seen[c])]
  \/ /\ c \in Moves
     /\ files[Source[c]] # Absent /\ Target[c] \in dirs
     /\ files' = [files EXCEPT ![Source[c]] = Absent, ![Target[c]] = files[Source[c]]]
  \/ /\ c \in Removes
     /\ files[Target[c]] # Absent
     /\ files' = [files EXCEPT ![Target[c]] = Absent]

\* No other call comes between the check of an edit and its effect.
TakeEffect(c) ==
  /\ c \notin applied
  /\ result[c] # "ok"
  /\ checked \subseteq {c}
  /\ Effect(c)
  /\ checked' = {}
  /\ applied' = applied \cup {c}
  /\ UNCHANGED <<dirs, seen, result>>

Answer(c) ==
  /\ result[c] = "none"
  /\ \/ c \in applied /\ result' = [result EXCEPT ![c] = "ok"]
     \/ result' = [result EXCEPT ![c] = "failed"]
  /\ UNCHANGED <<files, dirs, seen, checked, applied>>

\* The channel to the agent breaks under several calls.
Break(S) ==
  /\ \A c \in S : result[c] = "none"
  /\ result' = [c \in Calls |-> IF c \in S THEN "failed" ELSE result[c]]
  /\ UNCHANGED <<files, dirs, seen, checked, applied>>

ShellWrites(p) ==
  /\ files' = [files EXCEPT ![p] = ByShell]
  /\ dirs' = dirs \cup {p}
  /\ UNCHANGED <<seen, checked, applied, result>>

Next ==
  \/ \E c \in Calls : Read(c) \/ Check(c) \/ GiveUp(c) \/ MakeDirectories(c) \/ TakeEffect(c) \/ Answer(c)
  \/ \E S \in SUBSET Calls : Break(S)
  \/ \E p \in DOMAIN files : ShellWrites(p)

Spec == Init /\ [][Next]_vars
=============================================================================

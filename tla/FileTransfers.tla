--------------------------- MODULE FileTransfers ---------------------------
(***************************************************************************)
(* The file tools of a turn, from the AgentFileClient of the daemon over   *)
(* the frame channel to the guest agent and back: requests are queued,     *)
(* written to a socket that takes part of them, served one at a time, and  *)
(* their answers are given to the calls in the order they asked.  The      *)
(* socket may fail, an answer may be unreadable, the source of an upload   *)
(* may fail, the guest may refuse, and commands of the turn write files    *)
(* and hold the agent up.                                                  *)
(*                                                                         *)
(* A frame is two pieces on the wire, a request names its call and its     *)
(* step, and a content is a sequence of marks of those who made it.  The   *)
(* parent directories of a path count as one.                              *)
(***************************************************************************)
EXTENDS Naturals, Sequences, FiniteSets, SequencesExt

CONSTANTS
  Writes, Edits, Moves, Removes,   \* the calls, by tool
  Target,      \* the path of a call; for a move its destination
  Source,      \* the source of a move
  Initial,     \* the workspace the turn starts with
  Rooted,      \* the paths whose parent directories are there then
  Shell,       \* the mark of a command
  Capacity,    \* the transfers the agent holds at most: 8
  Mixes,       \* bound: the sets of calls that are made at the same time
  MaxGarbled,  \* bound: answers that cannot be decoded
  MaxShell     \* bound: files commands write, and times they hold the agent

VARIABLES
  step,      \* what a call asks for next, or waits for
  result,    \* "idle", a call nobody makes; "none", "ok", "failed"
  seen,      \* the content whose digest an edit was given
  channel,   \* "open" or "closed"
  pending,   \* AgentFrameChannel.pending, as the calls that wait
  frames,    \* SocketFrameWriter.frames
  offset,    \* the pieces of the first of them that were written
  wire,      \* pieces on their way to the agent
  replies,   \* answers on their way back
  agent,     \* "up" or "gone"
  editing,   \* the edit between its digest check and its rename, if any
  held,      \* the agent stands in a request for a command
  temps,     \* FileService.writes: the temporary files of the open transfers
  litter,    \* the calls of which a temporary name stayed in the workspace
  dirs,      \* the paths whose parent directories are there
  files,     \* the content of each path
  applied,   \* the calls whose effect the workspace has had
  garbled, commands

client == <<step, result>>
writer == <<frames, offset>>
service == <<temps, litter, dirs, files, applied, seen>>
guest == <<agent, editing, held, service>>
limits == <<garbled, commands>>
transferVars == <<client, channel, pending, writer, wire, replies, guest, limits>>

Calls == Writes \cup Edits \cup Moves \cup Removes

\* A call is of one tool, its path is in the workspace, and a file is in a directory.
ASSUME CallsAssumption ==
  /\ Writes \cap Removes = {} /\ Edits \cap Moves = {}
  /\ (Writes \cup Removes) \cap (Edits \cup Moves) = {}
  /\ Target \in [Calls -> DOMAIN Initial]
  /\ \A x \in DOMAIN Initial : Initial[x] # <<>> => x \in Rooted

Absent == <<>>
ByShell == <<<<Shell, 0>>>>
Upload(c) == <<<<c, 1>>, <<c, 2>>>>
Edited(c, f) == Append(f, <<c, 0>>)

FirstStep(c) ==
  CASE c \in Writes -> "begin" [] c \in Edits -> "read" [] c \in Moves -> "move" [] c \in Removes -> "remove"

\* The steps after which a transfer may be open, and abort follows a failure.
Uploading == {"begin", "chunk1", "chunk2", "commit"}

FilesInit ==
  /\ step = [c \in Calls |-> FirstStep(c)]
  /\ \E S \in Mixes : result = [c \in Calls |-> IF c \in S THEN "none" ELSE "idle"]
  /\ seen = [c \in Edits |-> Absent]
  /\ channel = "open"
  /\ pending = <<>> /\ frames = <<>> /\ offset = 0 /\ wire = <<>> /\ replies = <<>>
  /\ agent = "up"
  /\ editing = <<>> /\ held = FALSE
  /\ temps = [c \in {} |-> <<>>] /\ litter = {}
  /\ files = Initial /\ dirs = Rooted
  /\ applied = {}
  /\ garbled = 0 /\ commands = 0

----------------------------------------------------------------------------
(* the daemon: AgentFileClient                                             *)

Open == {c \in Calls : result[c] = "none"}
Waits(c) == c \in Range(pending)

\* Wrong: a write returns at its first failure.
NextStepWithoutAbort(s, ok) ==
  IF ok THEN CASE s = "begin" -> "chunk1" [] s = "chunk1" -> "chunk2" [] s = "chunk2" -> "commit"
               [] s = "read" -> "edit" [] OTHER -> "over"
  ELSE "over"

\* What a call asks for after an answer, "over" when it returns.
NextStep(s, ok) ==
  IF ok THEN CASE s = "begin" -> "chunk1" [] s = "chunk1" -> "chunk2" [] s = "chunk2" -> "commit"
               [] s = "read" -> "edit" [] OTHER -> "over"
  ELSE IF s \in Uploading THEN "abort" ELSE "over"

\* What it returns: the abort of a transfer is the end of a write that failed.
Verdict(s, ok) ==
  IF NextStep(s, ok) # "over" THEN "none" ELSE IF ok /\ s # "abort" THEN "ok" ELSE "failed"

\* The answers of the calls in S were ok, or were not.
Answered(S, ok) ==
  /\ step' = [c \in Calls |-> IF c \in S THEN NextStep(step[c], ok) ELSE step[c]]
  /\ result' = [c \in Calls |-> IF c \in S THEN Verdict(step[c], ok) ELSE result[c]]

\* The stream an upload reads from throws between two chunks.
SourceFails(c) ==
  /\ c \in Open /\ ~Waits(c)
  /\ step[c] \in {"chunk1", "chunk2", "commit"}
  /\ step' = [step EXCEPT ![c] = "abort"]
  /\ UNCHANGED <<result, channel, pending, writer, wire, replies, guest, limits>>

----------------------------------------------------------------------------
(* the channel: SocketFrameWriter and AgentFrameChannel                    *)

\* The pieces of frames not yet written.
Unwritten(fs, o) == SubSeq([i \in 1 .. 2 * Len(fs) |-> <<fs[(i + 1) \div 2], i % 2>>], o + 1, 2 * Len(fs))

\* Wrong: a frame that was taken in part is written from its start again.
FlushRestarts(fs, n) ==
  /\ wire' = wire \o SubSeq(Unwritten(fs, offset), 1, n)
  /\ frames' = SubSeq(fs, (offset + n) \div 2 + 1, Len(fs))
  /\ offset' = 0

\* flush(): the socket takes n pieces of fs, and the rest waits for drain().
Flush(fs, n) ==
  /\ wire' = wire \o SubSeq(Unwritten(fs, offset), 1, n)
  /\ frames' = SubSeq(fs, (offset + n) \div 2 + 1, Len(fs))
  /\ offset' = (offset + n) % 2

\* request(): the call waits for its answer and its frame is queued.
Request(c) ==
  LET fs == Append(frames, <<c, step[c]>>) IN
  /\ c \in Open /\ ~Waits(c)
  /\ channel = "open"
  /\ pending' = Append(pending, c)
  /\ \E n \in 0 .. 2 * Len(fs) - offset : Flush(fs, n)
  /\ UNCHANGED <<client, channel, replies, guest, limits>>

\* request() of a closed channel rejects, and so does the abort that follows.
RequestClosed(c) ==
  /\ c \in Open /\ ~Waits(c)
  /\ channel = "closed"
  /\ Answered({c}, FALSE)
  /\ UNCHANGED <<channel, pending, writer, wire, replies, guest, limits>>

Drain ==
  /\ channel = "open"
  /\ \E n \in 1 .. 2 * Len(frames) - offset : Flush(frames, n)
  /\ UNCHANGED <<client, channel, pending, replies, guest, limits>>

\* Wrong: an answer that cannot be decoded leaves its call waiting.
ReceiveKeeps ==
  LET r == Head(replies) IN
  /\ channel = "open"
  /\ replies # <<>> /\ pending # <<>>
  /\ replies' = Tail(replies)
  /\ \/ Answered({Head(pending)}, r.ok = "yes") /\ pending' = Tail(pending) /\ UNCHANGED garbled
     \/ garbled < MaxGarbled /\ garbled' = garbled + 1 /\ UNCHANGED <<client, pending>>
  /\ UNCHANGED <<channel, writer, wire, guest, commands>>

\* push(): a whole frame is the answer of the call that waits longest; one that
\* cannot be decoded rejects that call only.
Receive ==
  LET r == Head(replies) IN
  /\ channel = "open"
  /\ replies # <<>> /\ pending # <<>>
  /\ replies' = Tail(replies)
  /\ pending' = Tail(pending)
  /\ \/ Answered({Head(pending)}, r.ok = "yes") /\ UNCHANGED garbled
     \/ garbled < MaxGarbled /\ garbled' = garbled + 1 /\ Answered({Head(pending)}, FALSE)
  /\ UNCHANGED <<channel, writer, wire, guest, commands>>

\* fail(): every call that waits is rejected, what was not written is dropped, and
\* of what was the agent may get a part.
ChannelFails ==
  /\ channel = "open"
  /\ channel' = "closed"
  /\ Answered(Range(pending), FALSE)
  /\ pending' = <<>>
  /\ frames' = <<>> /\ offset' = 0
  /\ \E n \in 0 .. Len(wire) : wire' = SubSeq(wire, 1, n)
  /\ UNCHANGED <<replies, guest, limits>>

----------------------------------------------------------------------------
(* the guest agent: one request at a time, one answer each                 *)

\* The request at the head of the wire, when it has arrived as a whole.
Arrived(c, s) ==
  /\ agent = "up"
  /\ editing = <<>> /\ ~held
  /\ Len(wire) >= 2
  /\ wire[1] = <<<<c, s>>, 1>> /\ wire[2] = <<<<c, s>>, 0>>

Reply(c, s, ok) ==
  /\ replies' = Append(replies, [call |-> c, step |-> s, ok |-> ok])
  /\ wire' = SubSeq(wire, 3, Len(wire))
  /\ UNCHANGED <<client, channel, pending, writer, agent, editing, held, limits>>

Transfers == DOMAIN temps
Without(c) == [d \in Transfers \ {c} |-> temps[d]]
With(c, f) == [d \in Transfers \cup {c} |-> IF d = c THEN f ELSE temps[d]]

\* A transfer ends without its file; unlinkat may be refused, and its error is
\* ignored.
Discard(c) ==
  /\ temps' = Without(c)
  /\ litter' \in {litter, litter \cup ({c} \cap Transfers)}

\* file_write_begin: with create_parents the directories are made before the
\* target is looked at and the file is opened, and stay if that fails.
GuestBegin(c) ==
  /\ Arrived(c, "begin")
  /\ \/ /\ Cardinality(Transfers) < Capacity
        /\ dirs' \in {dirs, dirs \cup {Target[c]}}
        /\ \/ Target[c] \in dirs' /\ temps' = With(c, <<>>) /\ Reply(c, "begin", "yes")
           \/ UNCHANGED temps /\ Reply(c, "begin", "no")
     \/ UNCHANGED <<temps, dirs>> /\ Reply(c, "begin", "no")
  /\ UNCHANGED <<litter, files, applied, seen>>

\* file_write_chunk: no such transfer, no space left, too long and so aborted.
GuestChunk(c) ==
  \E i \in {1, 2} : LET s == IF i = 1 THEN "chunk1" ELSE "chunk2" IN
  /\ Arrived(c, s)
  /\ \/ /\ c \in Transfers
        /\ temps' = With(c, Append(temps[c], <<c, i>>))
        /\ UNCHANGED litter /\ Reply(c, s, "yes")
     \/ UNCHANGED <<temps, litter>> /\ Reply(c, s, "no")
     \/ Discard(c) /\ Reply(c, s, "no")
  /\ UNCHANGED <<dirs, files, applied, seen>>

\* file_write_commit: the transfer ends; the file is renamed, or the temporary
\* file is removed; an error may come after the rename.
GuestCommit(c) ==
  /\ Arrived(c, "commit")
  /\ \/ /\ c \in Transfers
        /\ temps' = Without(c) /\ UNCHANGED litter
        /\ files' = [files EXCEPT ![Target[c]] = temps[c]]
        /\ applied' = applied \cup {c}
        /\ \E ok \in {"yes", "no"} : Reply(c, "commit", ok)
     \/ Discard(c) /\ UNCHANGED <<files, applied>> /\ Reply(c, "commit", "no")
  /\ UNCHANGED <<dirs, seen>>

\* file_write_abort: a transfer that is not there is no error; one whose file
\* cannot be removed is, and has left the map by then.
GuestAbort(c) ==
  /\ Arrived(c, "abort")
  /\ Discard(c)
  /\ Reply(c, "abort", IF litter' = litter THEN "yes" ELSE "no")
  /\ UNCHANGED <<dirs, files, applied, seen>>

\* file_read: the caller learns the digest of the file.
GuestRead(c) ==
  /\ Arrived(c, "read")
  /\ \/ files[Target[c]] # Absent /\ seen' = [seen EXCEPT ![c] = files[Target[c]]] /\ Reply(c, "read", "yes")
     \/ UNCHANGED seen /\ Reply(c, "read", "no")
  /\ UNCHANGED <<temps, litter, dirs, files, applied>>

\* Wrong: the digest is not compared.
EditUnchecked(c) ==
  /\ Arrived(c, "edit")
  /\ editing' = <<c>>
  /\ wire' = SubSeq(wire, 3, Len(wire))
  /\ UNCHANGED <<client, channel, pending, writer, replies, agent, held, limits, service>>

\* file_edit reads the file and compares its digest with the expected one ...
GuestEdit(c) ==
  /\ Arrived(c, "edit")
  /\ \/ /\ files[Target[c]] = seen[c]
        /\ editing' = <<c>>
        /\ wire' = SubSeq(wire, 3, Len(wire))
        /\ UNCHANGED <<client, channel, pending, writer, replies, agent, held, limits>>
     \/ Reply(c, "edit", "no")
  /\ UNCHANGED service

\* ... and then atomic_replace renames the edited copy over it, or gives up, and may
\* not get rid of the copy.
GuestReplace(c) ==
  /\ editing = <<c>>
  /\ editing' = <<>>
  /\ \E ok \in {"yes", "no"} : replies' = Append(replies, [call |-> c, step |-> "edit", ok |-> ok]) /\
       \/ /\ files' = [files EXCEPT ![Target[c]] = Edited(c, seen[c])]
          /\ applied' = applied \cup {c}
          /\ UNCHANGED litter
       \/ ok = "no" /\ litter' \in {litter, litter \cup {c}} /\ UNCHANGED <<files, applied>>
  /\ UNCHANGED <<client, channel, pending, writer, wire, agent, held, temps, dirs, seen, limits>>

\* file_move renames over what is at the destination.
GuestMove(c) ==
  LET f == files[Source[c]] IN
  /\ Arrived(c, "move")
  /\ \/ /\ f # Absent /\ Target[c] \in dirs
        /\ files' = [files EXCEPT ![Source[c]] = Absent, ![Target[c]] = f]
        /\ applied' = applied \cup {c}
        /\ \E ok \in {"yes", "no"} : Reply(c, "move", ok)
     \/ UNCHANGED <<files, applied>> /\ Reply(c, "move", "no")
  /\ UNCHANGED <<temps, litter, dirs, seen>>

\* file_remove renames the entry to a name of its own and removes it there; when
\* that fails the entry stays, under that name; an error may also come after it.
GuestRemove(c) ==
  /\ Arrived(c, "remove")
  /\ \/ /\ files[Target[c]] # Absent
        /\ files' = [files EXCEPT ![Target[c]] = Absent]
        /\ applied' = applied \cup {c}
        /\ \/ UNCHANGED litter /\ \E ok \in {"yes", "no"} : Reply(c, "remove", ok)
           \/ litter' = litter \cup {c} /\ Reply(c, "remove", "no")
     \/ UNCHANGED <<litter, files, applied>> /\ Reply(c, "remove", "no")
  /\ UNCHANGED <<temps, dirs, seen>>

\* The agent ends: at the end of its input, at a frame of an edit, which nothing
\* in the daemon keeps below the limit of read_frame, or at what is no frame.
\* FileService is dropped and its transfers with it.
AgentExits ==
  /\ agent = "up"
  /\ editing = <<>> /\ ~held
  /\ \/ channel = "closed" /\ Len(wire) < 2
     \/ wire # <<>> /\ wire[1][1][2] = "edit"
     \/ Len(wire) >= 2 /\ wire[1][1] # wire[2][1]
  /\ agent' = "gone"
  /\ temps' = [c \in {} |-> <<>>]
  /\ \E left \in SUBSET Transfers : litter' = litter \cup left
  /\ UNCHANGED <<client, channel, pending, writer, wire, replies, editing, held, dirs, files, applied, seen, limits>>

\* A command of the turn writes a file, in directories it makes if it has to.
ShellWrites(p) ==
  /\ agent = "up"
  /\ commands < MaxShell
  /\ commands' = commands + 1
  /\ files' = [files EXCEPT ![p] = ByShell]
  /\ dirs' = dirs \cup {p}
  /\ UNCHANGED <<client, channel, pending, writer, wire, replies, agent, editing, held, temps, litter, applied, seen, garbled>>

\* The loop that serves files also serves commands, and stands in join_drains while
\* something keeps the output of one open, in write_all while one does not read ...
AgentHeld ==
  /\ agent = "up"
  /\ editing = <<>> /\ ~held
  /\ commands < MaxShell
  /\ commands' = commands + 1
  /\ held' = TRUE
  /\ UNCHANGED <<client, channel, pending, writer, wire, replies, agent, editing, service, garbled>>

\* ... until it does.
AgentFreed ==
  /\ held
  /\ held' = FALSE
  /\ UNCHANGED <<client, channel, pending, writer, wire, replies, agent, editing, service, limits>>

----------------------------------------------------------------------------
Serve ==
  \/ \E c \in Writes : GuestBegin(c) \/ GuestChunk(c) \/ GuestCommit(c) \/ GuestAbort(c)
  \/ \E c \in Edits : GuestRead(c) \/ GuestEdit(c) \/ GuestReplace(c)
  \/ \E c \in Moves : GuestMove(c)
  \/ \E c \in Removes : GuestRemove(c)

FilesNext ==
  \/ \E c \in Calls : SourceFails(c) \/ Request(c) \/ RequestClosed(c)
  \/ Serve \/ Drain \/ Receive \/ ChannelFails \/ AgentExits
  \/ \E p \in DOMAIN files : ShellWrites(p)
  \/ AgentHeld \/ AgentFreed

\* Calls go on when they can, the socket takes bytes in the end, the agent serves
\* what has arrived while no command holds it, answers are read, and the end of the
\* agent ends the socket.
FilesFairness ==
  /\ \A c \in Calls : WF_transferVars(Request(c) \/ RequestClosed(c))
  /\ WF_transferVars(Drain) /\ WF_transferVars(Serve) /\ WF_transferVars(Receive)
  /\ WF_transferVars(agent = "gone" /\ ChannelFails)

FilesSpec == FilesInit /\ [][FilesNext]_transferVars /\ FilesFairness

\* Not of the code: the commands of the turn let go of the agent in the end.
CommandsLetGo == WF_transferVars(AgentFreed)
ServingSpec == FilesSpec /\ CommandsLetGo

----------------------------------------------------------------------------
(* properties                                                              *)

\* What the agent has not read yet.
OnTheWay == wire \o Unwritten(frames, offset)

\* The calls wait in the order of their answers, those on their way, the one in
\* the making and those of the requests the agent has not read, each for the step
\* it asked for; and frames never interleave (agent-transport.ts:39-50, 75, 88).
AnswersInOrder ==
  channel = "open" =>
    /\ Len(OnTheWay) % 2 = 0
    /\ \A i \in 1 .. Len(OnTheWay) \div 2 :
         OnTheWay[2 * i - 1] = <<OnTheWay[2 * i][1], 1>> /\ OnTheWay[2 * i][2] = 0
    /\ [i \in DOMAIN pending |-> <<pending[i], step[pending[i]]>>] =
         [i \in DOMAIN replies |-> <<replies[i].call, replies[i].step>>]
           \o [i \in DOMAIN editing |-> <<editing[i], "edit">>]
           \o [i \in 1 .. Len(OnTheWay) \div 2 |-> OnTheWay[2 * i][1]]

\* When every tool call of a turn has returned and its lease is released, the agent
\* holds no transfer open, whatever failed; a temporary name stays in the workspace a
\* snapshot would take only of a call that was told it failed, where the guest could
\* not be rid of it (agent-files.ts:165, file_ops.rs:947, 959, 1186, 1555).
NoTransferLeft ==
  Open = {} /\ channel = "open" /\ agent = "up" =>
    Transfers = {} /\ \A c \in litter : c \notin Moves /\ result[c] = "failed"

\* Every tool changes the files at once or not at all, and at most once; "ok" means
\* it did; only the directories of a write come before it, and stay if it fails; an
\* edit replaces what its caller has read, or what a command put there after its
\* digest was checked (README.md:31, 242, file_ops.rs:840, 981, 1172).
Promised == INSTANCE AtomicFiles WITH
  checked <- {c \in Edits : editing = <<c>>},
  result <- [c \in Calls |-> IF result[c] = "idle" THEN "none" ELSE result[c]]
FilesAreAtomic == Promised!Spec

\* No call waits for ever while commands let go of the agent: an answer lost to its
\* call is an error for it, and a frame taken in part is completed
\* (agent-transport.ts:29, 80-84, 100-104).
CallsReturn == \A c \in Calls : result[c] = "none" ~> result[c] \in {"ok", "failed"}
=============================================================================

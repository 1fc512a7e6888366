--------------------------- MODULE ArtifactStore ---------------------------
(***************************************************************************)
(* The artifact store: uploads that stream into a temporary file of their  *)
(* own, are linked under the digest of what came, and are recorded and     *)
(* granted to their thread; several at once, possibly of the same content; *)
(* failures of each step, and crashes of the daemon.  The source of an     *)
(* export is a file of the workspace, read chunk by chunk while commands   *)
(* may replace it.                                                         *)
(***************************************************************************)
EXTENDS Naturals, Sequences, FiniteSets

CONSTANTS
  Uploads,
  UploadThread,   \* the thread of an upload
  Versions,       \* the contents the exported file may have, sequences of chunks
  MaxReplaced,    \* bound: times the file is replaced
  MaxRestarts     \* bound: crashes of the daemon

VARIABLES
  upload,     \* where putStream is, for each upload
  received,   \* the chunks it has got; together they name the digest
  size,       \* the size fileStat told it
  installed,  \* the uploads that made the file of their digest
  tmp,        \* the uploads whose temporary file exists
  stored,     \* the digests that have a file
  artifactRows, grants,   \* artifacts, and artifact_grants as <<thread, digest>>
  file,       \* what the exported file is
  lost,       \* the uploads a crash interrupted
  replaced, restarts

artifactVars == <<upload, received, size, installed, tmp, stored, artifactRows, grants, file, lost, replaced, restarts>>

UploadPcs == {"new", "streaming", "sealed", "linked", "closed", "unlink", "failed", "done"}
Ended == {"new", "failed", "done"}

ArtifactIdle ==
  /\ upload = [u \in Uploads |-> "done"] /\ received = [u \in Uploads |-> <<>>]
  /\ size = [u \in Uploads |-> 0] /\ installed = {} /\ tmp = {} /\ stored = {} /\ artifactRows = {} /\ grants = {}
  /\ file = <<>> /\ lost = {} /\ replaced = 0 /\ restarts = 0

ArtifactInit ==
  /\ upload = [u \in Uploads |-> "new"] /\ received = [u \in Uploads |-> <<>>]
  /\ size = [u \in Uploads |-> 0] /\ installed = {} /\ tmp = {} /\ stored = {} /\ artifactRows = {} /\ grants = {}
  /\ file \in Versions /\ lost = {} /\ replaced = 0 /\ restarts = 0

\* A command of the turn replaces the file.
ReplaceFile(v) ==
  /\ v # file
  /\ replaced < MaxReplaced
  /\ replaced' = replaced + 1
  /\ file' = v
  /\ UNCHANGED <<upload, received, size, installed, tmp, stored, artifactRows, grants, lost, restarts>>

\* exportWorkspaceArtifact: fileStat, and putStream creates the temporary file.
BeginUpload(u) ==
  /\ upload[u] = "new"
  /\ upload' = [upload EXCEPT ![u] = "streaming"]
  /\ size' = [size EXCEPT ![u] = Len(file)]
  /\ tmp' = tmp \cup {u}
  /\ UNCHANGED <<received, installed, stored, artifactRows, grants, file, lost, replaced, restarts>>

\* pull() of streamWorkspaceFile, and the write of the chunk: a file of another
\* size is an error, another file of the same size is not noticed.
PullChunk(u) ==
  LET n == Len(received[u]) + 1 IN
  /\ upload[u] = "streaming"
  /\ n <= size[u]
  /\ Len(file) = size[u]
  /\ received' = [received EXCEPT ![u] = Append(@, file[n])]
  /\ UNCHANGED <<upload, size, installed, tmp, stored, artifactRows, grants, file, lost, replaced, restarts>>

\* The stream is done: the file is synced and closed, its digest known.
SealUpload(u) ==
  /\ upload[u] = "streaming"
  /\ Len(received[u]) = size[u]
  /\ upload' = [upload EXCEPT ![u] = "sealed"]
  /\ UNCHANGED <<received, size, installed, tmp, stored, artifactRows, grants, file, lost, replaced, restarts>>

\* link(): a file that is there is taken for the same content.
LinkArtifact(u) ==
  LET d == received[u] IN
  /\ upload[u] = "sealed"
  /\ upload' = [upload EXCEPT ![u] = "linked"]
  /\ installed' = IF d \in stored THEN installed ELSE installed \cup {u}
  /\ stored' = stored \cup {d}
  /\ UNCHANGED <<received, size, tmp, artifactRows, grants, file, lost, replaced, restarts>>

\* The temporary file goes.
DropTemporary(u) ==
  /\ upload[u] = "linked"
  /\ upload' = [upload EXCEPT ![u] = "closed"]
  /\ tmp' = tmp \ {u}
  /\ UNCHANGED <<received, size, installed, stored, artifactRows, grants, file, lost, replaced, restarts>>

\* putArtifactAndGrant, and resolve(): what that rejects with is not caught any more.
GrantArtifact(u) ==
  LET d == received[u] IN
  /\ upload[u] = "closed"
  /\ artifactRows' = artifactRows \cup {d}
  /\ grants' = grants \cup {<<UploadThread[u], d>>}
  /\ upload' = [upload EXCEPT ![u] = IF d \in stored THEN "done" ELSE "failed"]
  /\ UNCHANGED <<received, size, installed, tmp, stored, file, lost, replaced, restarts>>

\* Wrong: a failed upload removes the file of its digest, whoever made it.
FailAndUnlink(u) ==
  /\ upload[u] \in {"streaming", "sealed", "linked", "closed"}
  /\ tmp' = tmp \ {u}
  /\ upload' = [upload EXCEPT ![u] = IF @ \in {"streaming", "sealed"} THEN "failed" ELSE "unlink"]
  /\ UNCHANGED <<received, size, installed, stored, artifactRows, grants, file, lost, replaced, restarts>>

\* Wrong: a failed upload keeps its temporary file.
FailKeepsTemporary(u) ==
  /\ upload[u] \in {"streaming", "sealed", "linked", "closed"}
  /\ upload' = [upload EXCEPT ![u] = IF u \in installed THEN "unlink" ELSE "failed"]
  /\ UNCHANGED <<received, size, installed, tmp, stored, artifactRows, grants, file, lost, replaced, restarts>>

\* Any step throws: first the temporary file is removed ...
UploadFails(u) ==
  /\ upload[u] \in {"streaming", "sealed", "linked", "closed"}
  /\ tmp' = tmp \ {u}
  /\ upload' = [upload EXCEPT ![u] = IF u \in installed THEN "unlink" ELSE "failed"]
  /\ UNCHANGED <<received, size, installed, stored, artifactRows, grants, file, lost, replaced, restarts>>

\* ... then the file of the digest, by the upload that made it.
UnlinkArtifact(u) ==
  /\ upload[u] = "unlink"
  /\ stored' = stored \ {received[u]}
  /\ upload' = [upload EXCEPT ![u] = "failed"]
  /\ UNCHANGED <<received, size, installed, tmp, artifactRows, grants, file, lost, replaced, restarts>>

\* The daemon dies.  Nothing looks at the artifact directory when it starts again.
ArtifactCrash ==
  /\ restarts < MaxRestarts
  /\ restarts' = restarts + 1
  /\ lost' = lost \cup {u \in Uploads : upload[u] \notin Ended}
  /\ upload' = [u \in Uploads |-> IF upload[u] \in Ended THEN upload[u] ELSE "failed"]
  /\ UNCHANGED <<received, size, installed, tmp, stored, artifactRows, grants, file, replaced>>

ArtifactNext ==
  \/ \E v \in Versions : ReplaceFile(v)
  \/ \E u \in Uploads :
       \/ BeginUpload(u) \/ PullChunk(u) \/ SealUpload(u) \/ LinkArtifact(u) \/ DropTemporary(u)
       \/ GrantArtifact(u) \/ UploadFails(u) \/ UnlinkArtifact(u)
  \/ ArtifactCrash

ArtifactSpec == ArtifactInit /\ [][ArtifactNext]_artifactVars

----------------------------------------------------------------------------
(* properties                                                              *)

\* resolve(), for a thread.
Resolves(th, d) == <<th, d>> \in grants /\ d \in artifactRows /\ d \in stored

\* A granted artifact can be resolved, through crashes and failures of other
\* uploads of the same content; unless an upload that had made the file it shares
\* failed and removed it, before the grant or after, which the store does not guard
\* against (artifacts.ts:97).
GrantedResolves ==
  \A g \in grants :
    \/ Resolves(g[1], g[2])
    \/ \E u \in installed : received[u] = g[2] /\ upload[u] = "failed" /\ u \notin lost

\* What a failed upload leaves: nothing, but for a crash in the middle of it; and a
\* file without a row belongs to an upload under way (artifacts.ts:94, 97-101).
UploadsLeaveNothing ==
  /\ \A u \in tmp : upload[u] \notin Ended \/ u \in lost
  /\ \A d \in stored \ artifactRows : \E u \in Uploads :
       u \in installed /\ received[u] = d /\ (upload[u] \notin Ended \/ u \in lost)
=============================================================================

------------------------ MODULE ArtifactStoreProofs ------------------------
(***************************************************************************)
(* Theorems about ArtifactStore: ArtifactInv is inductive for any uploads, *)
(* threads and contents, and the two safety properties follow from it.     *)
(***************************************************************************)
EXTENDS ArtifactStore, TLAPS

----------------------------------------------------------------------------
(* the inductive invariant                                                 *)

\* What each upload has is a function of the upload.
UploadTypes ==
  /\ upload \in [Uploads -> UploadPcs]
  /\ received = [u \in Uploads |-> received[u]]
  /\ installed \subseteq Uploads
  /\ tmp \subseteq Uploads

\* The file of d is there, or an upload that made one has failed and removed it.
Accounted(d) ==
  \/ d \in stored
  \/ \E u \in installed : received[u] = d /\ upload[u] = "failed" /\ u \notin lost

\* An upload made a file only after its content was complete, and only such an
\* upload takes a file away; what a crash interrupted is over.
InstalledIsSealed ==
  \A u \in Uploads :
    /\ u \in installed => upload[u] \notin {"new", "streaming", "sealed"}
    /\ upload[u] = "unlink" => u \in installed
    /\ u \in lost => upload[u] \in {"failed", "done"}

\* Past the link the content of an upload is accounted for.
LinkedAccounted ==
  \A u \in Uploads : upload[u] \in {"linked", "closed", "done"} => Accounted(received[u])

\* A grant has the row it refers to, and its content is accounted for.
GrantsAccounted ==
  \A g \in grants : g = <<g[1], g[2]>> /\ g[2] \in artifactRows /\ Accounted(g[2])

\* The temporary file goes before the row is written and before the file is taken
\* away again.
TemporaryGone == \A u \in tmp : upload[u] \notin {"closed", "unlink"}

ArtifactInv ==
  /\ UploadTypes /\ InstalledIsSealed /\ LinkedAccounted /\ GrantsAccounted
  /\ TemporaryGone /\ UploadsLeaveNothing

----------------------------------------------------------------------------
(* one lemma per step of putStream                                         *)

\* An empty store: nothing uploaded, nothing stored, nothing granted.
LEMMA ArtifactInitInv == ArtifactInit => ArtifactInv
  BY DEF ArtifactInit, ArtifactInv, UploadTypes, UploadPcs, InstalledIsSealed, Ended, LinkedAccounted,
         GrantsAccounted, TemporaryGone, UploadsLeaveNothing, Accounted

\* A command of the turn touches nothing of the store.
LEMMA ReplaceFileKeeps ==
  ASSUME ArtifactInv, NEW v \in Versions, ReplaceFile(v)
  PROVE  ArtifactInv'
  BY DEF ReplaceFile, ArtifactInv, UploadTypes, InstalledIsSealed, LinkedAccounted,
         GrantsAccounted, TemporaryGone, UploadsLeaveNothing, Accounted

\* A new upload has a temporary file and has made none of its digest.
LEMMA BeginUploadKeeps ==
  ASSUME ArtifactInv, NEW u \in Uploads, BeginUpload(u)
  PROVE  ArtifactInv'
  <1> USE DEF BeginUpload
  <1>1. UploadTypes'
    BY DEF ArtifactInv, UploadTypes, UploadPcs
  <1>2. InstalledIsSealed'
    BY DEF ArtifactInv, UploadTypes, InstalledIsSealed, Ended
  <1>3. \A d : Accounted(d) => Accounted(d)'
    BY DEF ArtifactInv, UploadTypes, InstalledIsSealed, Accounted, Ended
  <1>4. LinkedAccounted'
    BY <1>3 DEF ArtifactInv, UploadTypes, LinkedAccounted, Accounted
  <1>5. GrantsAccounted'
    BY <1>3 DEF ArtifactInv, UploadTypes, LinkedAccounted, GrantsAccounted
  <1>6. TemporaryGone'
    BY DEF ArtifactInv, UploadTypes, TemporaryGone
  <1>7. UploadsLeaveNothing'
    BY DEF ArtifactInv, UploadTypes, InstalledIsSealed, TemporaryGone, UploadsLeaveNothing, Ended
  <1> QED
    BY <1>1, <1>2, <1>4, <1>5, <1>6, <1>7 DEF ArtifactInv

\* The content of an upload that streams is nobody's yet.
LEMMA PullChunkKeeps ==
  ASSUME ArtifactInv, NEW u \in Uploads, PullChunk(u)
  PROVE  ArtifactInv'
  <1> USE DEF PullChunk
  <1>1. UploadTypes'
    BY DEF ArtifactInv, UploadTypes, UploadPcs
  <1>2. InstalledIsSealed'
    BY DEF ArtifactInv, UploadTypes, InstalledIsSealed, Ended
  <1>3. \A d : Accounted(d) => Accounted(d)'
    BY DEF ArtifactInv, UploadTypes, InstalledIsSealed, Accounted, Ended
  <1>4. LinkedAccounted'
    BY <1>3 DEF ArtifactInv, UploadTypes, LinkedAccounted, Accounted
  <1>5. GrantsAccounted'
    BY <1>3 DEF ArtifactInv, UploadTypes, LinkedAccounted, GrantsAccounted
  <1>6. TemporaryGone'
    BY DEF ArtifactInv, UploadTypes, TemporaryGone
  <1>7. UploadsLeaveNothing'
    BY DEF ArtifactInv, UploadTypes, InstalledIsSealed, TemporaryGone, UploadsLeaveNothing, Ended
  <1> QED
    BY <1>1, <1>2, <1>4, <1>5, <1>6, <1>7 DEF ArtifactInv

\* A complete content is still only in the temporary file.
LEMMA SealUploadKeeps ==
  ASSUME ArtifactInv, NEW u \in Uploads, SealUpload(u)
  PROVE  ArtifactInv'
  <1> USE DEF SealUpload
  <1>1. UploadTypes'
    BY DEF ArtifactInv, UploadTypes, UploadPcs
  <1>2. InstalledIsSealed'
    BY DEF ArtifactInv, UploadTypes, InstalledIsSealed, Ended
  <1>3. \A d : Accounted(d) => Accounted(d)'
    BY DEF ArtifactInv, UploadTypes, InstalledIsSealed, Accounted, Ended
  <1>4. LinkedAccounted'
    BY <1>3 DEF ArtifactInv, UploadTypes, LinkedAccounted, Accounted
  <1>5. GrantsAccounted'
    BY <1>3 DEF ArtifactInv, UploadTypes, LinkedAccounted, GrantsAccounted
  <1>6. TemporaryGone'
    BY DEF ArtifactInv, UploadTypes, TemporaryGone
  <1>7. UploadsLeaveNothing'
    BY DEF ArtifactInv, UploadTypes, InstalledIsSealed, TemporaryGone, UploadsLeaveNothing, Ended
  <1> QED
    BY <1>1, <1>2, <1>4, <1>5, <1>6, <1>7 DEF ArtifactInv

\* The link makes the file of the digest, or finds it there.
LEMMA LinkArtifactKeeps ==
  ASSUME ArtifactInv, NEW u \in Uploads, LinkArtifact(u)
  PROVE  ArtifactInv'
  <1> USE DEF LinkArtifact
  <1>1. UploadTypes'
    BY DEF ArtifactInv, UploadTypes, UploadPcs
  <1>2. InstalledIsSealed'
    BY DEF ArtifactInv, UploadTypes, InstalledIsSealed, Ended
  <1>3. \A d : Accounted(d) => Accounted(d)'
    BY DEF ArtifactInv, UploadTypes, InstalledIsSealed, Accounted, Ended
  <1>4. LinkedAccounted'
    BY <1>3 DEF ArtifactInv, UploadTypes, LinkedAccounted, Accounted
  <1>5. GrantsAccounted'
    BY <1>3 DEF ArtifactInv, UploadTypes, LinkedAccounted, GrantsAccounted
  <1>6. TemporaryGone'
    BY DEF ArtifactInv, UploadTypes, TemporaryGone
  <1>7. UploadsLeaveNothing'
    BY DEF ArtifactInv, UploadTypes, InstalledIsSealed, TemporaryGone, UploadsLeaveNothing, Ended
  <1> QED
    BY <1>1, <1>2, <1>4, <1>5, <1>6, <1>7 DEF ArtifactInv

\* The temporary file goes while the upload is under way.
LEMMA DropTemporaryKeeps ==
  ASSUME ArtifactInv, NEW u \in Uploads, DropTemporary(u)
  PROVE  ArtifactInv'
  <1> USE DEF DropTemporary
  <1>1. UploadTypes'
    BY DEF ArtifactInv, UploadTypes, UploadPcs
  <1>2. InstalledIsSealed'
    BY DEF ArtifactInv, UploadTypes, InstalledIsSealed, Ended
  <1>3. \A d : Accounted(d) => Accounted(d)'
    BY DEF ArtifactInv, UploadTypes, InstalledIsSealed, Accounted, Ended
  <1>4. LinkedAccounted'
    BY <1>3 DEF ArtifactInv, UploadTypes, LinkedAccounted, Accounted
  <1>5. GrantsAccounted'
    BY <1>3 DEF ArtifactInv, UploadTypes, LinkedAccounted, GrantsAccounted
  <1>6. TemporaryGone'
    BY DEF ArtifactInv, UploadTypes, TemporaryGone
  <1>7. UploadsLeaveNothing'
    BY DEF ArtifactInv, UploadTypes, InstalledIsSealed, TemporaryGone, UploadsLeaveNothing, Ended
  <1> QED
    BY <1>1, <1>2, <1>4, <1>5, <1>6, <1>7 DEF ArtifactInv

\* The row covers the file, and resolve() tells whether it is still there.
LEMMA GrantArtifactKeeps ==
  ASSUME ArtifactInv, NEW u \in Uploads, GrantArtifact(u)
  PROVE  ArtifactInv'
  <1> USE DEF GrantArtifact
  <1>1. UploadTypes'
    BY DEF ArtifactInv, UploadTypes, UploadPcs
  <1>2. InstalledIsSealed'
    BY DEF ArtifactInv, UploadTypes, InstalledIsSealed, Ended
  <1>3. \A d : Accounted(d) => Accounted(d)'
    BY DEF ArtifactInv, UploadTypes, InstalledIsSealed, Accounted, Ended
  <1>4. LinkedAccounted'
    BY <1>3 DEF ArtifactInv, UploadTypes, LinkedAccounted, Accounted
  <1>5. GrantsAccounted'
    BY <1>3 DEF ArtifactInv, UploadTypes, LinkedAccounted, GrantsAccounted
  <1>6. TemporaryGone'
    BY DEF ArtifactInv, UploadTypes, TemporaryGone
  <1>7. UploadsLeaveNothing'
    BY DEF ArtifactInv, UploadTypes, InstalledIsSealed, TemporaryGone, UploadsLeaveNothing, Ended
  <1> QED
    BY <1>1, <1>2, <1>4, <1>5, <1>6, <1>7 DEF ArtifactInv

\* A failure before the link has no file to take back; one after it keeps the
\* upload under way until the file it made is gone.
LEMMA UploadFailsKeeps ==
  ASSUME ArtifactInv, NEW u \in Uploads, UploadFails(u)
  PROVE  ArtifactInv'
  <1> USE DEF UploadFails
  <1>1. UploadTypes'
    BY DEF ArtifactInv, UploadTypes, UploadPcs
  <1>2. InstalledIsSealed'
    BY DEF ArtifactInv, UploadTypes, InstalledIsSealed, Ended
  <1>3. \A d : Accounted(d) => Accounted(d)'
    BY DEF ArtifactInv, UploadTypes, InstalledIsSealed, Accounted, Ended
  <1>4. LinkedAccounted'
    BY <1>3 DEF ArtifactInv, UploadTypes, LinkedAccounted, Accounted
  <1>5. GrantsAccounted'
    BY <1>3 DEF ArtifactInv, UploadTypes, LinkedAccounted, GrantsAccounted
  <1>6. TemporaryGone'
    BY DEF ArtifactInv, UploadTypes, TemporaryGone
  <1>7. UploadsLeaveNothing'
    BY DEF ArtifactInv, UploadTypes, InstalledIsSealed, TemporaryGone, UploadsLeaveNothing, Ended
  <1> QED
    BY <1>1, <1>2, <1>4, <1>5, <1>6, <1>7 DEF ArtifactInv

\* The upload that made the file takes it away, from under every grant of the
\* digest, and has failed.
LEMMA UnlinkArtifactKeeps ==
  ASSUME ArtifactInv, NEW u \in Uploads, UnlinkArtifact(u)
  PROVE  ArtifactInv'
  <1> USE DEF UnlinkArtifact
  <1>1. UploadTypes'
    BY DEF ArtifactInv, UploadTypes, UploadPcs
  <1>2. InstalledIsSealed'
    BY DEF ArtifactInv, UploadTypes, InstalledIsSealed, Ended
  <1>3. \A d : Accounted(d) => Accounted(d)'
    BY DEF ArtifactInv, UploadTypes, InstalledIsSealed, Accounted, Ended
  <1>4. LinkedAccounted'
    BY <1>3 DEF ArtifactInv, UploadTypes, LinkedAccounted, Accounted
  <1>5. GrantsAccounted'
    BY <1>3 DEF ArtifactInv, UploadTypes, LinkedAccounted, GrantsAccounted
  <1>6. TemporaryGone'
    BY DEF ArtifactInv, UploadTypes, TemporaryGone
  <1>7. UploadsLeaveNothing'
    BY DEF ArtifactInv, UploadTypes, InstalledIsSealed, TemporaryGone, UploadsLeaveNothing, Ended
  <1> QED
    BY <1>1, <1>2, <1>4, <1>5, <1>6, <1>7 DEF ArtifactInv

\* What a crash interrupts is lost, with the files it had.
LEMMA ArtifactCrashKeeps ==
  ASSUME ArtifactInv, ArtifactCrash
  PROVE  ArtifactInv'
  <1> USE DEF ArtifactCrash, Ended
  <1>1. UploadTypes'
    BY DEF ArtifactInv, UploadTypes, UploadPcs
  <1>2. InstalledIsSealed'
    BY DEF ArtifactInv, UploadTypes, InstalledIsSealed, Ended
  <1>3. \A d : Accounted(d) => Accounted(d)'
    BY DEF ArtifactInv, UploadTypes, Accounted
  <1>4. LinkedAccounted'
    BY <1>3 DEF ArtifactInv, UploadTypes, LinkedAccounted
  <1>5. GrantsAccounted'
    BY <1>3 DEF ArtifactInv, GrantsAccounted
  <1>6. TemporaryGone'
    BY DEF ArtifactInv, UploadTypes, TemporaryGone
  <1>7. UploadsLeaveNothing'
    BY DEF ArtifactInv, UploadTypes, UploadsLeaveNothing
  <1> QED
    BY <1>1, <1>2, <1>4, <1>5, <1>6, <1>7 DEF ArtifactInv

\* Every step of the store keeps the invariant.
LEMMA ArtifactNextInv == ArtifactInv /\ [ArtifactNext]_artifactVars => ArtifactInv'
  <1> SUFFICES ASSUME ArtifactInv, [ArtifactNext]_artifactVars
               PROVE  ArtifactInv'
    OBVIOUS
  <1>1. CASE UNCHANGED artifactVars
    BY <1>1 DEF artifactVars, ArtifactInv, UploadTypes, InstalledIsSealed, LinkedAccounted,
                GrantsAccounted, TemporaryGone, UploadsLeaveNothing, Accounted
  <1>2. CASE ArtifactNext
    BY <1>2, ReplaceFileKeeps, BeginUploadKeeps, PullChunkKeeps, SealUploadKeeps,
       LinkArtifactKeeps, DropTemporaryKeeps, GrantArtifactKeeps, UploadFailsKeeps,
       UnlinkArtifactKeeps, ArtifactCrashKeeps DEF ArtifactNext
  <1> QED
    BY <1>1, <1>2

----------------------------------------------------------------------------
(* theorems                                                                *)

\* The invariant of the artifact store: who made which file, and what a grant
\* rests on, at every instant of any uploads (artifacts.ts:48-107).
THEOREM ArtifactInvariant == ArtifactSpec => []ArtifactInv
  BY ArtifactInitInv, ArtifactNextInv, PTL DEF ArtifactSpec

\* A granted artifact has its row and its file, whatever fails or crashes, as long
\* as no upload that made the file failed after that (artifacts.ts:76-101).
THEOREM GrantsAlwaysResolve == ArtifactSpec => []GrantedResolves
  <1>1. ArtifactInv => GrantedResolves
    BY DEF ArtifactInv, GrantsAccounted, Accounted, GrantedResolves, Resolves
  <1> QED
    BY <1>1, ArtifactInvariant, PTL

\* A failed upload leaves no temporary file and no file without a row, unless a
\* crash was in the middle of it (artifacts.ts:94-101).
THEOREM UploadsNeverLeaveAnything == ArtifactSpec => []UploadsLeaveNothing
  <1>1. ArtifactInv => UploadsLeaveNothing
    BY DEF ArtifactInv
  <1> QED
    BY <1>1, ArtifactInvariant, PTL
=============================================================================

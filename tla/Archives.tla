------------------------------ MODULE Archives ------------------------------
(***************************************************************************)
(* The CFS archive of a workspace: what the writer of the guest and the    *)
(* one of the daemon put in it, how extractCfs takes it apart entry by     *)
(* entry, both to validate a snapshot and to materialize a commit, and the *)
(* tar archive Docker restores the result from.                            *)
(*                                                                         *)
(* A workspace is a function from paths, sequences of names, to nodes.  A  *)
(* file node names its inode by the path the inode is first met at, and so *)
(* its contents; times and the bytes of the encoding are left out.  Names  *)
(* need not be UTF-8 nor free of backslashes: what the writers make of     *)
(* them is TextOf and Slashed.                                             *)
(***************************************************************************)
EXTENDS Naturals, Sequences, FiniteSets, SequencesExt

CONSTANTS
  PathOrder,    \* the paths in use, in the byte order of their text
  LongPaths,    \* those, and the targets of links, longer than the 100 bytes of a tar header
  Workspaces,   \* the workspaces snapshots are taken of
  HandMade,     \* other archives extractCfs may be given
  TextOf,       \* what decoding as UTF-8 makes of a path or of the target of a link
  Slashed,      \* the path a text is when its backslashes are slashes
  Root          \* whether the daemon runs as root

VARIABLES
  writer,       \* who wrote it: "guest", "daemon", or "none" for another archive
  source,       \* the workspace it was written from, NoTree if none
  archive,      \* the archive
  next,         \* the entry the loop of extractCfs is at
  built,        \* the staging directory of the extraction
  verdict       \* "idle", "extracting", "accepted" or "rejected"

archiveVars == <<writer, source, archive, next, built, verdict>>

NoTree == [p \in {} |-> {}]
Paths == Range(PathOrder)
Position(p) == CHOOSE i \in DOMAIN PathOrder : PathOrder[i] = p

\* The ancestors of p inside the workspace.
Ancestors(p) == {SubSeq(p, 1, n) : n \in 1 .. Len(p) - 1}

\* A link at p to target, names and "..", resolved by its text, stays in the
\* workspace.  The code looks at the resolved path only: a target that leaves the
\* root on its way comes back by the name of the root's own directory, which for
\* extractCfs is a random one; that exportCfs would take one is left out.
Inside(p, target) ==
  \A n \in 1 .. Len(target) :
    LET ups == Cardinality({i \in 1 .. n : target[i] = ".."}) IN
    Len(p) - 1 + n >= 2 * ups

\* The path the inode of p is first met at: the hardLinks map of the writers.
FirstLink(t, p) ==
  PathOrder[CHOOSE i \in DOMAIN PathOrder :
    /\ PathOrder[i] \in DOMAIN t
    /\ t[PathOrder[i]].kind = "file" /\ t[PathOrder[i]].arg = t[p].arg
    /\ \A j \in 1 .. i - 1 :
         ~(PathOrder[j] \in DOMAIN t /\ t[PathOrder[j]].kind = "file" /\ t[PathOrder[j]].arg = t[p].arg)]

\* Both writers refuse what is no file, directory or link, and setuid bits.
Storable(t) == \A p \in DOMAIN t : t[p].kind # "fifo" /\ t[p].mode # "suid"

\* exportCfs: a symbolic link must resolve into the workspace, and lstat finds a
\* name as readdir decoded it.
DaemonAccepts(t) ==
  /\ Storable(t)
  /\ \A p \in DOMAIN t :
       /\ TextOf[p] = p
       /\ t[p].kind = "symlink" => Inside(p, TextOf[t[p].arg])

\* export_workspace_file: a symbolic link must not have a ".." at all.
GuestAccepts(t) ==
  Storable(t) /\ \A p \in DOMAIN t : t[p].kind = "symlink" => ".." \notin Range(t[p].arg)

\* The paths of a workspace in the order of the writers.
Collected(t) ==
  [i \in 1 .. Cardinality(DOMAIN t) |->
     CHOOSE p \in DOMAIN t : Cardinality({q \in DOMAIN t : Position(q) <= Position(p)}) = i]

\* The path and the target a writer stores: the guest takes a backslash for a slash.
StoredPath(p, w) == IF w = "guest" THEN Slashed[TextOf[p]] ELSE TextOf[p]
StoredTarget(target) == TextOf[target]

\* Wrong: a further name of a file refers to the name before it.
EntryOfLastLink(t, p, w) ==
  LET before == {i \in 1 .. Position(p) - 1 :
                   /\ PathOrder[i] \in DOMAIN t
                   /\ t[PathOrder[i]].kind = "file" /\ t[PathOrder[i]].arg = t[p].arg}
      linked == t[p].kind = "file" /\ before # {} IN
  [path |-> StoredPath(p, w), mode |-> t[p].mode,
   type |-> IF linked THEN "hardlink" ELSE t[p].kind,
   payload |-> IF linked THEN StoredPath(PathOrder[CHOOSE i \in before : \A j \in before : j <= i], w)
               ELSE IF t[p].kind = "symlink" THEN StoredTarget(t[p].arg) ELSE t[p].arg]

\* The entry for p.  A file that was met before is a hard link to its first path.
EntryOf(t, p, w) ==
  LET linked == t[p].kind = "file" /\ FirstLink(t, p) # p IN
  [path |-> StoredPath(p, w), mode |-> t[p].mode,
   type |-> IF linked THEN "hardlink" ELSE t[p].kind,
   payload |-> IF linked THEN StoredPath(FirstLink(t, p), w)
               ELSE IF t[p].kind = "symlink" THEN StoredTarget(t[p].arg) ELSE t[p].arg]

\* The archive of writer w: the entries in the order of the workspace's own paths.
ArchiveOf(t, w) == [i \in DOMAIN Collected(t) |-> EntryOf(t, Collected(t)[i], w)]

----------------------------------------------------------------------------
(* what a path, a workspace and an archive are                             *)

\* Paths holds every path in use that validateRelativePath takes, so it is not empty.
\* The text of a directory is the beginning of that of a path in it, so it comes
\* before it in the byte order.
ASSUME PathsAssumption ==
  /\ PathOrder \in Seq(Paths)
  /\ \A i, j \in DOMAIN PathOrder : PathOrder[i] = PathOrder[j] => i = j
  /\ \A p \in Paths :
       /\ p \in Seq(Range(p)) /\ p # <<>>
       /\ \A q \in Ancestors(p) : q \in Paths /\ Position(q) < Position(p)

\* What is in a directory hangs from it; the names of an inode share its mode.
ASSUME WorkspacesAssumption ==
  \A t \in Workspaces :
    /\ DOMAIN t \subseteq Paths
    /\ \A p \in DOMAIN t :
         /\ t[p].kind \in {"dir", "file", "symlink", "fifo"}
         /\ \A q \in Ancestors(p) : q \in DOMAIN t /\ t[q].kind = "dir"
         /\ t[p].kind = "file" => FirstLink(t, p) = t[p].arg /\ t[t[p].arg].mode = t[p].mode
         /\ t[p].kind = "symlink" => t[p].arg \in Seq(Range(t[p].arg))

\* What is decoded is UTF-8, a backslash is a letter of it, and so are the names of
\* a path that is UTF-8.
ASSUME TextAssumption ==
  /\ \A p \in Paths :
       /\ TextOf[TextOf[p]] = TextOf[p]
       /\ TextOf[Slashed[TextOf[p]]] = Slashed[TextOf[p]]
       /\ TextOf[p] = p => \A q \in Ancestors(p) : TextOf[q] = q
  /\ \A t \in Workspaces : \A p \in DOMAIN t :
       t[p].kind = "symlink" => TextOf[TextOf[t[p].arg]] = TextOf[t[p].arg]

\* extractCfs decodes the paths and the targets of an archive.
ASSUME HandMadeAssumption ==
  \A s \in HandMade :
    /\ s \in Seq(Range(s))
    /\ \A i \in DOMAIN s :
         TextOf[s[i].path] = s[i].path /\ (s[i].type = "symlink" => TextOf[s[i].payload] = s[i].payload)

----------------------------------------------------------------------------
(* extractCfs: what one entry needs, and what it makes                     *)

\* The paths of the entries taken so far that have one of the types.
Taken(types) == {archive[i].path : i \in {j \in 1 .. next - 1 : archive[j].type \in types}}

\* Wrong: no look at the ancestors.
AnyAncestor(e) == TRUE

\* assertNoSymlinkAncestor.
NoSymlinkAncestor(e) == Ancestors(e.path) \cap Taken({"symlink"}) = {}

\* mkdir(dirname, recursive): no ancestor is a file, and the nearest directory
\* there is lets its owner make entries, or the daemon is root.
CanReach(e) ==
  LET above == Ancestors(e.path) \cap DOMAIN built IN
  \A q \in above :
    /\ built[q].kind # "file"
    /\ (\A r \in above : Len(r) <= Len(q)) => Root \/ built[q].mode = "rw"

\* readHeader: an entry that sets a user or a group, or whose path is not safe.
Readable(e) == e.mode # "suid" /\ e.path \in Paths

\* The mode extractCfs gives, mode & 0o777: a sticky bit goes.
Masked(mode) == IF mode = "sticky" THEN "rw" ELSE mode

\* Wrong: an entry may come twice.
FitsTwice(e) ==
  /\ Readable(e)
  /\ e.type = "symlink" => Inside(e.path, e.payload)
  /\ e.type = "hardlink" => e.payload \in Taken({"file"})

\* The checks by type, and O_EXCL, mkdir, symlink() and link() saying EEXIST.
Fits(e) ==
  /\ Readable(e)
  /\ e.path \notin DOMAIN built
  /\ CASE e.type \in {"dir", "file"} -> TRUE
       [] e.type = "symlink" -> Inside(e.path, e.payload)
       [] e.type = "hardlink" -> e.payload \in Taken({"file"})
       [] OTHER -> FALSE

\* The node an entry makes, its missing parents as plain directories, and the
\* mode of a hard link on every name of its inode.
With(e) ==
  LET parents == Ancestors(e.path) \ DOMAIN built
      mode == Masked(e.mode)
      node == IF e.type = "hardlink" THEN [kind |-> "file", mode |-> mode, arg |-> built[e.payload].arg]
              ELSE [kind |-> e.type, mode |-> mode, arg |-> IF e.type = "file" THEN e.path ELSE e.payload]
      same == {q \in DOMAIN built : built[q].kind = "file" /\ node.kind = "file" /\ built[q].arg = node.arg} IN
  [q \in DOMAIN built \cup parents \cup {e.path} |->
     CASE q = e.path -> node
       [] q \in parents -> [kind |-> "dir", mode |-> "rw", arg |-> <<>>]
       [] q \in same -> [built[q] EXCEPT !.mode = mode]
       [] OTHER -> built[q]]

ArchiveIdle ==
  /\ writer = "none" /\ source = NoTree /\ archive = <<>> /\ next = 1 /\ built = NoTree /\ verdict = "idle"

\* The archive of a snapshot that one of the writers took, or another.
ArchiveInit ==
  /\ \/ \E t \in Workspaces :
          /\ \/ writer = "guest" /\ GuestAccepts(t)
             \/ writer = "daemon" /\ DaemonAccepts(t)
          /\ source = t
          /\ archive = ArchiveOf(t, writer)
     \/ writer = "none" /\ source = NoTree /\ archive \in HandMade
  /\ next = 1
  /\ built = NoTree
  /\ verdict = "extracting"

\* One turn of the loop.
ExtractEntry ==
  LET e == archive[next] IN
  /\ verdict = "extracting"
  /\ next <= Len(archive)
  /\ NoSymlinkAncestor(e) /\ CanReach(e) /\ Fits(e)
  /\ built' = With(e)
  /\ next' = next + 1
  /\ UNCHANGED <<writer, source, archive, verdict>>

\* A throw: the staging directory goes, the destination was not touched.
RejectEntry ==
  LET e == archive[next] IN
  /\ verdict = "extracting"
  /\ next <= Len(archive)
  /\ ~(NoSymlinkAncestor(e) /\ CanReach(e) /\ Fits(e))
  /\ built' = NoTree
  /\ verdict' = "rejected"
  /\ UNCHANGED <<writer, source, archive, next>>

\* The end of the archive: the staging directory replaces the destination.
AcceptArchive ==
  /\ verdict = "extracting"
  /\ next = Len(archive) + 1
  /\ verdict' = "accepted"
  /\ UNCHANGED <<writer, source, archive, next, built>>

ArchiveNext == ExtractEntry \/ RejectEntry \/ AcceptArchive
ArchiveSpec == ArchiveInit /\ [][ArchiveNext]_archiveVars

----------------------------------------------------------------------------
(* the tar archive of restoreWorkspace                                     *)

\* tarHeader: names and link names have 100 bytes.
NameFits(p) == p \notin LongPaths

\* chunks() throws for no entry, and tar -x finds the directories of an entry and
\* the file a hard link names among the entries before it.
TarRestores(t) ==
  LET s == ArchiveOf(t, "daemon")
      Before(i, type) == {s[j].path : j \in {k \in 1 .. i - 1 : s[k].type = type}} IN
  \A i \in DOMAIN s :
    /\ NameFits(s[i].path)
    /\ Ancestors(s[i].path) \subseteq Before(i, "dir")
    /\ s[i].type \in {"hardlink", "symlink"} => NameFits(s[i].payload)
    /\ s[i].type = "hardlink" => s[i].payload \in Before(i, "file")

----------------------------------------------------------------------------
(* properties                                                              *)

\* Every node of t is in u under the name that writer w stored: of its kind, with its
\* mode but for a sticky bit, its target as stored, and its contents shared with the
\* names it shared them with; and no two of them have come to one name.
HoldsAll(u, t, w) ==
  \A p \in DOMAIN t :
    LET s == StoredPath(p, w) IN
    /\ s \in DOMAIN u /\ u[s].kind = t[p].kind /\ u[s].mode = Masked(t[p].mode)
    /\ t[p].kind = "symlink" => u[s].arg = StoredTarget(t[p].arg)
    /\ t[p].kind = "file" => u[s].arg = StoredPath(t[p].arg, w)
    /\ \A q \in DOMAIN t : StoredPath(q, w) = s => q = p

\* Writer w stores the names and the targets of t as they are.
NamesKept(t, w) ==
  \A p \in DOMAIN t :
    StoredPath(p, w) = p /\ (t[p].kind = "symlink" => StoredTarget(t[p].arg) = t[p].arg)

\* A directory that is not writable, and holds something.
LockedDirectory(t) ==
  \E p \in DOMAIN t :
    t[p].kind = "dir" /\ Masked(t[p].mode) # "rw" /\ \E q \in DOMAIN t : Len(q) > 1 /\ Front(q) = p

\* What a writer stored is extracted with nothing lost, each node under its stored
\* name.  Where the writer kept the names, it is extracted as it was and nothing is
\* added.  Then it is refused for one reason only: extractCfs sets the mode of a
\* directory before it makes what is in it (cfs.ts:278), so a daemon that is not root
\* stops at a read-only directory with entries.  A name or a target that the guest
\* rewrote (cfs.rs:74, 159) may be refused for its new form.
SnapshotsRestore ==
  writer # "none" =>
    /\ verdict = "accepted" => HoldsAll(built, source, writer)
    /\ NamesKept(source, writer) =>
         /\ verdict = "accepted" => DOMAIN built = DOMAIN source
         /\ verdict = "rejected" => ~Root /\ LockedDirectory(source)

\* What the validation of a snapshot accepts is a workspace: parents are
\* directories, links stay inside, and exportCfs would take it again; and
\* Docker restores it, unless a path or target is too long (cfs.ts:192-200, 263-273, tar.ts:27).
AcceptedIsWorkspace ==
  verdict = "accepted" =>
    /\ \A p \in DOMAIN built : \A q \in Ancestors(p) : q \in DOMAIN built /\ built[q].kind = "dir"
    /\ DaemonAccepts(built)
    /\ (\A p \in DOMAIN built :
          NameFits(p) /\ (built[p].kind = "symlink" => NameFits(built[p].arg))) => TarRestores(built)

\* An entry never replaces or changes what an earlier one made, but for the mode
\* that the names of one file share; a rejected archive leaves nothing behind.
NothingReplaced ==
  [][\A p \in DOMAIN built :
       \/ p \in DOMAIN built' /\ [built[p] EXCEPT !.mode = "any"] = [built'[p] EXCEPT !.mode = "any"]
       \/ verdict' = "rejected" /\ built' = NoTree]_archiveVars
=============================================================================

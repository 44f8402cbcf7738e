-------------------------------- MODULE Vfs --------------------------------
(***************************************************************************)
(* vfs::Fuse, vfs::FileReader and vfs::Filesystem (src/vfs): snapshots     *)
(* mounted through FUSE, and the path lookup of "hat ls".                  *)
(*                                                                         *)
(* Fuse keeps a table of inodes, filled from the list of snapshots and     *)
(* then one directory at a time, and a reader per file handle.  A reader   *)
(* pulls the chunks of a file (what HashTree's reader returns) and only    *)
(* moves forward.  fuse::mount serves one request at a time; a read is     *)
(* split into the steps of its loops.  Descriptors and the lister are the  *)
(* processes that use the mounted file system, through the kernel.         *)
(*                                                                         *)
(* A byte is its file's reference and its position.  Every chunk of a      *)
(* mounted snapshot can be fetched (SnapshotGc, SnapshotsAreKept).         *)
(***************************************************************************)
EXTENDS Naturals, Sequences, FiniteSets, SequencesExt, TLC

CONSTANTS
    Snapshots,  \* what list_snapshots returns: family, id and ref of each
    HiddenFamily, \* "__hat__roots__"
    NoRef,      \* a snapshot without a hash reference
    Listing,    \* the entries of a directory, by its reference
    Chunks,     \* where each of a file's chunks ends, by its reference
    Desc,       \* file descriptors
    ReadSize,   \* sizes of reads
    Rewind,     \* whether a descriptor may read behind what it has read
    ReplySize   \* entries that fit in one reply to readdir

\* What snapshots and directories name can be fetched.  A family numbers its
\* snapshots (snapshot_reserve), and a directory has a name once (the key store
\* looks a name up before it adds it).
ASSUME VfsAssumption ==
    /\ Snapshots \in Seq(ToSet(Snapshots))
    /\ \A s \in ToSet(Snapshots) : s.ref # NoRef => s.ref \in DOMAIN Listing
    /\ \A i, j \in DOMAIN Snapshots :
          Snapshots[i].family = Snapshots[j].family /\ Snapshots[i].id = Snapshots[j].id => i = j
    /\ NoRef \notin DOMAIN Listing
    /\ \A dir \in DOMAIN Listing :
          /\ Listing[dir] \in Seq(ToSet(Listing[dir]))
          /\ \A i, j \in DOMAIN Listing[dir] :
                Listing[dir][i].name = Listing[dir][j].name => i = j
          /\ \A e \in ToSet(Listing[dir]) :
                /\ e.kind \in {"dir", "file", "link"}
                /\ e.kind = "dir" => e.ref \in DOMAIN Listing
                /\ e.kind = "file" => e.ref \in DOMAIN Chunks
    /\ \A ref \in DOMAIN Chunks :
          /\ Chunks[ref] \in Seq(Nat)
          /\ \A i, j \in DOMAIN Chunks[ref] : i <= j => Chunks[ref][i] <= Chunks[ref][j]
    /\ Rewind \in BOOLEAN
    /\ ReadSize \subseteq Nat \ {0}
    /\ ReplySize \in Nat \ {0}

VARIABLES
    inodes,     \* inodes by number
    kids,       \* Fuse.parent: the inodes in each directory that was fetched
    readers,    \* open_files: readers by file handle
    fds,        \* descriptors: their file, handle and how far they have read
    req,        \* the read being served, or answered by the last request
    pc,         \* "populate", "idle", "serving" a read, or dead after a "panic"
    lister      \* a process that lists a directory

vars == <<inodes, kids, readers, fds, req, pc, lister>>

RootIno == 1

-----------------------------------------------------------------------------
\* The table of inodes: records [inodes, kids].

File(name, kind, ref, parent) == [name |-> name, kind |-> kind, ref |-> ref, parent |-> parent]

KidsOf(tab, ino) == IF ino \in DOMAIN tab.kids THEN tab.kids[ino] ELSE <<>>

\* add_file for each of a sequence of files of one directory.
AddFiles(tab, parent, files) ==
    LET ino == [k \in 1 .. Len(files) |-> Len(tab.inodes) + k]
    IN  [inodes |-> tab.inodes \o files,
         kids |-> IF files = <<>> THEN tab.kids
                  ELSE [p \in DOMAIN tab.kids \cup {parent} |->
                          IF p = parent THEN KidsOf(tab, p) \o ino ELSE tab.kids[p]]]

Families == {s.family : s \in ToSet(Snapshots)}

\* The elements of s that are in S, in their order.
Only(s, S) ==
    LET upTo[n \in 0 .. Len(s)] ==
            IF n = 0 THEN <<>>
            ELSE IF s[n] \in S THEN Append(upTo[n - 1], s[n])
            ELSE upTo[n - 1]
    IN  upTo[Len(s)]

\* The snapshots of a family, in the order of the list, and those of them that
\* have a reference.
Family(fam) == Only(Snapshots, {s \in ToSet(Snapshots) : s.family = fam})

WithRef == {s \in ToSet(Snapshots) : s.ref # NoRef}

Shown(fam) == Only(Family(fam), WithRef)

\* One turn of the loop over the families in populate_from_snapshot_list.
AddFamily(fam) ==
    LET snaps == Shown(fam)
        ino == Len(inodes) + 1
        with == AddFiles([inodes |-> inodes, kids |-> kids], RootIno,
                         <<File(fam, "parent", NoRef, RootIno)>>)
        tab == AddFiles(with, ino,
                        [k \in 1 .. Len(snaps) |-> File(snaps[k].id, "dir", snaps[k].ref, ino)])
    IN  /\ pc = "populate"
        /\ fam \in Families \ {HiddenFamily}
        /\ \A k \in DOMAIN inodes : inodes[k].parent = RootIno => inodes[k].name # fam
        /\ inodes' = tab.inodes /\ kids' = tab.kids
        /\ UNCHANGED <<readers, fds, req, pc, lister>>

\* All families are there: the file system is mounted.
Mount ==
    /\ pc = "populate"
    /\ \A fam \in Families \ {HiddenFamily} :
          \E k \in DOMAIN inodes : inodes[k].parent = RootIno /\ inodes[k].name = fam
    /\ pc' = "idle"
    /\ UNCHANGED <<inodes, kids, readers, fds, req, lister>>

FetchDir(ino) ==
    LET entries == Listing[inodes[ino].ref]
    IN  AddFiles([inodes |-> inodes, kids |-> kids], ino,
                 [k \in 1 .. Len(entries) |->
                    File(entries[k].name, entries[k].kind, entries[k].ref, ino)])

\* Mutant of NeedsFetch: a directory is fetched whenever it is looked at.
NeedsFetchAlways(ino) == inodes[ino].kind = "dir"

NeedsFetch(ino) == inodes[ino].kind = "dir" /\ ino \notin DOMAIN kids

\* The table after childs(ino), which fetches a directory on first use.
Childs(ino) ==
    IF NeedsFetch(ino) THEN FetchDir(ino) ELSE [inodes |-> inodes, kids |-> kids]

IsDir(ino) == inodes[ino].kind \in {"parent", "dir"}

-----------------------------------------------------------------------------
\* FileReader.

NewReader(ref) == [ref |-> ref, n |-> 0, offset |-> 0, len |-> 0, eof |-> FALSE]

\* FileReader::next: the next chunk, or the end.
NextChunk(rd) ==
    IF rd.n < Len(Chunks[rd.ref])
    THEN [rd EXCEPT !.n = rd.n + 1, !.offset = rd.offset + rd.len,
                    !.len = Chunks[rd.ref][rd.n + 1] - (rd.offset + rd.len)]
    ELSE [rd EXCEPT !.offset = rd.offset + rd.len, !.len = 0, !.eof = TRUE]

\* Mutant of Behind: a chunk that ends where the read begins is kept.
BehindOrAt(rd, offset) == rd.offset + rd.len < offset \/ rd.len = 0

\* The condition of the loop in FileReader::advance.
Behind(rd, offset) == rd.offset + rd.len <= offset \/ rd.len = 0

\* Bytes from offset on that the reader has at hand, at most size.
Take(rd, offset, size) ==
    LET avail == rd.offset + rd.len - offset
        n == IF size <= avail THEN size ELSE avail
    IN  [k \in 1 .. n |-> <<rd.ref, offset + k>>]

-----------------------------------------------------------------------------
NoRequest == [d |-> 0, from |-> 0, size |-> 0, got |-> <<>>]
NoLister == [ino |-> 0, offset |-> 0, seen |-> <<>>, end |-> FALSE]

VfsInit ==
    /\ inodes = <<File("root", "parent", NoRef, 0)>> /\ kids = <<>>
    /\ readers = <<>> /\ fds = <<>>
    /\ req = NoRequest /\ pc = "populate"
    /\ lister = NoLister

Lookup(ino) ==
    /\ pc = "idle" /\ IsDir(ino)
    /\ inodes' = Childs(ino).inodes /\ kids' = Childs(ino).kids
    /\ req' = NoRequest
    /\ UNCHANGED <<readers, fds, pc, lister>>

\* Fuse::open: the handle is one more than the number of open files.
NextHandle == Cardinality(DOMAIN readers) + 1

Open(d, ino) ==
    LET shared == {e \in DOMAIN fds : fds[e].fh = NextHandle}
        fd == [ino |-> ino, fh |-> NextHandle, at |-> 0,
               own |-> shared = {}, rewound |-> FALSE]
    IN  /\ pc = "idle"
        /\ d \notin DOMAIN fds
        /\ inodes[ino].kind = "file"
        /\ readers' = [h \in DOMAIN readers \cup {NextHandle} |->
                          IF h = NextHandle THEN NewReader(inodes[ino].ref) ELSE readers[h]]
        /\ fds' = [e \in DOMAIN fds \cup {d} |->
                      IF e = d THEN fd ELSE [fds[e] EXCEPT !.own = @ /\ e \notin shared]]
        /\ req' = NoRequest
        /\ UNCHANGED <<inodes, kids, pc, lister>>

Release(d) ==
    /\ pc = "idle"
    /\ d \in DOMAIN fds
    /\ readers' = [h \in DOMAIN readers \ {fds[d].fh} |-> readers[h]]
    /\ fds' = [e \in DOMAIN fds \ {d} |-> fds[e]]
    /\ req' = NoRequest
    /\ UNCHANGED <<inodes, kids, pc, lister>>

\* A read arrives.  Without a reader for its handle it gets no answer.
Read(d, from, size) ==
    /\ pc = "idle"
    /\ d \in DOMAIN fds
    /\ Rewind \/ from >= fds[d].at
    /\ req' = [d |-> d, from |-> from, size |-> size, got |-> <<>>]
    /\ fds' = [fds EXCEPT ![d].rewound = @ \/ from < fds[d].at]
    /\ pc' = IF fds[d].fh \in DOMAIN readers THEN "serving" ELSE "idle"
    /\ UNCHANGED <<inodes, kids, readers, lister>>

\* Where the call of FileReader::read under way, possibly a nested one, begins.
Offset == req.from + Len(req.got)
Reader == readers[fds[req.d].fh]

Advance ==
    /\ pc = "serving"
    /\ ~Reader.eof /\ Behind(Reader, Offset)
    /\ readers' = [readers EXCEPT ![fds[req.d].fh] = NextChunk(Reader)]
    /\ UNCHANGED <<inodes, kids, fds, req, pc, lister>>

Reply(got) ==
    /\ req' = [req EXCEPT !.got = got]
    /\ fds' = [fds EXCEPT ![req.d].at = req.from + Len(got)]
    /\ pc' = "idle"

\* Once at the end, advance() asks the exhausted iterator again, which changes
\* nothing: this and every later read through the handle ends here.
AnswerAtEof ==
    /\ pc = "serving" /\ Reader.eof
    /\ Reply(req.got)
    /\ UNCHANGED <<inodes, kids, readers, lister>>

\* The assertion in FileReader::from: the reader is already past the offset.
AssertionFails ==
    /\ pc = "serving"
    /\ ~Reader.eof /\ ~Behind(Reader, Offset)
    /\ Reader.offset > Offset
    /\ pc' = "panic"
    /\ UNCHANGED <<inodes, kids, readers, fds, req, lister>>

\* Bytes at hand, then a nested read for the rest; none at hand is the end.
Answer ==
    LET got == req.got \o Take(Reader, Offset, req.size - Len(req.got))
    IN  /\ pc = "serving"
        /\ ~Reader.eof /\ ~Behind(Reader, Offset)
        /\ Reader.offset <= Offset
        /\ IF Len(got) = req.size \/ got = req.got
           THEN Reply(got)
           ELSE req' = [req EXCEPT !.got = got] /\ UNCHANGED <<fds, pc>>
        /\ UNCHANGED <<inodes, kids, readers, lister>>

\* A process opens a directory and reads it, one reply at a time.
OpenDir(ino) ==
    /\ pc = "idle" /\ IsDir(ino)
    /\ lister.ino = 0
    /\ lister' = [NoLister EXCEPT !.ino = ino]
    /\ req' = NoRequest
    /\ UNCHANGED <<inodes, kids, readers, fds, pc>>

Dots(ino) == IF inodes[ino].parent = 0 THEN <<ino>> ELSE <<ino, inodes[ino].parent>>

\* Fuse::readdir, whose offsets count "." and ".." too.
ReadDir ==
    LET ino == lister.ino
        files == Dots(ino) \o KidsOf(Childs(ino), ino)
        last == IF Len(files) < lister.offset + ReplySize THEN Len(files)
                                                          ELSE lister.offset + ReplySize
    IN  /\ pc = "idle"
        /\ ino # 0 /\ ~lister.end
        /\ inodes' = Childs(ino).inodes /\ kids' = Childs(ino).kids
        /\ lister' = [lister EXCEPT !.offset = last,
                                    !.seen = @ \o SubSeq(files, lister.offset + 1, last),
                                    !.end = last = lister.offset]
        /\ req' = NoRequest
        /\ UNCHANGED <<readers, fds, pc>>

ReleaseDir ==
    /\ pc = "idle"
    /\ lister.ino # 0
    /\ lister' = NoLister
    /\ req' = NoRequest
    /\ UNCHANGED <<inodes, kids, readers, fds, pc>>

Size(ref) == IF Chunks[ref] = <<>> THEN 0 ELSE Last(Chunks[ref])

VfsNext ==
    \/ \E fam \in Families : AddFamily(fam)
    \/ Mount
    \/ \E ino \in DOMAIN inodes : Lookup(ino) \/ OpenDir(ino)
    \/ \E ino \in DOMAIN inodes, d \in Desc : Open(d, ino)
    \/ \E d \in DOMAIN fds, size \in ReadSize :
          \E from \in 0 .. Size(inodes[fds[d].ino].ref) : Read(d, from, size)
    \/ \E d \in Desc : Release(d)
    \/ Advance
    \/ AnswerAtEof
    \/ AssertionFails
    \/ Answer
    \/ ReadDir
    \/ ReleaseDir

VfsSpec == VfsInit /\ [][VfsNext]_vars

-----------------------------------------------------------------------------
\* Filesystem::ls, for relative paths: what "hat ls" prints.

First(S) == CHOOSE k \in S : \A j \in S : k <= j

\* Where the lookup of a path is: the directory and what is in it.
Nothing == [found |-> FALSE, ref |-> NoRef, list |-> <<>>]
DirAt(ref) == [found |-> TRUE, ref |-> ref, list |-> Listing[ref]]
FileAt(e) == [found |-> TRUE, ref |-> NoRef, list |-> <<e>>]

LsSnapshot(fam, id) ==
    LET hits == {k \in DOMAIN Snapshots : Snapshots[k].family = fam /\ Snapshots[k].id = id}
        s == Snapshots[First(hits)]
    IN  IF hits = {} \/ s.ref = NoRef THEN Nothing ELSE DirAt(s.ref)

\* One turn of the loop over the components of the path.
LsStep(at, name) ==
    LET hits == {k \in DOMAIN at.list : at.list[k].name = name}
        e == at.list[First(hits)]
    IN  IF at.ref = NoRef \/ hits = {} THEN Nothing
        ELSE IF e.kind = "dir" THEN DirAt(e.ref) ELSE FileAt(e)

LsPath(path) ==
    LET upTo[n \in 2 .. Len(path)] ==
            IF n = 2 THEN LsSnapshot(path[1], path[2]) ELSE LsStep(upTo[n - 1], path[n])
    IN  upTo[Len(path)]

\* The names that are listed; snapshots by their ids, the root by its families.
Names(list) == [k \in DOMAIN list |-> list[k].name]
Ids(snaps) == [k \in DOMAIN snaps |-> snaps[k].id]

Ls(path) ==
    CASE path = <<>> -> [found |-> TRUE, list |-> Snapshots]
      [] Len(path) = 1 -> [found |-> TRUE, list |-> Family(path[1])]
      [] OTHER -> LsPath(path)

-----------------------------------------------------------------------------
\* A descriptor that has its handle to itself and reads forward, at whatever
\* offsets and sizes, gets the bytes of its file that it asked for, all of them
\* up to the end of the file (src/vfs/tests.rs, filereader), and the assertion
\* in FileReader::from does not fail.
ReadsItsFile ==
    req # NoRequest =>
        LET fd == fds[req.d]
            ref == inodes[fd.ino].ref
            last == IF Size(ref) < req.from + req.size THEN Size(ref) ELSE req.from + req.size
        IN  fd.own /\ ~fd.rewound =>
                /\ pc # "panic"
                /\ pc = "idle" => req.got = [k \in 1 .. last - req.from |-> <<ref, req.from + k>>]

\* The assertion of FileReader::from, "assert!(self.offset <= offset)": no read
\* begins before the chunk that its reader holds.
OffsetAssertion == pc # "panic"

PathOf[ino \in DOMAIN inodes] ==
    IF inodes[ino].parent = 0 THEN <<>> ELSE Append(PathOf[inodes[ino].parent], inodes[ino].name)

\* The names that ls lists of a path below the root, less what Fuse leaves out:
\* snapshots without a reference.
Visible(path) == IF Len(path) = 1 THEN Ids(Only(Ls(path).list, WithRef)) ELSE Names(Ls(path).list)

\* What a process has listed of a mounted directory, over several replies and
\* with other requests in between, is the beginning of what Filesystem::ls lists
\* of its path, and at the end all of it, each entry once and in the same order,
\* less what Fuse leaves out; and ls finds the path of every inode.
ListsWhatLsLists ==
    LET path == PathOf[lister.ino]
        seen == [k \in DOMAIN lister.seen |-> inodes[lister.seen[k]].name]
        names == SubSeq(seen, Len(Dots(lister.ino)) + 1, Len(seen))
    IN  /\ \A ino \in DOMAIN inodes : Ls(PathOf[ino]).found
        /\ lister.ino = RootIno =>
              /\ IsInjective(names)
              /\ lister.end =>
                    ToSet(names) = {s.family : s \in ToSet(Ls(path).list)} \ {HiddenFamily}
        /\ lister.ino > RootIno =>
              /\ IsPrefix(names, Visible(path))
              /\ lister.end => names = Visible(path)

=============================================================================

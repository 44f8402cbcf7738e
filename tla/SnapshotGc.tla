----------------------------- MODULE SnapshotGc -----------------------------
(***************************************************************************)
(* hat::Hat (src/hat/mod.rs): committing, deleting and resuming snapshots  *)
(* with the reference counting collector gc::GcRc (src/gc/rc.rs), over the *)
(* snapshots, hashes, gc_metadata and blobs tables of one SQLite database. *)
(*                                                                         *)
(* db is the database inside the open transaction, disk the last committed *)
(* one.  Every action but TopHash and Scan ends in a flush, and no action  *)
(* holds a flush the next one could be cut off from, so a Restart between  *)
(* actions reaches every state that a crash leaves behind.  The exception  *)
(* is a blob: that its row, its put, its hashes and the end of its row are *)
(* saved one after another is the subject of InsertPipeline, and here it   *)
(* is stored in one step.                                                  *)
(*                                                                         *)
(* A command scans one directory into the family, but a commit lists the   *)
(* family's whole key index, with the files of every directory that was    *)
(* scanned before (commit_to_tree).                                        *)
(*                                                                         *)
(* The hash index is seen through what HashIndex promises: a hash is       *)
(* located once, rows become ready in the order of their ids, and a row    *)
(* has the rows of its whole hash tree below it.                           *)
(***************************************************************************)
EXTENDS Integers, FiniteSets

CONSTANTS
    Hash,        \* content hashes
    Rank,        \* Rank[h]: the order in which hashes are first inserted
    Tree,        \* Tree[h]: the hashes of the hash tree with top h, h included
    File,        \* the tops of files' trees; any other top is a directory's
    Root,        \* the tops of directory trees that the key index may describe
    EmptyRoot,   \* the one of a new family
    Tops,        \* Tops[r]: tops of the files and directories below r
    NoHash,      \* hash: None
    MaxCommits,  \* bound: commits started
    MaxRestarts  \* bound: restarts, after a crash or an exit

ASSUME SnapshotAssumption ==
    /\ Root \subseteq Hash /\ File \subseteq Hash \ Root
    /\ NoHash \notin Hash
    /\ Tops \in [Root -> SUBSET (Hash \ Root)]
    /\ EmptyRoot \in Root /\ Tops[EmptyRoot] = {}
    /\ Rank \in [Hash -> Nat]
    /\ \A g, h \in Hash : Rank[g] = Rank[h] => g = h
    /\ Tree \in [Hash -> SUBSET Hash]
    /\ IsFiniteSet(Hash)
    /\ \A h \in Hash : /\ h \in Tree[h]
                       /\ \A g \in Tree[h] : Tree[g] \subseteq Tree[h] /\ Rank[g] <= Rank[h]
    /\ MaxCommits \in Nat /\ MaxRestarts \in Nat

VARIABLES
    db,          \* the tables: rows, cnt, snaps, blobs
    disk,        \* the tables as last committed
    external,    \* blobs in external storage
    content,     \* the root that the family's key index describes
    scanned,     \* the files in it that the last scan visited
    idCounter,   \* hash_id_counter
    nextBlob,    \* BlobIndex::next_id
    autoFlush,   \* flush_periodically
    pc,          \* the next step of the operation under way
    cur,         \* the snapshot it is about
    left,        \* tops that the commit has still to visit
    commits, restarts,
    gcRan,       \* history: a collection has run
    lost         \* history: hashes that a restart took from under a snapshot

vars == <<db, disk, external, content, scanned, idCounter, nextBlob, autoFlush, pc, cur,
          left, commits, restarts, gcRan, lost>>

keys == <<content, scanned>>
history == <<gcRan, lost>>

Tag == {"Done", "Reserved", "InProgress", "Complete", "WillDelete", "ReadyDelete"}

-----------------------------------------------------------------------------
\* The tables.

Located(d, h) == \E i \in DOMAIN d.rows : d.rows[i].hash = h
GetId(d, h) == CHOOSE i \in DOMAIN d.rows : d.rows[i].hash = h
IdsOf(d, H) == {i \in DOMAIN d.rows : d.rows[i].hash \in H}
ReadyHashes(d) == {d.rows[i].hash : i \in {j \in DOMAIN d.rows : d.rows[j].ready}}

SetTag(d, I, t) ==
    [d EXCEPT !.rows = [i \in DOMAIN d.rows |->
        IF i \in I THEN [d.rows[i] EXCEPT !.tag = t] ELSE d.rows[i]]]

SetAllTags(d, t) == SetTag(d, DOMAIN d.rows, t)

IdsByTag(d, t) == {i \in DOMAIN d.rows : d.rows[i].tag = t}

\* No gc_metadata row reads as zero.
Count(d, i) == IF i \in DOMAIN d.cnt THEN d.cnt[i] ELSE 0

AddCount(d, I, n) ==
    [d EXCEPT !.cnt = [i \in DOMAIN d.cnt \cup I |->
                          Count(d, i) + (IF i \in I THEN n ELSE 0)]]

SnapshotSetTag(d, s, t) == [d EXCEPT !.snaps[s].tag = t]

Fresh(d, H) == {h \in H : ~Located(d, h)}

\* The hashes that the index does not know get rows, in the order of Rank.
Insert(d, H) ==
    LET new == Fresh(d, H)
        id(h) == idCounter + Cardinality({g \in new : Rank[g] <= Rank[h]})
    IN  [d EXCEPT !.rows =
            [i \in DOMAIN d.rows \cup {id(h) : h \in new} |->
                IF i \in DOMAIN d.rows THEN d.rows[i]
                ELSE [hash |-> CHOOSE h \in new : id(h) = i,
                      tag |-> "Done", ready |-> FALSE, blob |-> 0]]]

CountAfter(d, H) == idCounter + Cardinality(Fresh(d, H))

Pending(d) == {i \in DOMAIN d.rows : ~d.rows[i].ready}

\* A blob holding the chunks of the rows in I is in external storage, its row
\* is Done and the hashes are ready.
Stored(d, I, b) ==
    [d EXCEPT !.rows = [i \in DOMAIN d.rows |->
                           IF i \in I THEN [d.rows[i] EXCEPT !.ready = TRUE, !.blob = b]
                                      ELSE d.rows[i]],
              !.blobs = [c \in DOMAIN d.blobs \cup {b} |->
                            IF c = b THEN "Done" ELSE d.blobs[c]]]

Save(d) == db' = d /\ disk' = d

\* BlobStore::flush after the change d: whatever is pending is stored.
FlushStores(d) ==
    IF Pending(d) = {}
    THEN /\ Save(d)
         /\ UNCHANGED <<external, nextBlob>>
    ELSE /\ nextBlob' = nextBlob + 1
         /\ external' = external \cup {nextBlob'}
         /\ Save(Stored(d, Pending(d), nextBlob'))

\* A command may start.  The one that inserts files ends with data_flush
\* before the process does anything else (main.rs, commit).
Ready ==
    /\ pc = "idle"
    /\ \A i \in Pending(db), f \in File : db.rows[i].hash \notin Tree[f]

-----------------------------------------------------------------------------
\* Things that happen by themselves while chunks are being inserted.

Inserting == pc \in {"reserve", "tops"}

\* A blob is full: the rows up to id k are stored.  Putting its row into the
\* blobs table commits the transaction.
BlobFull(k) ==
    LET I == {i \in Pending(db) : i <= k}
    IN  /\ Inserting
        /\ k \in Pending(db)
        /\ nextBlob' = nextBlob + 1
        /\ external' = external \cup {nextBlob'}
        /\ Save(Stored(db, I, nextBlob'))
        /\ UNCHANGED <<keys, idCounter, autoFlush, pc, cur, left, commits,
                       restarts, history>>

PeriodicFlush ==
    /\ Inserting
    /\ autoFlush
    /\ disk' = db
    /\ UNCHANGED <<db, external, keys, idCounter, nextBlob, autoFlush, pc, cur,
                   left, commits, restarts, history>>

-----------------------------------------------------------------------------
\* snapshot_dir and commit.

\* The scan of a directory: the key index describes r from now on, F are the
\* files in r that the scan visited, and the others were there before: the
\* scan was of a directory in r.
Rescan(r, F) ==
    /\ Ready
    /\ commits < MaxCommits
    /\ r # EmptyRoot
    /\ (Tops[r] \cap File) \ F \subseteq Tops[content]
    /\ Tops[r] \subseteq File => F = Tops[r]
    /\ commits' = commits + 1
    /\ content' = r
    /\ scanned' = F
    /\ pc' = "reserve"
    /\ UNCHANGED <<disk, external, nextBlob, autoFlush, cur, left, restarts, history>>

\* Mutant of Scan: what the key index describes is taken to be stored.
ScanTrustsKeys(r, F) ==
    LET H == UNION {Tree[f] : f \in F \ Tops[content]}
    IN  /\ Rescan(r, F)
        /\ db' = Insert(db, H)
        /\ idCounter' = CountAfter(db, H)

\* The scan skips a file only if the index still has its hash, and leaves the
\* key index flushed (cleanup_unused).
Scan(r, F) ==
    LET H == UNION {Tree[f] : f \in F}
    IN  /\ Rescan(r, F)
        /\ db' = Insert(db, H)
        /\ idCounter' = CountAfter(db, H)

MaxKey(S) == IF S = {} THEN 0 ELSE CHOOSE i \in S : \A j \in S : j <= i

CommitReserve ==
    LET s == 1 + MaxKey(DOMAIN db.snaps)
    IN  /\ pc = "reserve"
        /\ Save([db EXCEPT !.snaps = [t \in DOMAIN db.snaps \cup {s} |->
                    IF t = s THEN [tag |-> "Reserved", hash |-> NoHash] ELSE db.snaps[t]]])
        /\ cur' = s
        /\ left' = Tops[content]
        /\ pc' = "tops"
        /\ UNCHANGED <<external, keys, idCounter, nextBlob, autoFlush, commits,
                       restarts, history>>

NextTop(h) == h \in left /\ \A g \in left : Rank[h] <= Rank[g]

\* One entry of commit_to_tree: a file must be known already, a directory's
\* tree is inserted; top_hash_fn tags it.
TopHash(h) ==
    LET d == IF h \in File THEN db ELSE Insert(db, Tree[h])
    IN  /\ pc = "tops"
        /\ NextTop(h)
        /\ Located(d, h)
        /\ db' = SetTag(d, {GetId(d, h)}, "Reserved")
        /\ idCounter' = IF h \in File THEN idCounter ELSE CountAfter(db, Tree[h])
        /\ left' = left \ {h}
        /\ UNCHANGED <<disk, external, keys, nextBlob, autoFlush, pc, cur, commits,
                       restarts, history>>

\* The top tree is hashed last; the snapshot learns its hash and stays Reserved.
CommitUpdate ==
    /\ pc = "tops"
    /\ left = {}
    /\ Save([Insert(db, Tree[content]) EXCEPT !.snaps[cur].hash = content])
    /\ idCounter' = CountAfter(db, Tree[content])
    /\ pc' = "register"
    /\ UNCHANGED <<external, keys, nextBlob, autoFlush, cur, left, commits,
                   restarts, history>>

\* Mutant of RegisterFinal: only the root of the snapshot is counted.
RegisterFinalRootOnly ==
    LET root == GetId(db, db.snaps[cur].hash)
        counted == AddCount(SetTag(db, {root}, "Reserved"), {root}, 1)
    IN  /\ pc = "register"
        /\ autoFlush' = FALSE
        /\ Save(SetTag(counted, {root}, "InProgress"))
        /\ pc' = "ready_commit"
        /\ UNCHANGED <<external, keys, idCounter, nextBlob, cur, left, commits,
                       restarts, history>>

\* manual_commit, the counts, and the meta_flush that ends the transaction.
RegisterFinal ==
    LET root == GetId(db, db.snaps[cur].hash)
        tagged == SetTag(db, {root}, "Reserved")
        counted == AddCount(tagged, IdsByTag(tagged, "Reserved"), 1)
    IN  /\ pc = "register"
        /\ autoFlush' = FALSE
        /\ Save(SetTag(counted, {root}, "InProgress"))
        /\ pc' = "ready_commit"
        /\ UNCHANGED <<external, keys, idCounter, nextBlob, cur, left, commits,
                       restarts, history>>

-----------------------------------------------------------------------------
\* commit_finalize, which resume may enter.

ReadyCommit ==
    /\ pc = "ready_commit"
    /\ Save(SnapshotSetTag(db, cur, "Complete"))
    /\ pc' = "register_cleanup"
    /\ UNCHANGED <<external, keys, idCounter, nextBlob, autoFlush, cur, left,
                   commits, restarts, history>>

RegisterCleanup ==
    /\ pc = "register_cleanup"
    /\ Located(db, db.snaps[cur].hash)
    /\ Save(SetAllTags(db, "Done"))
    /\ pc' = "commit_done"
    /\ UNCHANGED <<external, keys, idCounter, nextBlob, autoFlush, cur, left,
                   commits, restarts, history>>

\* Mutant of CommitDone: the snapshot keeps its tag and resume looks again.
CommitNeverDone ==
    /\ pc = "commit_done"
    /\ Save(db)
    /\ pc' = "resume"
    /\ UNCHANGED <<external, keys, idCounter, nextBlob, autoFlush, cur, left,
                   commits, restarts, history>>

CommitDone ==
    /\ pc = "commit_done"
    /\ Save(SnapshotSetTag(db, cur, "Done"))
    /\ pc' = "idle"
    /\ UNCHANGED <<external, keys, idCounter, nextBlob, autoFlush, cur, left,
                   commits, restarts, history>>

DataFlush ==
    /\ pc = "idle"
    /\ FlushStores(db)
    /\ UNCHANGED <<keys, idCounter, autoFlush, pc, cur, left, commits, restarts,
                   history>>

-----------------------------------------------------------------------------
\* deregister.

Delete(s) ==
    /\ Ready
    /\ s \in DOMAIN db.snaps
    /\ cur' = s
    /\ pc' = "will_delete"
    /\ UNCHANGED <<db, disk, external, keys, idCounter, nextBlob, autoFlush, left,
                   commits, restarts, history>>

WillDelete ==
    /\ pc = "will_delete"
    /\ Save(SnapshotSetTag(db, cur, "WillDelete"))
    /\ pc' = "deregister"
    /\ UNCHANGED <<external, keys, idCounter, nextBlob, autoFlush, cur, left,
                   commits, restarts, history>>

\* What list_snapshot yields: every top below the root, and the root.
Listing(r) == {r} \cup Tops[r]

\* Listing a snapshot reads the trees of its root and of its directories.
DirectoryTrees(r) == UNION {Tree[h] : h \in Listing(r) \ File}

\* They are in external storage, where alone BlobStore::retrieve looks.
Readable(r) == DirectoryTrees(r) \subseteq ReadyHashes(db)

\* The first half of GcRc::deregister, up to its manual_commit.
DeregisterTag ==
    LET r == db.snaps[cur].hash
    IN  /\ pc = "deregister"
        /\ Readable(r)
        /\ \A h \in Listing(r) : Located(db, h)
        /\ Save(SetTag(SetAllTags(db, "Done"), IdsOf(db, Listing(r)), "Reserved"))
        /\ autoFlush' = FALSE
        /\ pc' = "deregister_count"
        /\ UNCHANGED <<external, keys, idCounter, nextBlob, cur, left, commits,
                       restarts, history>>

\* The second half, made durable by the flush of the family.
DeregisterCount ==
    LET root == GetId(db, db.snaps[cur].hash)
        counted == AddCount(db, IdsByTag(db, "Reserved"), -1)
    IN  /\ pc = "deregister_count"
        /\ FlushStores(SetTag(counted, {root}, "ReadyDelete"))
        /\ pc' = "ready_delete"
        /\ UNCHANGED <<keys, idCounter, autoFlush, cur, left, commits, restarts,
                       history>>

ReadyDelete ==
    /\ pc = "ready_delete"
    /\ Save(SnapshotSetTag(db, cur, "ReadyDelete"))
    /\ pc' = "deregister_cleanup"
    /\ UNCHANGED <<external, keys, idCounter, nextBlob, autoFlush, cur, left,
                   commits, restarts, history>>

DeregisterCleanup ==
    /\ pc = "deregister_cleanup"
    /\ FlushStores(SetAllTags(db, "Done"))
    /\ pc' = "snapshot_delete"
    /\ UNCHANGED <<keys, idCounter, autoFlush, cur, left, commits, restarts,
                   history>>

SnapshotDelete ==
    /\ pc = "snapshot_delete"
    /\ Save([db EXCEPT !.snaps = [s \in DOMAIN db.snaps \ {cur} |-> db.snaps[s]]])
    /\ pc' = "idle"
    /\ UNCHANGED <<external, keys, idCounter, nextBlob, autoFlush, cur, left,
                   commits, restarts, history>>

-----------------------------------------------------------------------------
\* Hat::gc.

\* Mutants of Marked: the trees are not followed; a count of zero is a root.
MarkedTopsOnly(d) == {j \in DOMAIN d.rows : Count(d, j) > 0}

MarkedZero(d) ==
    LET roots == {d.rows[i].hash : i \in {j \in DOMAIN d.rows : Count(d, j) >= 0}}
    IN  IdsOf(d, UNION {Tree[h] : h \in roots})

\* mark_tree from every id with a positive count.
Marked(d) ==
    LET roots == {d.rows[i].hash : i \in {j \in DOMAIN d.rows : Count(d, j) > 0}}
    IN  IdsOf(d, UNION {Tree[h] : h \in roots})

\* list_unused_ids leaves what it marked Reserved; the unused rows and their
\* counts are deleted and the database is flushed.  Then, unflushed, the blobs
\* that no remaining row refers to are left InProgress.
GcHashes ==
    LET keep == Marked(db)
        tagged == SetTag(SetAllTags(db, "Done"), keep, "Reserved")
        swept == [tagged EXCEPT
                    !.rows = [i \in keep |-> tagged.rows[i]],
                    !.cnt = [i \in DOMAIN db.cnt \ (DOMAIN db.rows \ keep) |-> db.cnt[i]]]
        used == {swept.rows[i].blob : i \in keep}
    IN  /\ Ready
        /\ \A i \in DOMAIN db.rows : Count(db, i) >= 0
        /\ disk' = swept
        /\ db' = [swept EXCEPT !.blobs = [b \in DOMAIN swept.blobs |->
                     IF b \in used THEN "Reserved" ELSE "InProgress"]]
        /\ pc' = "gc_blobs"
        /\ left' = {b \in DOMAIN swept.blobs : b \notin used}
        /\ UNCHANGED <<external, keys, idCounter, nextBlob, autoFlush, cur, commits,
                       restarts, history>>

GcDeleteBlob(b) ==
    /\ pc = "gc_blobs"
    /\ b \in left \cap external
    /\ external' = external \ {b}
    /\ left' = left \ {b}
    /\ UNCHANGED <<db, disk, keys, idCounter, nextBlob, autoFlush, pc, cur, commits,
                   restarts, history>>

\* FileBackend::delete of a missing file is an error, and gc gives up.
GcError(b) ==
    /\ pc = "gc_blobs"
    /\ b \in left \ external
    /\ pc' = "gc_failed"
    /\ gcRan' = TRUE
    /\ UNCHANGED <<db, disk, external, keys, idCounter, nextBlob, autoFlush, cur,
                   left, commits, restarts, lost>>

\* delete_by_tag, tag_all(Done) and the flush of the blob store.
GcDone ==
    LET kept == {b \in DOMAIN db.blobs : db.blobs[b] # "InProgress"}
    IN  /\ pc = "gc_blobs"
        /\ left = {}
        /\ FlushStores([db EXCEPT !.blobs = [b \in kept |-> "Done"]])
        /\ pc' = "idle"
        /\ gcRan' = TRUE
        /\ UNCHANGED <<keys, idCounter, autoFlush, cur, left, commits, restarts, lost>>

-----------------------------------------------------------------------------
\* A restart and resume.

\* What a snapshot needs: the trees of its root and of every top below it.
Need(r) == UNION {Tree[h] : h \in Listing(r)}

\* The snapshots that the collector has counted, or is about to count off.
Registered(d) ==
    {s \in DOMAIN d.snaps :
        /\ d.snaps[s].hash # NoHash
        /\ \/ d.snaps[s].tag # "Reserved"
           \/ \E i \in DOMAIN d.rows : /\ d.rows[i].hash = d.snaps[s].hash
                                       /\ d.rows[i].tag = "InProgress"}

\* The hashes that the snapshots on disk rely on: all of a registered one, and
\* the files that the last scan visited of one whose commit will be run again.
Relied(d) ==
    UNION ({Need(d.snaps[s].hash) : s \in Registered(d)}
           \cup {Tree[f] : f \in IF DOMAIN d.snaps = Registered(d)
                                 THEN {} ELSE scanned})

Restart ==
    /\ restarts < MaxRestarts
    /\ restarts' = restarts + 1
    /\ lost' = lost \cup UNION {Tree[h] : h \in Relied(disk) \ ReadyHashes(disk)}
    /\ gcRan' = (gcRan \/ pc = "gc_blobs")
    /\ db' = [disk EXCEPT !.rows = [i \in DOMAIN disk.rows \ Pending(disk) |-> disk.rows[i]]]
    /\ idCounter' = MaxKey(DOMAIN disk.rows)
    /\ nextBlob' = 1 + MaxKey(DOMAIN disk.blobs)
    /\ autoFlush' = TRUE
    /\ pc' = "resume"
    /\ cur' = 0
    /\ left' = {}
    /\ UNCHANGED <<disk, external, keys, commits>>

NotDone == {s \in DOMAIN db.snaps : db.snaps[s].tag # "Done"}

\* GcRc::status of the row of h: Some(Complete), Some(InProgress) or None.
GcStatus(h) ==
    IF ~Located(db, h) THEN "None"
    ELSE CASE db.rows[GetId(db, h)].tag \in {"Complete", "ReadyDelete"} -> "Complete"
           [] db.rows[GetId(db, h)].tag = "InProgress" -> "InProgress"
           [] OTHER -> "None"

\* Mutants of ResumeAt: a deletion, or a commit, is always run again in full.
ResumeDeletesAgain(s) ==
    LET tag == db.snaps[s].tag
        status == GcStatus(db.snaps[s].hash)
    IN  CASE tag \in {"Reserved", "InProgress"} ->
                 IF db.snaps[s].hash # NoHash /\ status # "None" THEN "ready_commit" ELSE "tops"
          [] tag = "Complete" -> "ready_commit"
          [] tag = "WillDelete" -> "will_delete"
          [] tag = "ReadyDelete" -> "ready_delete"

ResumeCommitsAgain(s) ==
    LET tag == db.snaps[s].tag
        status == GcStatus(db.snaps[s].hash)
    IN  CASE tag \in {"Reserved", "InProgress"} -> "tops"
          [] tag = "Complete" -> "ready_commit"
          [] tag = "WillDelete" -> IF status = "Complete" THEN "ready_delete" ELSE "will_delete"
          [] tag = "ReadyDelete" -> "ready_delete"

\* The step at which the work on snapshot s is taken up again.
ResumeAt(s) ==
    LET tag == db.snaps[s].tag
        status == GcStatus(db.snaps[s].hash)
    IN  CASE tag \in {"Reserved", "InProgress"} ->
                 IF db.snaps[s].hash # NoHash /\ status # "None" THEN "ready_commit" ELSE "tops"
          [] tag = "Complete" -> "ready_commit"
          [] tag = "WillDelete" -> IF status = "Complete" THEN "ready_delete" ELSE "will_delete"
          [] tag = "ReadyDelete" -> "ready_delete"

Deleting(s) == db.snaps[s].tag \in {"WillDelete", "ReadyDelete"}

Resume(s) ==
    /\ pc = "resume"
    /\ s \in NotDone
    /\ Deleting(s) => Located(db, db.snaps[s].hash)
    /\ cur' = s
    /\ pc' = ResumeAt(s)
    /\ left' = IF pc' = "tops" THEN Tops[content] ELSE {}
    /\ disk' = IF pc' = "tops" THEN db ELSE disk
    /\ UNCHANGED <<db, external, keys, idCounter, nextBlob, autoFlush, commits,
                   restarts, history>>

\* Mutant of ResumeNothing: resume may return with work left.
ResumeGivesUp ==
    /\ pc = "resume"
    /\ pc' = "idle"
    /\ UNCHANGED <<db, disk, external, keys, idCounter, nextBlob, autoFlush, cur,
                   left, commits, restarts, history>>

ResumeNothing ==
    /\ pc = "resume"
    /\ NotDone = {}
    /\ pc' = "idle"
    /\ UNCHANGED <<db, disk, external, keys, idCounter, nextBlob, autoFlush, cur,
                   left, commits, restarts, history>>

\* The listing of a snapshot fails: a hash has no row, or a directory cannot be
\* read.  A tree with hashes that were lost and inserted again may still refer
\* to where they were to be stored at first.
ListingFails(r) ==
    \/ \E h \in Listing(r) : ~Located(db, h)
    \/ ~Readable(r)
    \/ DirectoryTrees(r) \cap lost # {}

\* An expect() fails: a hash that it needs is not located, or not to be read.
ExpectFails ==
    /\ \/ pc = "tops" /\ \E h \in left \cap File : NextTop(h) /\ ~Located(db, h)
       \/ pc = "register_cleanup" /\ ~Located(db, db.snaps[cur].hash)
       \/ pc = "deregister" /\ ListingFails(db.snaps[cur].hash)
       \/ pc = "resume" /\ \E s \in NotDone : Deleting(s) /\ ~Located(db, db.snaps[s].hash)
       \/ Ready /\ \E i \in DOMAIN db.rows : Count(db, i) < 0
    /\ pc' = "panic"
    /\ UNCHANGED <<db, disk, external, keys, idCounter, nextBlob, autoFlush, cur,
                   left, commits, restarts, history>>

-----------------------------------------------------------------------------
Empty == [i \in {} |-> 0]
EmptyDb == [rows |-> Empty, cnt |-> Empty, snaps |-> Empty, blobs |-> Empty]

Init ==
    /\ db = EmptyDb /\ disk = EmptyDb
    /\ external = {}
    /\ content = EmptyRoot /\ scanned = {}
    /\ idCounter = 0 /\ nextBlob = 1
    /\ autoFlush = TRUE
    /\ pc = "idle" /\ cur = 0 /\ left = {}
    /\ commits = 0 /\ restarts = 0
    /\ gcRan = FALSE /\ lost = {}

Commit ==
    \/ CommitReserve
    \/ \E h \in left : TopHash(h)
    \/ CommitUpdate
    \/ RegisterFinal

CommitFinalize == ReadyCommit \/ RegisterCleanup \/ CommitDone

Deregister ==
    \/ WillDelete
    \/ DeregisterTag
    \/ DeregisterCount
    \/ ReadyDelete
    \/ DeregisterCleanup
    \/ SnapshotDelete

Gc ==
    \/ GcHashes
    \/ \E b \in left : GcDeleteBlob(b) \/ GcError(b)
    \/ GcDone

Next ==
    \/ \E r \in Root : \E F \in SUBSET (Tops[r] \cap File) : Scan(r, F)
    \/ \E k \in DOMAIN db.rows : BlobFull(k)
    \/ PeriodicFlush
    \/ Commit
    \/ CommitFinalize
    \/ DataFlush
    \/ \E s \in DOMAIN db.snaps : Delete(s)
    \/ Deregister
    \/ Gc
    \/ Restart
    \/ \E s \in DOMAIN db.snaps : Resume(s)
    \/ ResumeNothing
    \/ ExpectFails

Spec == Init /\ [][Next]_vars

\* An operation that has begun is carried on: the caller blocks on it.
Carries ==
    \/ Commit
    \/ CommitFinalize
    \/ Deregister
    \/ \E s \in DOMAIN db.snaps : Resume(s)
    \/ ResumeNothing
    \/ ExpectFails

FairSpec == Spec /\ WF_vars(Carries)

-----------------------------------------------------------------------------
IsDatabase(d) ==
    /\ \A i \in DOMAIN d.rows : d.rows[i] \in
           [hash : Hash, tag : Tag, ready : BOOLEAN, blob : Nat]
    /\ \A s \in DOMAIN d.snaps : d.snaps[s] \in
           [tag : Tag, hash : Root \cup {NoHash}]
    /\ \A i \in DOMAIN d.cnt : d.cnt[i] \in Int
    /\ \A b \in DOMAIN d.blobs : d.blobs[b] \in Tag
    /\ DOMAIN d.rows \subseteq 1..idCounter
    /\ DOMAIN d.blobs \subseteq 1..nextBlob

\* The tables are well formed, with ids that the counters have handed out, and
\* each hash has one row.
SnapshotTypeOK ==
    /\ IsDatabase(db) /\ IsDatabase(disk)
    /\ \A i, j \in DOMAIN db.rows : db.rows[i].hash = db.rows[j].hash => i = j
    /\ lost \subseteq Hash

DoneSnaps(d) == {s \in DOMAIN d.snaps : d.snaps[s].tag = "Done"}

\* Every hash that a finished snapshot needs is in the index, and a ready one
\* has its blob in external storage, in the running program and on disk,
\* whatever was deleted, collected, interrupted and resumed since; only what
\* a restart took before its blob was stored is missing.  (RegisterFinal and
\* deregister against gc; the order of the sweeps in Hat::gc.)
SnapshotsAreKept ==
    \A d \in {db, disk} :
        /\ \A s \in DoneSnaps(d) : \A h \in Need(d.snaps[s].hash) \ lost : Located(d, h)
        /\ \A i \in DOMAIN d.rows : d.rows[i].ready => d.rows[i].blob \in external

Referring(d, h) == {s \in DoneSnaps(d) : h \in Listing(d.snaps[s].hash)}

\* No count is below the number of finished snapshots that list the hash: an
\* interrupted deletion is never counted off twice, an interrupted commit is
\* never left out (resume).
NoUndercount ==
    \A i \in DOMAIN db.rows :
        db.rows[i].hash \notin lost =>
            Count(db, i) >= Cardinality(Referring(db, db.rows[i].hash))

\* Between operations the counts are exactly the references, however often a
\* commit or a deletion was cut off and resumed, as long as no restart lost a
\* hash and no collection has left its tags behind.
CountsAreExact ==
    (pc = "idle" /\ ~gcRan /\ lost = {}) =>
        \A i \in DOMAIN db.rows :
            Count(db, i) = Cardinality(Referring(db, db.rows[i].hash))

\* The first collection leaves just the hashes that a snapshot needs.
FirstGcIsExact ==
    (pc = "gc_blobs" /\ ~gcRan /\ lost = {}) =>
        {db.rows[i].hash : i \in DOMAIN db.rows}
            = UNION {Need(db.snaps[s].hash) : s \in DOMAIN db.snaps}

\* resume() ends by asserting that it left nothing unfinished; no sequence of
\* operations and crashes leaves two snapshots unfinished.
NothingUnfinished == pc = "idle" => NotDone = {}

\* When a collection may start, it will not delete a row whose content is still
\* on its way to a blob: hash_set_ready would find the row gone, and the chunk's
\* blob would be swept from under it (Hat::gc runs with the stores unflushed
\* after a commit, and after deletions of other snapshots).
GcSparesPending == Ready => Pending(db) \subseteq Marked(db)

\* The two ways to a panic with nothing lost.
MeetsUnscanned ==
    \E h \in (left \cap File) \ scanned : NextTop(h) /\ ~Located(db, h)

ListsPending ==
    /\ cur \in DOMAIN db.snaps /\ db.snaps[cur].tag = "WillDelete"
    /\ \E i \in Pending(db) : db.rows[i].hash \in DirectoryTrees(db.snaps[cur].hash)

\* An expect() of commit, deregister or resume, and the collector's assertion
\* on the counts, fail only when a restart has lost a hash, when a commit meets
\* a file of a directory that was not scanned this time, or when a snapshot is
\* deleted whose directories are not stored yet.
PanicHasCause == pc = "panic" => lost # {} \/ MeetsUnscanned \/ ListsPending

\* After deleting every snapshot "and running the GC, all blobs should be gone"
\* (delete_all_snapshots): no hash is left to keep a blob.
GcEmptiesRepository ==
    (pc = "gc_blobs" /\ DOMAIN db.snaps = {}) => DOMAIN db.rows = {}

\* A resumed operation comes to its end.
ResumeEnds == pc = "resume" ~> pc \in {"idle", "panic"}

=============================================================================

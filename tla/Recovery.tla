------------------------------ MODULE Recovery ------------------------------
(***************************************************************************)
(* Hat::recover (src/hat/mod.rs): rebuilding an empty local database from  *)
(* the blobs in external storage, with the part of Hat::resume that goes   *)
(* on with it.  The blobs are registered, the newest list of snapshots is  *)
(* found in them, and every snapshot of the list is walked from its root   *)
(* down (src/hat/walker.rs, family::recover) to give its hashes rows and   *)
(* the collector its counts.  At last the list itself becomes a snapshot.  *)
(*                                                                         *)
(* db is the database inside the open transaction, disk the last committed *)
(* one.  Rows become ready in the order of their ids, as HashIndex has it; *)
(* but a recovery meets a parent before its children.                      *)
(***************************************************************************)
EXTENDS Integers, Sequences, FiniteSets, SequencesExt

CONSTANTS
    Hash,        \* the hashes of the chunks in external storage
    Kids,        \* Kids[h]: references of the branch h; <<>> for a leaf
    Lists,       \* Lists[h]: tops that the directory leaf h lists; <<>> for others
    BlobOf,      \* BlobOf[h]: id of the blob that holds the chunk
    Roots,       \* tops that are lists of snapshots
    Listing,     \* Listing[r]: the hashes of the snapshots on the list r
    NoHash,
    MaxRestarts  \* bound: restarts, after a crash or an exit

Blobs == {BlobOf[h] : h \in Hash}

ASSUME RecoveryAssumption ==
    /\ Kids \in [Hash -> Seq(Hash)] /\ Lists \in [Hash -> Seq(Hash)]
    /\ \A h \in Hash : Kids[h] = <<>> \/ Lists[h] = <<>>
    /\ BlobOf \in [Hash -> Nat \ {0}]
    /\ Roots \subseteq Hash /\ Roots # {}
    /\ \A r, s \in Roots : BlobOf[r] = BlobOf[s] => r = s
    /\ Listing \in [Roots -> Seq(Hash)]
    /\ \A r \in Roots : r \notin Range(Listing[r])
    /\ \A r \in Roots : Kids[r] = <<>> /\ Lists[r] = <<>>
    /\ NoHash \notin Hash
    /\ MaxRestarts \in Nat

VARIABLES
    db,         \* the tables: rows, cnt, snaps, blobs
    disk,       \* the tables as last committed
    queue,      \* the hash index's queue of rows that are not ready
    idCounter,  \* hash_id_counter
    autoFlush,  \* flush_periodically
    pc,         \* where the process is
    after,      \* where it goes on when resume returns
    left,       \* blobs that BlobStore::recover has still to look at
    root,       \* the list of snapshots that recover goes by
    cur,        \* the snapshot that is being recovered
    stack,      \* what its walk has still to visit
    tops,       \* the tops that it has met
    restarts,
    finished,   \* history: a recover has returned
    cut         \* history: a restart took rows from under a ready one

vars == <<db, disk, queue, idCounter, autoFlush, pc, after, left, root, cur, stack,
          tops, restarts, finished, cut>>

history == <<restarts, finished, cut>>
walk == <<cur, stack, tops>>
index == <<queue, idCounter, autoFlush>>

EmptyTable == [i \in {} |-> NoHash]

RecoveryInit ==
    /\ db = [rows |-> EmptyTable, cnt |-> EmptyTable, snaps |-> <<>>, blobs |-> EmptyTable]
    /\ disk = db
    /\ queue = EmptyTable /\ idCounter = 0 /\ autoFlush = TRUE
    /\ pc = "resume" /\ after = "idle"
    /\ left = {} /\ root = NoHash
    /\ cur = 0 /\ stack = <<>> /\ tops = {}
    /\ restarts = 0 /\ finished = FALSE /\ cut = FALSE

Save(d) == db' = d /\ disk' = d

-----------------------------------------------------------------------------
\* The tables.

Located(d, h) == \E i \in DOMAIN d.rows : d.rows[i].hash = h
GetId(d, h) == CHOOSE i \in DOMAIN d.rows : d.rows[i].hash = h

SetTag(d, I, t) ==
    [d EXCEPT !.rows = [i \in DOMAIN d.rows |->
        IF i \in I THEN [d.rows[i] EXCEPT !.tag = t] ELSE d.rows[i]]]

SetAllTags(d, t) == SetTag(d, DOMAIN d.rows, t)

IdsByTag(d, t) == {i \in DOMAIN d.rows : d.rows[i].tag = t}

\* No gc_metadata row reads as zero.
Count(d, i) == IF i \in DOMAIN d.cnt THEN d.cnt[i] ELSE 0

AddCount(d, I) ==
    [d EXCEPT !.cnt = [i \in DOMAIN d.cnt \cup I |->
                          Count(d, i) + (IF i \in I THEN 1 ELSE 0)]]

SnapshotSetTag(d, s, t) == [d EXCEPT !.snaps[s].tag = t]

-----------------------------------------------------------------------------
\* The hash index, over states [db, queue, next].

Index == [db |-> db, queue |-> queue, next |-> idCounter]

With(t, k, v) == [i \in DOMAIN t \cup {k} |-> IF i = k THEN v ELSE t[i]]

\* One reserve after another: a hash that is known keeps its row, another gets
\* the next id and a place in the queue.  A row's children come with commit.
NewOf(x, hs) == {n \in 1 .. Len(hs) : /\ ~Located(x.db, hs[n])
                                      /\ \A m \in 1 .. n - 1 : hs[m] # hs[n]}

ReserveAll(x, hs) ==
    LET new == NewOf(x, hs)
        id == [n \in new |-> x.next + Cardinality({m \in new : m <= n})]
        at == [i \in Range(id) |-> hs[CHOOSE n \in new : id[n] = i]]
    IN  [db |-> [x.db EXCEPT !.rows = [i \in DOMAIN x.db.rows \cup DOMAIN at |->
                    IF i \in DOMAIN at
                    THEN [hash |-> at[i], tag |-> "Done", ready |-> FALSE, childs |-> <<>>]
                    ELSE x.db.rows[i]]],
         queue |-> [i \in DOMAIN x.queue \cup DOMAIN at |->
                       IF i \in DOMAIN at THEN [childs |-> <<>>, complete |-> FALSE]
                       ELSE x.queue[i]],
         next |-> x.next + Cardinality(new)]

\* What the timer may save of this: reserve calls maybe_flush before it inserts.
FlushedIn(x, hs) == {ReserveAll(x, SubSeq(hs, 1, n - 1)).db : n \in NewOf(x, hs)}

\* The queue is popped from the smallest id, as long as the entry is complete.
Commit(x, i, childs) ==
    LET q == With(x.queue, i, [childs |-> childs, complete |-> TRUE])
        popped == {j \in DOMAIN q : \A k \in DOMAIN q : k <= j => q[k].complete}
    IN  [db |-> [x.db EXCEPT !.rows = [j \in DOMAIN x.db.rows |->
                    IF j \in popped
                    THEN [x.db.rows[j] EXCEPT !.ready = TRUE, !.childs = q[j].childs]
                    ELSE x.db.rows[j]]],
         queue |-> [j \in DOMAIN q \ popped |-> q[j]],
         next |-> x.next]

-----------------------------------------------------------------------------
\* BlobStore::recover.

\* The recover command.
Recover ==
    /\ pc = "idle"
    /\ pc' = "blobs"
    /\ left' = Blobs
    /\ UNCHANGED <<db, disk, index, after, root, walk, history>>

\* The blob has a row, whatever its tag.
BlobExists(b) ==
    /\ pc = "blobs"
    /\ b \in left \cap DOMAIN db.blobs
    /\ left' = left \ {b}
    /\ UNCHANGED <<db, disk, index, pc, after, root, walk, history>>

BlobInAir(b) ==
    /\ pc = "blobs"
    /\ b \in left \ DOMAIN db.blobs
    /\ Save([db EXCEPT !.blobs = With(db.blobs, b, "InProgress")])
    /\ pc' = "blob_commit"
    /\ left' = {b} \cup left
    /\ cur' = b
    /\ UNCHANGED <<index, after, root, stack, tops, history>>

BlobCommit ==
    /\ pc = "blob_commit"
    /\ Save([db EXCEPT !.blobs[cur] = "Done"])
    /\ pc' = "blobs"
    /\ left' = left \ {cur}
    /\ UNCHANGED <<index, after, root, walk, history>>

\* recover_root looks through the blobs that are Done, the largest id first.
DoneRoots(d) == {r \in Roots : BlobOf[r] \in DOMAIN d.blobs /\ d.blobs[BlobOf[r]] = "Done"}

Newest(R) == CHOOSE r \in R : \A s \in R : BlobOf[s] <= BlobOf[r]

Entry(key, h) == [key |-> key, hash |-> h, tag |-> "RecoverInProgress"]

\* A snapshot on a list is known by its family and id, which its place stands
\* for.  The list itself is given the next id of its family: place 0.
OnList(r) == [n \in 1 .. Len(Listing[r]) |-> Entry(n, Listing[r][n])]

\* SnapshotIndex::recover, one entry after another: a snapshot that is there is
\* left alone.
SnapshotRecover(snaps, es) ==
    LET new == {n \in 1 .. Len(es) : \A i \in 1 .. Len(snaps) : snaps[i].key # es[n].key}
        At(k) == CHOOSE n \in new : Cardinality({m \in new : m <= n}) = k
    IN  snaps \o [k \in 1 .. Cardinality(new) |-> es[At(k)]]

PickRoot ==
    /\ pc = "blobs"
    /\ left = {}
    /\ DoneRoots(db) # {}
    /\ root' = Newest(DoneRoots(db))
    /\ Save([db EXCEPT !.snaps = SnapshotRecover(db.snaps, OnList(root'))])
    /\ pc' = "resume" /\ after' = "register_root"
    /\ UNCHANGED <<index, left, walk, history>>

\* expect("Failed to find a commit-ed root.")
NoRoot ==
    /\ pc = "blobs"
    /\ left = {}
    /\ DoneRoots(db) = {}
    /\ pc' = "panicked"
    /\ UNCHANGED <<db, disk, index, after, left, root, walk, history>>

Latest(d) ==
    LET S == {i \in 1 .. Len(d.snaps) : d.snaps[i].hash \in Roots}
    IN  IF S = {} THEN NoHash ELSE d.snaps[CHOOSE i \in S : \A j \in S : j <= i].hash

\* Mutant of RegisterRoot: the root is registered whether it is there or not.
RegisterRootAlways ==
    /\ pc = "register_root"
    /\ Save([db EXCEPT !.snaps = Append(db.snaps, Entry(0, root))])
    /\ pc' = "resume" /\ after' = "recovered"
    /\ UNCHANGED <<index, left, root, walk, history>>

\* "Register the newly found root. This is needed because root cannot contain
\* itself."
RegisterRoot ==
    /\ pc = "register_root"
    /\ IF Latest(db) = root
       THEN /\ pc' = "idle" /\ finished' = TRUE
            /\ UNCHANGED <<db, disk, after>>
       ELSE /\ Save([db EXCEPT !.snaps = Append(db.snaps, Entry(0, root))])
            /\ pc' = "resume" /\ after' = "recovered"
            /\ UNCHANGED finished
    /\ UNCHANGED <<index, left, root, walk, restarts, cut>>

RecoverReturns ==
    /\ pc = "recovered"
    /\ pc' = "idle" /\ finished' = TRUE
    /\ UNCHANGED <<db, disk, index, after, left, root, walk, restarts, cut>>

-----------------------------------------------------------------------------
\* Hat::resume.  The snapshots that are not Done come in the order of the table.

NotDone == {s \in 1 .. Len(db.snaps) : db.snaps[s].tag # "Done"}
NextSnap == CHOOSE s \in NotDone : \A t \in NotDone : s <= t

\* GcRc::status of the snapshot's root.
InGc(h) == Located(db, h) /\ db.rows[GetId(db, h)].tag = "InProgress"

ResumeRecovery ==
    LET s == NextSnap
    IN  /\ pc = "resume"
        /\ NotDone # {}
        /\ db.snaps[s].tag = "RecoverInProgress"
        /\ ~InGc(db.snaps[s].hash)
        /\ cur' = s /\ stack' = <<db.snaps[s].hash>> /\ tops' = {}
        /\ pc' = "walk"
        /\ UNCHANGED <<db, disk, index, after, left, root, history>>

\* Mutant of ResumeFinalize: the snapshot is recovered again.
ResumeAgain ==
    LET s == NextSnap
    IN  /\ pc = "resume"
        /\ NotDone # {}
        /\ db.snaps[s].tag = "Complete"
        /\ cur' = s /\ stack' = <<db.snaps[s].hash>> /\ tops' = {}
        /\ pc' = "walk"
        /\ UNCHANGED <<db, disk, index, after, left, root, history>>

ResumeFinalize ==
    /\ pc = "resume"
    /\ NotDone # {}
    /\ db.snaps[NextSnap].tag = "Complete"
    /\ cur' = NextSnap
    /\ pc' = "ready_commit"
    /\ UNCHANGED <<db, disk, index, after, left, root, stack, tops, history>>

ResumeReturns ==
    /\ pc = "resume"
    /\ NotDone = {}
    /\ pc' = after
    /\ UNCHANGED <<db, disk, index, after, left, root, walk, history>>

-----------------------------------------------------------------------------
\* recover_snapshot.

\* The children of a branch are reserved, then the branch.
Reserved(h) == ReserveAll(Index, Append(Kids[h], h))

ChildIds(x, h) == [n \in 1 .. Len(Kids[h]) |-> GetId(x.db, Kids[h][n])]

\* Mutants of Recovered: a hash that was known is taken to be committed; the
\* children are not kept.
RecoveredOnce(x, h) ==
    IF Located(db, h) THEN x ELSE Commit(x, GetId(x.db, h), ChildIds(x, h))

RecoveredChildless(x, h) ==
    LET i == GetId(x.db, h)
    IN  IF i \notin DOMAIN x.queue THEN x ELSE Commit(x, i, <<>>)

\* The rest of recover_entry: "a repeat hash that was already fully committed"
\* is left as it is, another is committed with its children.
Recovered(x, h) ==
    LET i == GetId(x.db, h)
    IN  IF i \notin DOMAIN x.queue THEN x ELSE Commit(x, i, ChildIds(x, h))

\* The walk comes to a node: a branch's children are next, and after a leaf of
\* a directory the files and directories on it.  The timer may fire in reserve
\* and at the end of commit.
Visit ==
    /\ pc = "walk"
    /\ stack # <<>>
    /\ LET h == Head(stack)
       IN  /\ BlobOf[h] \in DOMAIN db.blobs
           /\ \E r \in {Reserved(h)} : \E x \in {Recovered(r, h)} :
                 /\ db' = x.db /\ queue' = x.queue /\ idCounter' = x.next
                 /\ disk' \in {disk} \cup
                       (IF autoFlush
                        THEN FlushedIn(Index, Append(Kids[h], h)) \cup
                             (IF x = r THEN {} ELSE {x.db})
                        ELSE {})
           /\ stack' = Kids[h] \o Lists[h] \o Tail(stack)
           /\ tops' = tops \cup Range(Lists[h])
    /\ UNCHANGED <<autoFlush, pc, after, left, root, cur, history>>

Final == db.snaps[cur].hash

\* The tops are tagged, and the blob store's flush saves it.
TagTops ==
    LET I == {GetId(db, h) : h \in tops \ {Final}}
    IN  /\ pc = "walk"
        /\ stack = <<>>
        /\ \A h \in tops : Located(db, h)
        /\ Save(SetTag(SetAllTags(db, "Done"), I, "Reserved"))
        /\ pc' = "register"
        /\ UNCHANGED <<index, after, left, root, walk, history>>

Counted(d, f) ==
    LET tagged == SetTag(d, {f}, "Reserved")
    IN  SetTag(AddCount(tagged, IdsByTag(tagged, "Reserved")), {f}, "InProgress")

\* manual_commit, and the counts; nothing saves them before ready_commit.
RegisterFinal ==
    /\ pc = "register"
    /\ db' = Counted(db, GetId(db, Final))
    /\ disk' = db
    /\ autoFlush' = FALSE
    /\ pc' = "ready_commit"
    /\ UNCHANGED <<queue, idCounter, after, left, root, walk, history>>

ReadyCommit ==
    /\ pc = "ready_commit"
    /\ Save(SnapshotSetTag(db, cur, "Complete"))
    /\ pc' = "register_cleanup"
    /\ UNCHANGED <<index, after, left, root, walk, history>>

RegisterCleanup ==
    /\ pc = "register_cleanup"
    /\ Save(SetAllTags(db, "Done"))
    /\ pc' = "commit_done"
    /\ UNCHANGED <<index, after, left, root, walk, history>>

\* Mutant of CommitDone: the snapshot keeps its tag.
CommitNeverDone ==
    /\ pc = "commit_done"
    /\ Save(db)
    /\ pc' = "resume"
    /\ UNCHANGED <<index, after, left, root, walk, history>>

CommitDone ==
    /\ pc = "commit_done"
    /\ Save(SnapshotSetTag(db, cur, "Done"))
    /\ pc' = "resume"
    /\ UNCHANGED <<index, after, left, root, walk, history>>

-----------------------------------------------------------------------------
\* A restart: the rows that are not ready are deleted, the counter goes on from
\* the largest of all, and open_repository resumes.

MaxOf(S) == IF S = {} THEN 0 ELSE CHOOSE i \in S : \A j \in S : j <= i

ReadyRows(d) == [i \in {j \in DOMAIN d.rows : d.rows[j].ready} |-> d.rows[i]]

Restart ==
    /\ restarts < MaxRestarts
    /\ restarts' = restarts + 1
    /\ db' = [disk EXCEPT !.rows = ReadyRows(disk)]
    /\ idCounter' = MaxOf(DOMAIN disk.rows)
    /\ queue' = EmptyTable /\ autoFlush' = TRUE
    /\ pc' = "resume" /\ after' = "idle"
    /\ left' = {} /\ root' = NoHash
    /\ cur' = 0 /\ stack' = <<>> /\ tops' = {}
    /\ cut' = (cut \/ \E i \in DOMAIN db'.rows :
                          ~(Range(db'.rows[i].childs) \subseteq DOMAIN db'.rows))
    /\ UNCHANGED <<disk, finished>>

Step ==
    \/ \E b \in Blobs : BlobExists(b)
    \/ \E b \in Blobs : BlobInAir(b)
    \/ BlobCommit
    \/ PickRoot
    \/ NoRoot
    \/ RegisterRoot
    \/ RecoverReturns
    \/ ResumeRecovery
    \/ ResumeFinalize
    \/ ResumeReturns
    \/ Visit
    \/ TagTops
    \/ RegisterFinal
    \/ ReadyCommit
    \/ RegisterCleanup
    \/ CommitDone

RecoveryNext == Recover \/ Step \/ Restart

\* The process runs until it is done; nobody has to run recover again.
RecoverySpec == RecoveryInit /\ [][RecoveryNext]_vars /\ WF_vars(Step)

-----------------------------------------------------------------------------
\* What a walk from h meets: the smallest set with h that has the references
\* and entries of all its hashes.
Whole == {S \in SUBSET Hash : \A g \in S : Range(Kids[g]) \cup Range(Lists[g]) \subseteq S}

Need == [h \in Hash |-> {g \in Hash : \A S \in Whole : h \in S => g \in S}]

Tops == [h \in Hash |-> {h} \cup UNION {Range(Lists[g]) : g \in Need[h]}]

SnapTag == {"RecoverInProgress", "Complete", "Done"}

\* The tables hold rows, and the queue the rows that are not ready.
RecoveryTypeOK ==
    /\ DOMAIN queue = {i \in DOMAIN db.rows : ~db.rows[i].ready}
    /\ \A i \in DOMAIN db.rows : i \in 1 .. idCounter /\ db.rows[i].hash \in Hash
    /\ \A i, j \in DOMAIN db.rows : db.rows[i].hash = db.rows[j].hash => i = j
    /\ \A s \in 1 .. Len(db.snaps) : db.snaps[s].hash \in Hash /\ db.snaps[s].tag \in SnapTag
    /\ DOMAIN db.cnt \subseteq DOMAIN db.rows

\* What the collector has counted survives a crash whole: every chunk of a
\* snapshot that is Complete or Done on disk has a ready row on disk, and a
\* blob to go with it (recover_entry, flush_blob_store before register_final).
CountedIsThere ==
    \A s \in 1 .. Len(disk.snaps) : disk.snaps[s].tag # "RecoverInProgress" =>
        \A h \in Need[disk.snaps[s].hash] :
            /\ \E i \in DOMAIN disk.rows : disk.rows[i].hash = h /\ disk.rows[i].ready
            /\ BlobOf[h] \in DOMAIN disk.blobs

\* A walk leaves no hash reserved: every child that a branch reserved is itself
\* visited.  The hash index may be dropped ("Sanity check that we flushed this
\* hash index fully before dropping it", InternalHashIndex::drop).
WalkLeavesNothing == pc # "walk" => queue = EmptyTable

Registered(d) ==
    {s \in 1 .. Len(d.snaps) : d.snaps[s].tag # "RecoverInProgress" \/ (pc = "ready_commit" /\ s = cur)}

\* However often recovery was cut off and resumed, a top's count is the number
\* of recovered snapshots that have it, so that deleting them all brings it
\* back to zero (register_final, resume, GcRc::deregister).
RecoveredCountsExact ==
    \A i \in DOMAIN db.rows :
        Count(db, i) = Cardinality({s \in Registered(db) :
                                       db.rows[i].hash \in Tops[db.snaps[s].hash]})

\* The snapshots that a list recovers, and the list.
InRecovery(r) == {r} \cup Range(Listing[r])

\* Once recover has returned, the database has the snapshots of one list, and
\* the list, each once, and all of them Done: running it again adds nothing.
\* The list is the newest, unless a crash left its blob in progress
\* (InternalBlobIndex::recover takes a blob that has a row as it is).
RecoveredExactly ==
    finished /\ pc = "idle" =>
        /\ NotDone = {}
        /\ \E r \in Roots :
              /\ {db.snaps[s].hash : s \in 1 .. Len(db.snaps)} = InRecovery(r)
              /\ Len(db.snaps) = Len(Listing[r]) + 1
              /\ r = Newest({q \in Roots : db.blobs[BlobOf[q]] # "InProgress"})

\* mark_tree from the rows with a count, along the ids of children: the smallest
\* set that has both.
MarkedBy(I) ==
    /\ \A i \in DOMAIN db.rows : Count(db, i) > 0 => i \in I
    /\ \A i \in I : Range(db.rows[i].childs) \cap DOMAIN db.rows \subseteq I

Marked == {i \in DOMAIN db.rows : \A I \in SUBSET DOMAIN db.rows : MarkedBy(I) => i \in I}

\* A collection after recovery would delete nothing that was recovered: "Check
\* that we now reference all the blobs" (src/hat/tests.rs, recover).  A restart
\* that left a branch without its children is excepted.
GcSparesRecovered ==
    finished /\ pc = "idle" /\ ~cut => Marked = DOMAIN db.rows

\* A recovery, or one that is resumed, ends (resume, Walker::resume).
RecoveryEnds == pc \in {"blobs", "resume"} ~> pc \in {"idle", "panicked"}

=============================================================================

------------------------------ MODULE KeyStore ------------------------------
(***************************************************************************)
(* A family's key index (src/key/index.rs), the key stores that fill it    *)
(* (src/key/mod.rs) and the scan that drives them: Family::snapshot_dir    *)
(* with InsertPathHandler, PathHandler::recurse and the SyncPool of key    *)
(* store processes (src/hat, src/util).                                    *)
(*                                                                         *)
(* key_tree has one node per (parent, name), deleted with all that is      *)
(* below it, so a node is named here by its path.  key_data has up to two  *)
(* rows per node: the committed one, which list_dir reads, and the one     *)
(* that a scan has inserted.  keys is what the index's open transaction    *)
(* sees, keyDisk what it last committed.  The hash index is another        *)
(* database: known is what hash_exists answers, durable what of it is      *)
(* ready on disk, and neither database waits for the other.                *)
(*                                                                         *)
(* A scan is given one path.  It inserts the directories on the way to it, *)
(* walks what is below it and cleans up below it; the rows of every other  *)
(* path that was ever scanned into the family stay, and are listed.        *)
(***************************************************************************)
EXTENDS Naturals, FiniteSets

CONSTANTS
    Path,         \* absolute paths
    Top,          \* "/": the root of the key index, parent None, which has no row
    Parent,       \* Parent[p]: the directory that holds p
    Versions,     \* Versions[p]: what the path may be on the local disk
    None,         \* ... or that there is nothing
    NoData,       \* data: neither a hash nor a link
    Link,         \* data: a symbolic link
    Hash,         \* data: the hash of a file's content
    EmptyHash,    \* the hash of a file that ends at once
    Unreadable,   \* files that cannot be opened
    KeyStores,    \* number of key store processes
    MaxChanges,   \* bound: changes to the local disk
    MaxRestarts   \* bound: restarts, after a crash or an exit

Kind == {"dir", "file", "link"}

\* A path's modification time tells its versions apart: data_looks_unchanged
\* trusts it.
ASSUME KeyAssumption ==
    /\ IsFiniteSet(Path) /\ Top \in Path
    /\ Parent \in [Path \ {Top} -> Path]
    /\ \A v \in Versions[Top] : v.kind = "dir"
    /\ EmptyHash \in Hash
    /\ NoData \notin Hash \cup {Link} /\ Link \notin Hash
    /\ \A p \in Path : None \notin Versions[p]
    /\ \A p \in Path : \A v \in Versions[p] :
          /\ v.kind \in Kind /\ v.mtime \in Nat
          /\ v.data \in (IF v.kind = "file" THEN Hash ELSE
                         IF v.kind = "link" THEN {Link} ELSE {NoData})
    /\ \A p \in Path : \A v, w \in Versions[p] : v.mtime = w.mtime => v = w
    /\ KeyStores \in Nat \ {0}
    /\ MaxChanges \in Nat /\ MaxRestarts \in Nat

VARIABLES
    fs,         \* the local disk
    moved,      \* it has changed since the scan began
    torn,       \* versions under whose time a scan has read something else
    keys,       \* key_data: rows of a scan (new) and committed rows (old)
    keyDisk,    \* the same as last committed
    known,      \* hashes that the hash index knows
    durable,    \* hashes that it knows after a crash
    scan,       \* where snapshot_dir is
    target,     \* the path it was given
    job,        \* where handle_path is with each path
    unflushed,  \* directories whose level cleanup_unused has not flushed yet
    changes, restarts

vars == <<fs, moved, torn, keys, keyDisk, known, durable, scan, target, job, unflushed,
          changes, restarts>>

Row == [mtime : Nat, data : Hash \cup {Link, NoData}, tag : {"Done", "Reserved"}]

NoRows == [p \in {} |-> NoData]
Nodes(k) == DOMAIN k.new \cup DOMAIN k.old

Put(t, p, r) == [q \in DOMAIN t \cup {p} |-> IF q = p THEN r ELSE t[q]]
Drop(t, P) == [q \in DOMAIN t \ P |-> t[q]]
Tagged(t, P, tag) == [q \in DOMAIN t |-> IF q \in P THEN [t[q] EXCEPT !.tag = tag] ELSE t[q]]

Children(p) == {q \in Path \ {Top} : Parent[q] = p}

\* The paths from p up to Top: what is in every set that has p and, with each
\* path below Top, the directory that holds it.
Ancestry ==
    [p \in Path |-> {q \in Path :
        \A S \in SUBSET Path : p \in S /\ (\A r \in S \ {Top} : Parent[r] \in S) => q \in S}]
Lineage(p) == Ancestry[p]
Below(p) == {q \in Path : p \in Lineage(q)}

\* Path is a tree: going up from any path ends at Top.
ASSUME LineageAssumption == \A p \in Path : Top \in Lineage(p)

\* The directories on the way to the path that is scanned.
OnTheWay(p) == p \in Lineage(target) \ {target}

Idle == [at |-> "none", meta |-> None, data |-> NoData]

KeyInit ==
    /\ fs \in [Path -> (UNION {Versions[p] : p \in Path}) \cup {None}]
    /\ \A p \in Path : fs[p] \in Versions[p] \cup {None}
    /\ \A p \in Path \ {Top} : fs[p] # None => fs[Parent[p]] # None /\ fs[Parent[p]].kind = "dir"
    /\ fs[Top] # None
    /\ moved = FALSE /\ torn = [p \in Path |-> {}]
    /\ keys = [new |-> NoRows, old |-> NoRows] /\ keyDisk = keys
    /\ known = {} /\ durable = {}
    /\ scan = "open" /\ target = Top
    /\ job = [p \in Path |-> Idle]
    /\ unflushed = {}
    /\ changes = 0 /\ restarts = 0

-----------------------------------------------------------------------------
\* What goes on around the scan.

\* Someone replaces what is at a path; what was below it goes with it.  During
\* a walk the path that is scanned stays a directory, or a file (snapshot_dir
\* looks at it twice and takes the answers to agree), and stays where it is
\* (canonicalize has looked at the directories on the way).  A file that was
\* replaced between the reading of its metadata and of its content is not put
\* back under the same modification time: no program that compares times would
\* notice.
Change(p) ==
    /\ changes < MaxChanges
    /\ changes' = changes + 1
    /\ moved' = TRUE
    /\ p # Top /\ fs[Parent[p]] # None /\ fs[Parent[p]].kind = "dir"
    /\ scan = "walk" => ~OnTheWay(p)
    /\ \E v \in Versions[p] \cup {None} :
          /\ v # fs[p] /\ v \notin torn[p]
          /\ scan = "walk" /\ p = target => v # None /\ v.kind = fs[p].kind
          /\ fs' = [q \in Path |-> IF q = p THEN v
                                   ELSE IF q \in Below(p) THEN None ELSE fs[q]]
    /\ UNCHANGED <<torn, keys, keyDisk, known, durable, scan, target, job, unflushed, restarts>>

\* The hash index commits a transaction in which h is ready.
SaveHash(h) ==
    /\ h \in known
    /\ durable' = durable \cup {h}
    /\ UNCHANGED <<fs, moved, torn, keys, keyDisk, known, scan, target, job, unflushed, changes,
                   restarts>>

\* A collection: h is in no snapshot.  The key index is not asked.
Collect(h) ==
    /\ scan = "open"
    /\ known' = known \ {h}
    /\ durable' = durable \ {h}
    /\ UNCHANGED <<fs, moved, torn, keys, keyDisk, scan, target, job, unflushed, changes, restarts>>

-----------------------------------------------------------------------------
\* The index.

\* Ordered by committed: a row that a scan left uncommitted comes first.
Lookup(p) == IF p \in DOMAIN keys.new THEN keys.new[p] ELSE keys.old[p]

\* mark_reserved tags both rows of the node.
MarkReserved(p) ==
    keys' = [new |-> Tagged(keys.new, {p}, "Reserved"),
             old |-> Tagged(keys.old, {p}, "Reserved")]

\* insert, and maybe_flush: fired says whether the 5 s timer had expired.
InsertRow(p, mtime, data, fired) ==
    /\ keys' = [keys EXCEPT !.new = Put(keys.new, p, [mtime |-> mtime, data |-> data,
                                                      tag |-> "Reserved"])]
    /\ keyDisk' = IF fired THEN keys' ELSE keyDisk

\* The rows that a scan reserved replace the committed ones.
ReservedNew == {p \in DOMAIN keys.new : keys.new[p].tag = "Reserved"}

Promoted(P) ==
    [new |-> Drop(keys.new, P),
     old |-> [p \in DOMAIN keys.old \cup P |-> IF p \in P THEN keys.new[p] ELSE keys.old[p]]]

Unreserved(k) ==
    {p \in DOMAIN k.old : k.old[p].tag = "Done"} \cup {p \in DOMAIN k.new : k.new[p].tag = "Done"}

-----------------------------------------------------------------------------
\* Key store processes.  A worker holds one of them from before it sends
\* Msg::Insert until the reply.

\* Mutant of HoldsStore: the guard of the pool is not dropped.
HoldsStoreAfterReply(p) == job[p].at \in {"lookup", "read", "insert", "readdir", "done"}

HoldsStore(p) == job[p].at \in {"lookup", "read", "insert"}

Goto(p, at) == job' = [job EXCEPT ![p].at = at]

\* InsertPathHandler::handle_path: the metadata is read first.  The entries of
\* a directory are handled one after another.
Stat(p) ==
    /\ scan = "walk"
    /\ job[p].at = "listed"
    /\ \A q \in Children(Parent[p]) : job[q].at # "stat" /\ ~HoldsStore(q)
    /\ job' = IF fs[p] = None
              THEN [job EXCEPT ![p].at = "done"]
              ELSE [job EXCEPT ![p] = [at |-> "stat", meta |-> fs[p], data |-> NoData]]
    /\ UNCHANGED <<fs, moved, torn, keys, keyDisk, known, durable, scan, target, unflushed, changes,
                   restarts>>

\* SyncPool::lock waits for a key store.
TakeStore(p) ==
    /\ scan = "walk"
    /\ job[p].at = "stat"
    /\ Cardinality({q \in Path : HoldsStore(q)}) < KeyStores
    /\ Goto(p, "lookup")
    /\ UNCHANGED <<fs, moved, torn, keys, keyDisk, known, durable, scan, target, unflushed, changes,
                   restarts>>

\* Mutant of HasData: a stored hash is not looked up in the hash index.
HasDataStored(r) == r.data \in Hash

HasData(r) == r.data \in Hash /\ r.data \in known

LooksUnchanged(p) == p \in Nodes(keys) /\ Lookup(p).mtime = job[p].meta.mtime

\* The two short-circuits of Msg::Insert.
MaySkip(p) ==
    /\ LooksUnchanged(p)
    /\ job[p].meta.kind = "file" => HasData(Lookup(p))

\* What becomes of p once its reply has come: a directory is read next.
Replied(p) == IF job[p].meta.kind = "dir" THEN "readdir" ELSE "done"

SkipEntry(p) ==
    /\ scan = "walk"
    /\ job[p].at = "lookup"
    /\ MaySkip(p)
    /\ MarkReserved(p)
    /\ Goto(p, Replied(p))
    /\ UNCHANGED <<fs, moved, torn, keyDisk, known, durable, scan, target, unflushed, changes,
                   restarts>>

\* No short-circuit: a file is read, anything else is inserted as it is.
MissEntry(p) ==
    /\ scan = "walk"
    /\ job[p].at = "lookup"
    /\ ~MaySkip(p)
    /\ job' = [job EXCEPT ![p].at = IF job[p].meta.kind = "file" THEN "read" ELSE "insert",
                          ![p].data = IF job[p].meta.kind = "link" THEN Link ELSE NoData]
    /\ UNCHANGED <<fs, moved, torn, keys, keyDisk, known, durable, scan, target, unflushed, changes,
                   restarts>>

\* The file is opened and stored as a hash tree.  It may have changed since
\* its metadata was read: what is a directory by now reads as empty.
ReadFile(p) ==
    LET gone == fs[p] = None \/ p \in Unreadable
        data == IF gone THEN NoData
                ELSE IF fs[p].kind = "file" THEN fs[p].data ELSE EmptyHash
    IN  /\ scan = "walk"
        /\ job[p].at = "read"
        /\ known' = known \cup ({data} \ {NoData})
        /\ job' = [job EXCEPT ![p].at = "insert", ![p].data = data]
        /\ torn' = IF fs[p] = job[p].meta THEN torn
                   ELSE [torn EXCEPT ![p] = @ \cup {job[p].meta}]
        /\ UNCHANGED <<fs, moved, keys, keyDisk, durable, scan, target, unflushed, changes,
                       restarts>>

InsertEntry(p, fired) ==
    /\ scan = "walk"
    /\ job[p].at = "insert"
    /\ InsertRow(p, job[p].meta.mtime, job[p].data, fired)
    /\ Goto(p, Replied(p))
    /\ UNCHANGED <<fs, moved, torn, known, durable, scan, target, unflushed, changes, restarts>>

\* What is handled after directory p: the next component of the path, and in
\* and below the target whatever read_dir finds (recurse_worker).  A directory
\* that is gone has no entries.
Entries(p) ==
    IF OnTheWay(p) THEN Children(p) \cap Lineage(target)
                   ELSE {q \in Children(p) : fs[q] # None}

ReadDir(p) ==
    /\ scan = "walk"
    /\ job[p].at = "readdir"
    /\ job' = [q \in Path |->
                  IF q = p THEN [job[p] EXCEPT !.at = "done"]
                  ELSE IF q \in Entries(p) THEN [Idle EXCEPT !.at = "listed"]
                  ELSE job[q]]
    /\ UNCHANGED <<fs, moved, torn, keys, keyDisk, known, durable, scan, target, unflushed, changes,
                   restarts>>

-----------------------------------------------------------------------------
\* Family::snapshot_dir, once in the life of a process (main.rs, commit).

\* The path t is canonical: there, and not a link.  The walk starts at the
\* root, which needs no row.
ScanStart(t) ==
    /\ scan = "open"
    /\ fs[t] # None /\ fs[t].kind # "link"
    /\ scan' = "walk"
    /\ target' = t
    /\ job' = [p \in Path |->
                  IF p = Top THEN [at |-> "readdir", meta |-> fs[Top], data |-> NoData] ELSE Idle]
    /\ moved' = FALSE
    /\ UNCHANGED <<fs, torn, keys, keyDisk, known, durable, unflushed, changes, restarts>>

WalkDone == \A p \in Path : job[p].at \in {"none", "done"}

\* Mutant of CommitReservedNodes: the rows are promoted one by one, and the
\* timer may expire in between.
CommitReservedOneByOne ==
    /\ scan = "walk" /\ WalkDone
    /\ \E p \in ReservedNew :
          /\ keys' = Promoted({p})
          /\ keyDisk' = keys'
    /\ UNCHANGED <<fs, moved, torn, known, durable, scan, target, job, unflushed, changes,
                   restarts>>

\* The paths from p up to the target, without it.
Between(p) == (Lineage(p) \cap Below(target)) \ {target}

\* Msg::CommitReservedNodes: "in one statement to preserve referential
\* integrity".  Cleaning up follows only if the path is a directory.
CommitReservedNodes ==
    /\ scan = "walk" /\ WalkDone
    /\ keys' = Promoted(ReservedNew)
    /\ IF job[target].meta.kind = "dir"
       THEN /\ scan' = "cleanup"
            /\ unflushed' = {p \in Below(target) : Between(p) \subseteq
                                                      Nodes(keys') \ Unreserved(keys')}
       ELSE scan' = "scanned_file" /\ UNCHANGED unflushed
    /\ UNCHANGED <<fs, moved, torn, keyDisk, known, durable, target, job, changes, restarts>>

\* cleanup_unused deletes a node that is not reserved, with all below it.
DeleteNode(p) ==
    /\ scan = "cleanup"
    /\ p \in Unreserved(keys)
    /\ p # Top /\ Parent[p] \in unflushed
    /\ keys' = [new |-> Drop(keys.new, Below(p)), old |-> Drop(keys.old, Below(p))]
    /\ UNCHANGED <<fs, moved, torn, keyDisk, known, durable, scan, target, job, unflushed, changes,
                   restarts>>

\* It flushes at the end of every level, the levels below being done.
CleanupLevel(p) ==
    /\ scan = "cleanup"
    /\ p \in unflushed
    /\ Children(p) \cap (unflushed \cup Unreserved(keys)) = {}
    /\ keyDisk' = keys
    /\ unflushed' = unflushed \ {p}
    /\ scan' = IF p = target THEN "scanned" ELSE scan
    /\ UNCHANGED <<fs, moved, torn, keys, known, durable, target, job, changes, restarts>>

\* Family::flush and the rest of data_flush, at the end of the command.
FamilyFlush ==
    /\ scan \in {"scanned", "scanned_file"}
    /\ keyDisk' = keys
    /\ durable' = known
    /\ UNCHANGED <<fs, moved, torn, keys, known, scan, target, job, unflushed, changes, restarts>>

\* Mutant of Open: the tags of an interrupted scan are kept.
OpenAsItWas == keys' = keyDisk

\* InternalKeyIndex::new resets the tags.
Open ==
    keys' = [new |-> Tagged(keyDisk.new, DOMAIN keyDisk.new, "Done"),
             old |-> Tagged(keyDisk.old, DOMAIN keyDisk.old, "Done")]

\* The process stops, anywhere, and another one opens the family.
Restart ==
    /\ restarts < MaxRestarts
    /\ restarts' = restarts + 1
    /\ Open
    /\ known' = durable
    /\ scan' = "open" /\ target' = Top
    /\ job' = [p \in Path |-> Idle]
    /\ unflushed' = {}
    /\ UNCHANGED <<fs, moved, torn, keyDisk, durable, changes>>

Worker(p) ==
    \/ Stat(p)
    \/ TakeStore(p)
    \/ SkipEntry(p)
    \/ MissEntry(p)
    \/ ReadFile(p)
    \/ \E fired \in BOOLEAN : InsertEntry(p, fired)
    \/ ReadDir(p)

ScanStep ==
    \/ \E p \in Path : Worker(p)
    \/ CommitReservedNodes
    \/ \E p \in Path : DeleteNode(p)
    \/ \E p \in Path : CleanupLevel(p)

KeyNext ==
    \/ \E p \in Path : Change(p)
    \/ \E h \in Hash : SaveHash(h)
    \/ \E h \in Hash : Collect(h)
    \/ \E t \in Path : ScanStart(t)
    \/ ScanStep
    \/ FamilyFlush
    \/ Restart

KeySpec == KeyInit /\ [][KeyNext]_vars

-----------------------------------------------------------------------------
IsTable(t) == DOMAIN t \subseteq Path \ {Top} /\ t \in [DOMAIN t -> Row]

\* The tables hold rows of the index.
KeyTypeOK ==
    /\ \A k \in {keys, keyDisk} : IsTable(k.new) /\ IsTable(k.old)
    /\ known \subseteq Hash /\ durable \subseteq known
    /\ Cardinality({p \in Path : HoldsStore(p)}) <= KeyStores

\* What commit_to_tree will find: the committed rows, of whatever scan, that are
\* reached from the root through directories (list_dir, list_from_key_store).
IsDir(k, p) == p = Top \/ (p \in DOMAIN k.old /\ k.old[p].data = NoData)
Listed(k) == {p \in DOMAIN k.old : \A q \in Lineage(p) \ {p} : IsDir(k, q)}

\* The paths that a scan is about: the path it was given, the directories on
\* the way to it and, if it is a directory, all that is below it.
Visited == (Lineage(target) \cup IF scan = "scanned_file" THEN {} ELSE Below(target)) \ {Top}

KindOf(data) == IF data \in Hash THEN "file" ELSE IF data = Link THEN "link" ELSE "dir"

Shows(k, p) == k.old[p].data = fs[p].data /\ KindOf(k.old[p].data) = fs[p].kind

\* If nothing moved while the scan ran, the key index describes what it visited
\* as it is: what is there, as what it is, and nothing else.  Scans that a
\* crash cut off, with whatever the timer had saved of them, do not show
\* (InternalKeyIndex::new, lookup, commit_reserved_nodes, cleanup_unused).
ScanIsExact ==
    scan \in {"scanned", "scanned_file"} /\ ~moved =>
        /\ Listed(keys) \cap Visited = {p \in Visited : fs[p] # None}
        /\ \A p \in Listed(keys) \cap Visited : Shows(keys, p)

\* Whatever moved, and whatever the collector or a crash took out of the hash
\* index before: when a scan ends, the hash of every file that it visited and
\* that Hat::commit will list is known (Msg::Insert asks hash_exists).  Files of
\* other paths, which are listed as well, are not looked at by this scan.
ListedHashIsKnown ==
    scan \in {"scanned", "scanned_file"} =>
        \A p \in Listed(keys) \cap Visited :
            keys.old[p].data \in Hash => keys.old[p].data \in known

Committed(k, P) == [p \in DOMAIN k.old \cap P |-> k.old[p]]

\* A scan commits and cleans up nothing outside the path it was given, although
\* commit_reserved_nodes goes by tags alone and an earlier scan of another path
\* may have been cut off with its tags saved (InternalKeyIndex::new).
OtherPathsStay ==
    [][scan' = "open" \/ Committed(keys', Path \ Visited) = Committed(keys, Path \ Visited)]_vars

Reachable(k) == \A p \in DOMAIN k.old : Parent[p] = Top \/ Parent[p] \in DOMAIN k.old

\* A committed row has a committed row above it, in the index and in what a
\* crash would leave of it: nothing that list_dir shows is out of its reach
\* (commit_reserved_nodes, cleanup_unused, ON DELETE CASCADE).
ReferentialIntegrity == Reachable(keys) /\ Reachable(keyDisk)

\* A scan that has begun can go on until it has ended: no worker waits for a
\* key store that nobody will give back, and no level of the cleanup for one
\* that is never done (SyncPool::lock and drop, Process::send_reply,
\* cleanup_unused).  Every step brings a scan nearer to its end, so it ends.
ScanNeverStuck == scan \in {"walk", "cleanup"} => ENABLED ScanStep

=============================================================================

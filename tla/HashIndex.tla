----------------------------- MODULE HashIndex ------------------------------
(***************************************************************************)
(* hash::HashIndex (src/hash/mod.rs) over the hashes table of db::Index    *)
(* (src/db/mod.rs) and the UniquePriorityQueue of entries whose content is *)
(* not yet in external storage (src/util/unique_priority_queue.rs).        *)
(*                                                                         *)
(* The SQLite connection always has a transaction open: rows is the table  *)
(* as that transaction sees it, disk is the table as of the last commit,   *)
(* which is what a crash leaves.  Every operation below holds the queue    *)
(* and index mutexes (hash/mod.rs, lock) from its first read to its last   *)
(* write, so each is one step.                                             *)
(***************************************************************************)
EXTENDS Naturals, FiniteSets

CONSTANTS
    Hash,       \* content hashes
    Childs,     \* Childs[h]: the hashes listed in the content of h
    PRef,       \* references into external storage (blob::ChunkRef)
    NoRef,      \* persistent_ref: None
    MaxId       \* bound: highest row id handed out

ASSUME HashAssumption == Childs \in [Hash -> SUBSET Hash]
ASSUME RefAssumption == NoRef \notin PRef
ASSUME MaxIdAssumption == MaxId \in Nat

VARIABLES
    rows,       \* hashes table inside the open transaction: id -> row
    disk,       \* hashes table as last committed
    queue,      \* reserved entries, by id (the priority of the queue)
    idCounter,  \* hash_id_counter
    autoFlush   \* flush_periodically

hashVars == <<rows, disk, queue, idCounter, autoFlush>>

Row == [hash : Hash, childs : SUBSET Nat, pref : PRef \cup {NoRef}, ready : BOOLEAN]
Entry == [hash : Hash, childs : SUBSET Nat, pref : PRef \cup {NoRef},
          status : {"Pending", "Ready"}]

IsTable(t, R) == DOMAIN t \subseteq Nat \ {0} /\ t \in [DOMAIN t -> R]

NoEntries == [i \in {} |-> NoRef]

-----------------------------------------------------------------------------
\* Looking entries up: the queue first, then the table (locate).

RowIds(h) == {i \in DOMAIN rows : rows[i].hash = h}
QueueIds(h) == {i \in DOMAIN queue : queue[i].hash = h}

\* Mutant of HashExists: reserve looks for the hash in the queue only.
HashQueued(h) == QueueIds(h) # {}

HashExists(h) == QueueIds(h) # {} \/ RowIds(h) # {}

GetId(h) == IF QueueIds(h) # {} THEN CHOOSE i \in QueueIds(h) : TRUE
                                ELSE CHOOSE i \in RowIds(h) : TRUE

FetchPersistentRef(h) == IF QueueIds(h) # {} THEN queue[GetId(h)].pref
                                             ELSE rows[GetId(h)].pref

ReadyIds(t) == {i \in DOMAIN t : t[i].ready}
ReadyHashes(t) == {t[i].hash : i \in ReadyIds(t)}

-----------------------------------------------------------------------------
\* The database transaction.

\* maybe_flush: fired says whether the 10 s timer had expired.
MaybeFlush(fired, table) ==
    /\ fired => autoFlush
    /\ disk' = IF fired THEN table ELSE disk

Flush ==
    /\ disk' = rows
    /\ UNCHANGED <<rows, queue, idCounter, autoFlush>>

\* Flush and switch the periodic flush off, so that what follows is one
\* transaction.
ManualCommit ==
    /\ disk' = rows
    /\ autoFlush' = FALSE
    /\ UNCHANGED <<rows, queue, idCounter>>

-----------------------------------------------------------------------------
\* Reserving, completing and committing a hash.

Put(t, i, r) == [j \in DOMAIN t \cup {i} |-> IF j = i THEN r ELSE t[j]]

\* The caller already holds the ids of the children: a hash tree inserts a
\* node after its children.
Reserve(h, fired) ==
    LET id == idCounter + 1
        childs == {GetId(c) : c \in Childs[h]}
    IN  /\ ~HashExists(h)
        /\ \A c \in Childs[h] : HashExists(c)
        /\ id <= MaxId
        /\ MaybeFlush(fired, rows)
        /\ idCounter' = id
        /\ rows' = Put(rows, id, [hash |-> h, childs |-> childs,
                                  pref |-> NoRef, ready |-> FALSE])
        /\ queue' = Put(queue, id, [hash |-> h, childs |-> childs,
                                    pref |-> NoRef, status |-> "Pending"])
        /\ UNCHANGED autoFlush

\* Only the queue entry learns the reference; the row does when it is ready.
UpdateReserved(id, p) ==
    /\ id \in DOMAIN queue
    /\ queue' = [queue EXCEPT ![id].pref = p]
    /\ UNCHANGED <<rows, disk, idCounter, autoFlush>>

SetReady(id) == [queue EXCEPT ![id].status = "Ready"]

\* Mutant of CompletedInOrder: entries leave the queue as they complete.
CompletedAnyOrder(q) == {i \in DOMAIN q : q[i].status = "Ready"}

\* The entries pop_min_if_complete takes off q before it meets a pending one.
CompletedInOrder(q) ==
    {i \in DOMAIN q : \A j \in DOMAIN q : j <= i => q[j].status = "Ready"}

\* hash_set_ready of every popped entry.  It is an UPDATE: a row that is gone
\* stays gone.
InsertCompleted(q) ==
    [i \in DOMAIN rows |->
        IF i \in CompletedInOrder(q)
        THEN [hash |-> rows[i].hash, childs |-> q[i].childs,
              pref |-> q[i].pref, ready |-> TRUE]
        ELSE rows[i]]

Drop(t, D) == [i \in DOMAIN t \ D |-> t[i]]

\* Mutant of CommitHash: the popped entries are not written to the table.
CommitOnlyPops(id, fired) ==
    LET q == SetReady(id)
    IN  /\ id \in DOMAIN queue
        /\ queue' = Drop(q, CompletedInOrder(q))
        /\ MaybeFlush(fired, rows)
        /\ UNCHANGED <<rows, idCounter, autoFlush>>

CommitHash(id, fired) ==
    LET q == SetReady(id)
    IN  /\ id \in DOMAIN queue
        /\ rows' = InsertCompleted(q)
        /\ queue' = Drop(q, CompletedInOrder(q))
        /\ MaybeFlush(fired, rows')
        /\ UNCHANGED <<idCounter, autoFlush>>

-----------------------------------------------------------------------------
\* The collector's sweep over the hashes table, and a restart.

\* Mutant of DeleteUnused: the rows are deleted from the database in memory
\* without the flush.
DeleteUnflushed(D) ==
    /\ D \subseteq ReadyIds(rows)
    /\ \A i \in DOMAIN rows \ D : rows[i].childs \cap D = {}
    /\ rows' = Drop(rows, D)
    /\ UNCHANGED <<disk, queue, idCounter, autoFlush>>

\* gc deletes the rows it found unused, then flushes.  What is unused is
\* closed upwards: mark_tree marks the children of every row it keeps.
DeleteUnused(D) ==
    /\ D \subseteq ReadyIds(rows)
    /\ \A i \in DOMAIN rows \ D : rows[i].childs \cap D = {}
    /\ rows' = Drop(rows, D)
    /\ disk' = rows'
    /\ UNCHANGED <<queue, idCounter, autoFlush>>

MaxOf(S) == IF S = {} THEN 0 ELSE CHOOSE i \in S : \A j \in S : j <= i

\* The process stops and the repository is opened again: the counter is read
\* off the table before the rows that never became ready are deleted.
Restart ==
    /\ idCounter' = MaxOf(DOMAIN disk)
    /\ rows' = Drop(disk, {i \in DOMAIN disk : ~disk[i].ready})
    /\ queue' = NoEntries
    /\ autoFlush' = TRUE
    /\ UNCHANGED disk

-----------------------------------------------------------------------------
\* The index driven by every caller that keeps its side of the contract: the
\* reference is set once, between the reservation and the commit
\* (key/hash_store_backend.rs, insert_chunk).

HashInit ==
    /\ rows = NoEntries /\ disk = NoEntries /\ queue = NoEntries
    /\ idCounter = 0
    /\ autoFlush = TRUE

StoreDone(id, p) ==
    /\ queue[id].pref = NoRef
    /\ UpdateReserved(id, p)

Callback(id, fired) ==
    /\ queue[id].pref # NoRef
    /\ CommitHash(id, fired)

HashNext ==
    \/ \E h \in Hash, fired \in BOOLEAN : Reserve(h, fired)
    \/ \E id \in DOMAIN queue, p \in PRef : StoreDone(id, p)
    \/ \E id \in DOMAIN queue, fired \in BOOLEAN : Callback(id, fired)
    \/ \E D \in SUBSET DOMAIN rows : DeleteUnused(D)
    \/ Flush
    \/ ManualCommit
    \/ Restart

HashSpec == HashInit /\ [][HashNext]_hashVars

-----------------------------------------------------------------------------
\* The tables and the queue hold well-formed entries, under ids that the
\* counter has handed out.
HashTypeOK ==
    /\ IsTable(rows, Row)
    /\ IsTable(disk, Row)
    /\ IsTable(queue, Entry)
    /\ idCounter \in Nat
    /\ autoFlush \in BOOLEAN
    /\ DOMAIN rows \cup DOMAIN disk \subseteq 1..idCounter

\* The queue holds exactly the rows that are not ready, and agrees with them:
\* locate may look in the queue alone for a hash that is being stored
\* (hash/mod.rs, locate), and no row is left that nobody will complete.
QueueMirrorsTable ==
    /\ DOMAIN queue = {i \in DOMAIN rows : ~rows[i].ready}
    /\ \A i \in DOMAIN queue : queue[i].hash = rows[i].hash
                              /\ queue[i].childs = rows[i].childs

\* "This is used to ensure that each Hash is stored only once" (reserve).
UniqueHash(t) == \A i, j \in DOMAIN t : t[i].hash = t[j].hash => i = j

EachHashStoredOnce == UniqueHash(rows) /\ UniqueHash(disk)

\* A ready row has its reference, and its child ids are ready rows of exactly
\* the hashes its content lists.
Resolved(t) ==
    \A i \in ReadyIds(t) :
        /\ t[i].pref # NoRef
        /\ t[i].childs \subseteq ReadyIds(t)
        /\ {t[c].hash : c \in t[i].childs} = Childs[t[i].hash]

\* Neither the running program nor one started after a crash ever sees a ready
\* hash whose children are missing, unfinished, or ids that a restart has
\* given to another hash (insert_completed_in_order, hash_delete_not_ready).
NoDanglingChilds == Resolved(rows) /\ Resolved(disk)

\* The inductive invariant behind the properties above.  A table is good if
\* child ids name rows below their parent with the hashes of its content, a
\* hash has one row, and every ready row precedes every unfinished one: that
\* order is why no prefix of the queue and no restart leaves a ready row with
\* an unfinished child.
Linked(t) ==
    \A i \in DOMAIN t :
        /\ \A c \in t[i].childs : c \in DOMAIN t /\ c < i
        /\ {t[c].hash : c \in t[i].childs} = Childs[t[i].hash]

ReadyFirst(t) == \A i, j \in DOMAIN t : t[i].ready /\ ~t[j].ready => i < j

ReadyHasRef(t) == \A i \in DOMAIN t : t[i].ready => t[i].pref # NoRef

GoodTable(t) ==
    IsTable(t, Row) /\ Linked(t) /\ UniqueHash(t) /\ ReadyFirst(t) /\ ReadyHasRef(t)

HashInv ==
    /\ HashTypeOK
    /\ GoodTable(rows) /\ GoodTable(disk)
    /\ QueueMirrorsTable
    /\ \A i \in DOMAIN queue : queue[i].status = "Ready" => queue[i].pref # NoRef

\* The index implements the abstract set of durable hashes.
Abstract == INSTANCE DurableHashSet
                WITH live <- ReadyHashes(rows), durable <- ReadyHashes(disk)

\* Hashes are published children first, saved whole, and lost only by a crash
\* or to the collector.
ImplementsDurableHashSet == Abstract!Spec

=============================================================================

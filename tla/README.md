# Verification of Hat

Hat is a backup program: it hashes files into content-addressed trees of
chunks, packs the chunks into encrypted blobs, hands the blobs to external
storage, and keeps a SQLite database that says which hash lives in which blob,
which snapshots exist and how often each tree is referenced.  This directory
models the parts of Hat that must survive concurrency and crashes, and the
algorithms that everything else relies on; it checks them with TLC on small
instances, and proves with TLAPS, for every instance, that the hash index, the
insertion of chunks, the layout of blobs, the hash tree's writer and reader, the
scan of a directory, the snapshots with their collector, recovery and the
virtual file system keep their invariants.

Paths below are relative to `src/src/`.

## 1. The system

| component | state | operations | talks to |
|---|---|---|---|
| hash index (`hash/mod.rs`, `util/unique_priority_queue.rs`) | queue of reserved entries, id counter, table `hashes` | reserve, update_reserved, commit, locate, delete, tags, manual_commit, flush | database |
| database (`db/mod.rs`) | one SQLite connection with a transaction always open; 10 s flush timer, which manual_commit switches off | row operations, maybe_flush, flush | - |
| chunk insertion (`key/hash_store_backend.rs`) | a mutex per insertion | insert_chunk, fetch_persistent_ref (retry loop) | hash index, blob store |
| blob store, blob index (`blob/`) | the blob being filled, callbacks of its chunks, next blob id, table `blobs` | store, flush, tag, delete_by_tag | backend, database, hash index (through the callbacks) |
| backends (`backend/`) | the external blobs; CmdBackend: running put commands | store, retrieve, delete, list, flush | external commands |
| snapshot index (`snapshot/mod.rs`) | table `snapshots` with a work tag per snapshot | reserve, update, ready_commit, commit, will_delete, ready_delete, delete | database |
| collector (`gc/rc.rs`, `gc/mod.rs`) | counts in `gc_metadata`, tags in `hashes` | register_final, register_cleanup, deregister, list_unused_ids, status | hash index |
| hat (`hat/mod.rs`) | open families | commit, deregister, gc, resume, meta_commit, recover | all of the above |
| family, key store, key index (`hat/family.rs`, `key/`) | per-family table of files and the hash of each | snapshot_dir, insert, list, commit_to_tree, flush | hash tree writer |
| hash tree (`hash/tree.rs`) | open levels of a tree | append, hash, walk | chunk insertion |
| processes (`util/process.rs`, `sync_pool.rs`, `listdir.rs`) | threads, a rendezvous channel each | send_reply, lock, recurse | key store |
| virtual file system (`vfs/`) | table of inodes, a reader per file handle | lookup, open, read, release, readdir, ls | hash tree reader, snapshot index |
| crypto (`crypto/`) | the access key of the blob being written | seal, unseal, pad | blob store |
| walker, checkout, models, command line | no state of their own that persists | | |

What is hard, and what makes each part correct:

* *Hash index.*  Blobs complete in any order, on several threads, but a hash
  must not become ready before its children, a crash keeps only what the last
  flush saved, and ids of lost rows are handed out again.  Correct: the queue
  is exactly the unfinished rows, a hash has one row, a ready row's children
  are ready rows of the right hashes, both in memory and on disk.
* *Insertion.*  The callback that commits a hash may be run by another thread
  before the inserting one has recorded the reference; it runs under the blob
  store's lock; a second thread with the same chunk spins for the reference.
  Correct: ready means stored; every reservation is completed by someone;
  nobody waits forever.
* *Backends.*  CmdBackend returns before the blob is stored.  Correct: a
  callback runs only after its blob is stored; a blob tagged done is stored.
* *Snapshots and collector.*  commit and deregister take several transactions
  and are resumed from tags after a crash; gc uses the same tags.  Correct:
  each snapshot is counted exactly once, gc never takes what a snapshot needs,
  and leaves nothing else; resume always ends with nothing unfinished.

* *Hash tree.*  Levels collapse into one another while blocks are appended, and
  chunks that are known are not stored again.  Correct: it reads back as
  written, and children are inserted before parents.
* *Blobs.*  An estimate decides what fits, the blob must have its exact size,
  and the reader has only lengths to go by.  Correct: nothing that was let in
  is too much, and everything is found again.
* *Key index.*  Parallel workers fill it from a directory that changes, over
  scans that crashes cut off, and it trusts what it remembers of a file.  A
  scan is of one path, the index is of all paths of the family.  Correct: after
  a scan it describes what was scanned, with hashes that exist, and the rest of
  it is as it was.
* *Recovery.*  Snapshots that share trees are walked top-down in several
  transactions.  Correct: however often it is cut off, everything is there once
  and counted once, and a collection takes none of it.
* *Virtual file system.*  Requests of many processes arrive in any order, and a
  reader only moves forward.  Correct: a process reads its own file and lists
  what is there.

`PROJECT.json` lists every component, and under "hazards" each place in the
code where one of these can go wrong.

## 2. Modules

```
DurableHashSet  <--implements--  HashIndex  <--implements--  InsertPipeline
   (abstract)                       |                            |
                             HashIndexProofs  <--extends--  InsertPipelineProofs
                             MCHashIndex                    MCInsertPipeline

SnapshotGc -- SnapshotGcProofs      KeyStore -- KeyStoreProofs
           -- MCSnapshotGc                   -- MCKeyStore
BlobLayout -- BlobLayoutProofs      HashTree -- HashTreeProofs
           -- MCBlobLayout                   -- MCHashTree
Recovery   -- RecoveryProofs        Vfs      -- VfsProofs
           -- MCRecovery                     -- MCVfs
```

The modules are tied to one another by what they assume: `HashTree`'s
`ChildrenPrecedeParents` is what `Reserve` of HashIndex demands of its caller,
`BlobLayout`'s `Fits` is `HasRoom` of InsertPipeline, `KeyStore`'s
`ListedHashIsKnown` is why a scan in SnapshotGc may be the insertion of the
missing hashes of the files it visited, `OtherPathsStay` why it keeps the files
of other directories, and `Vfs` reads files as the sequence of blocks that
HashTree's reader returns.

**DurableHashSet** is what the index promises: a set of usable hashes and a
set that a crash falls back to, both closed under children, added to only with
the children present and taken from only by the collector.

**HashIndex** is `HashIndex` over the `hashes` table.  `rows` is the table in
the open transaction, `disk` the committed one, `queue` the
UniquePriorityQueue, `idCounter` and `autoFlush` the fields of
`InternalIndex`.  Every public operation takes the queue's and the database's
mutex before its first read and keeps them to its end, so each is one action:
`Reserve`, `UpdateReserved`, `CommitHash` (with the popping of completed
entries and the timer's flush), `Flush`, `ManualCommit`, `DeleteUnused` (the
deletions of a collection and their flush) and `Restart`.  Columns that no
property tells apart (height, leaf type, offsets, keys) are left out.
`StoreDone` and `Callback` add the caller's side of the contract: the
reference is set once, and the callback comes after it.

**InsertPipeline** runs `insert_chunk` in several threads on top of HashIndex,
which it extends, so the hash index's actions are used as they are.  A thread
is at `store` or `update` while it holds its mutex `m`, or at `piggyback` in the
retry loop.  `air[s]` is the blob a store is pushing out, with the thread that
holds the store's lock: the steps between two lock or database operations are
`InAir`, `PutNow` or `PutStart`, `CallBack` (one per chunk), `CommitDone`.
`puts` are CmdBackend's children; `pass` is the set that the current try_flush
has still to poll.  A failed put is restarted by the code and is here a put
that has not ended yet.  `Async` chooses the backend.  `turn` walks through the
stores as `data_flush` does.  `PipelineRestart` stops the process at any point;
puts that are running may still succeed.  `ImplementsHashIndex` says that the
whole is an implementation of HashIndex's specification, and so everything
proved of HashIndex holds of it.

**SnapshotGc** is `Hat` with `GcRc`: one action for each stretch between two
flushes of `commit`, `commit_finalize`, `deregister`, `deregister_finalize`,
`gc` and `resume`, and one for each entry of `commit_to_tree`, between which the
timer and full blobs flush.  `db` is the database in the transaction, `disk` the
committed one.  A hash's tree is the constant `Tree`, a directory's entries the
constant `Tops`.  `content` is the content that the family's key index describes
and that a commit lists, whole; `scanned` are the files of it that the last scan
visited.  `Scan(r, F)` is the scan of a directory of the family: it makes the
content `r` and visits `F`, and the files of `r` outside `F` were in the content
before.  A file is skipped only if the hash index still has its hash, so a scan
inserts the missing hashes of `F`, and of `F` only.  Deleting a snapshot lists
it, which reads the trees of its directories from external storage
(`DirectoryTrees`, `Readable`); directories that still wait for their blob
cannot be read.  (An empty directory could: its chunk has no bytes.  None of the
model's directories is empty but that of a new family, which is never
committed.)  An `expect` or `assert` that fails is the step `ExpectFails`.
`lost` records the hashes that a restart took away although a snapshot on disk
relies on them; `gcRan` that a collection has run.  Both are history variables
that only the properties read, but for one place: a tree whose hashes were lost
and inserted again may still refer to where they were to be stored at first, so
a listing that meets `lost` hashes may fail (`ListingFails`).

The families share one database but no snapshots, and the model has one family.
Deletions are of finished snapshots.  A blob is stored in one step, with its
hashes ready and its row Done; the states that a crash leaves between `in_air`,
the put, the callbacks and `commit_done` are those of InsertPipeline, and
`ReadyIsStored` there is what SnapshotGc relies on.  A scan leaves the key index
flushed, as `cleanup_unused` does at the end of the scan of a directory; the
scan of a single file, which flushes later, is in KeyStore only.  `Ready` says
that a process which inserts files ends with `data_flush` before another command
starts, as `main.rs` does.

**HashTree** is the streaming writer and the walker of `hash/tree.rs`.  The
mutual recursion of `append_at` and `collapse_level` is in tail position:
`pending` is the chunk that it has still to insert, and each insertion is one
step, as in the code it may be interleaved with other trees.  `hash()` fixes the
range of levels to collapse before it collapses them, and may be called again.
`WalkerNew` starts either the reader of leaves, which stops at every leaf, or a
visitor that is told of every node, as recovery has it.  `start` is the
`cycle_start` of the resume under way; that its assertion holds is the property
`WalkFindsNoCycle`.

**KeyStore** is the scans of a family: `ScanStart(t)` begins one of any path
`t`, kept in `target`.  The directories on the way to it are handled like any
other, but only the next component of the path follows (`Entries`); in and below
the target all that `read_dir` finds does.  `CommitReservedNodes` goes by tags
over the whole table, the cleanup goes from the target down and only if it is a
directory.  So the rows of other paths stay, and `Listed`, what `commit_to_tree`
finds from the root, has them too.  `Visited` is the part of the index that a
scan is about.  What a finished scan promises (`ScanIsExact`,
`ListedHashIsKnown`) is about that part; what becomes of the rest of the listing
is `OtherPathsStay` here, and what a commit makes of it is in SnapshotGc.
`Stat`, `TakeStore`, `SkipEntry` or `MissEntry`, `ReadFile`, `InsertEntry` and
`ReadDir` are what a worker does with one path, and any two workers interleave;
a worker keeps a key store from `TakeStore` to its reply.  `keys.new` and
`keys.old` are the two rows of a node in `key_data`. `CommitReservedNodes`,
`DeleteNode` and `CleanupLevel` end the scan, one level at a time from the
bottom up.  The local disk changes at any moment (`moved` says that it did
during the scan).  The collector and the hash index's own flushes act on `known`
and `durable`, which belong to another database.

**Recovery** is `Hat::recover` from an empty database and the resumption of it.
`Recover` registers the blobs, `PickRoot` takes the newest list of snapshots,
`Visit` is one node of the walk (`recover_entry`), and `TagTops`,
`RegisterFinal`, `ReadyCommit`, `RegisterCleanup`, `CommitDone` are the
transactions that count a snapshot.  Here a parent is reserved before its
children, which HashIndex's contract excludes, so the table is modelled again.
A snapshot on a list is known by its place, which stands for family and id.
`Need`, what a walk meets, and `Marked`, what `mark_tree` reaches, are smallest
closed sets.
`cut` records that a restart took the rows of children from under a ready row.

**BlobLayout** has only lengths, positions and keys: `Store`, `StoreFull` and
`StoreAgain` are `StoreInner::store` with its second try, `ToCiphertext` pads
and seals, `ReadRefs` and `ReadRef` parse the footer.  `Radix` stands for the
256 values of a byte.

**Vfs** is the FUSE file system.  `inodes` and `kids` are its two tables, filled
by `populate_from_snapshot_list`, one `AddFamily` for each family until `Mount`
(the families in any order, being in a HashMap), and by `Childs`, which `Lookup`
and `ReadDir` call.  A file is given by where each of its chunks ends.  `Open`
numbers a handle by the size of the table of readers.  A read is `Read`, then
one `Advance` for each chunk that is pulled, and `Answer`, `AnswerAtEof` or
`AssertionFails`; requests are served one at a time, so nothing comes between.
`fds` and `lister` are the processes that use the mount; `own` and `rewound` in
a descriptor are history. `Ls` is the path lookup of `hat ls`.

## 3. Runs

| run | configuration | shows |
|---|---|---|
| `hash_index` | 2 leaves, 2 nodes, 5 ids | mirror, uniqueness, no dangling children, refinement of DurableHashSet |
| `pipeline_shared` | 2 threads, 1 store, 3 hashes, 1 crash | safety and liveness of insertion with a synchronous backend, refinement of HashIndex |
| `pipeline_cmd` | 2 threads, a store each, an empty chunk, CmdBackend with 1 slot, 1 crash | ready means stored and no reservation is orphaned when puts end later and out of order |
| `snapshot_crash` | 2 commits, 2 restarts, contents that overlap, scanned whole or in part | snapshots keep their data, counts are exact, resume ends with nothing unfinished, a panic has one of three causes |
| `hash_tree` | orders 2 and 3, 11 blocks of 2 kinds, 2 calls of hash | trees read back as written, children precede parents, visitors meet every node, no walk is taken for a cycle |
| `key_scan` | 4 paths, each of which may be scanned and two change kind, 1 key store, 2 changes, 2 restarts | a finished scan is exact, its hashes are known, other paths stay, rows are in reach, and it is never stuck |
| `recovery` | 2 lists, 3 snapshots that share a file, 2 blobs, 3 restarts | everything is recovered once, counted once and spared by a collection; recovery ends |
| `blob_layout` | blobs of 26 bytes, chunks of 1, 2, 4, references of 3, 5 | exact size, readable slices, footer read in step |
| `vfs` | 2 descriptors, 1 lister, 3 families, directories in directories | reads return the file, listings agree with `hat ls` |

Three more runs end in a counterexample, each a disagreement between the code
and what the repository says about it (section 6).

**Bounds.**  Two leaves and two nodes give a node that shares a child, and
completion in every order; five ids for four hashes let a restart reuse an id.
In the pipeline a blob holds one chunk, so that a second chunk already forces a
flush while the first one's thread is between `store` and `update`; three hashes
and two threads give every sharing of a hash: the same leaf, the same node, one
thread with the node and another with the leaf. With one slot CmdBackend's
second put has to poll.  One crash suffices there because a restart resets
everything but the tables and the blobs, whose invariants hold at every step
before it.  In `snapshot_crash` two commits and two restarts let an interrupted
operation be interrupted again while it is resumed, next to another snapshot
that shares its chunk; `chunk` is the top of one tree and an inner hash of
another, which the collector's marking must keep apart from the counting.  The
directory of the second content may be scanned alone, with `file` left from the
first commit (1.7 million states).  `MaxId` and `MaxBlob` are guards of the
pipeline's actions and never the limit in its runs (the assumption
`BoundsSuffice` says so; no proof uses it).

With order 2, seven blocks leave a chunk without references beside the root of
a tree and eleven leave one inside it, which is why `hash_tree` goes that far;
two kinds of blocks make whole subtrees equal.  In `key_scan` one key store makes
workers wait for each other; two changes let a path become another kind and back,
or change before and during a scan; two restarts let an interrupted scan be
interrupted again; the two files and the directory in the root give scans that
leave other paths out, also after a scan of those was cut off (1.9 million
states).  In `recovery` one snapshot is on a list twice, one list is on
the other, and a chunk is the top of a file and inside another; the third restart
falls into the resumption of a resumed recovery.  The sizes of `blob_layout` let
a blob be filled to the last byte and one beyond, and lengths need both digits of
the radix.  Two descriptors suffice for `vfs`: closing the first and opening it
again gives out the handle of the second.

**Deadlock** is checked in `hash_index` and both pipelines.  The others may
stop: a process that has panicked or given up, a tree that has been read, a scan
that has used up its changes and restarts, the bound on blobs, a mount whose
server has panicked.  `ScanNeverStuck` states for the scan what must not stop.

**Fairness.**  `Fairness` in InsertPipeline: a thread that can take a step takes
one (the scheduler), a put command ends, and data_flush goes on.  Nothing is
assumed of new insertions or crashes.  In SnapshotGc the operation under way is
carried on, as its caller blocks on it, and so is a recovery in Recovery. Weak
fairness of data_flush is there because a thread may wait for a store that it is
flushing.  Weak fairness is enough: nothing relies on winning a lock infinitely
often.

## 4. Proofs

`HashIndexProofs` proves, for all sets of hashes and references, every
`Childs` and every `MaxId`:

* `HashInvariant`: `HashSpec => []HashInv`;
* from it `HashTypeCorrect`, `QueueIsMirror`, `HashesAreUnique` and
  `ChildsNeverDangle`;
* `HashIndexRefines`: `HashSpec => ImplementsDurableHashSet`.

The assumptions of HashIndex are those of its module: `Childs` maps hashes to
sets of hashes, `NoRef` is no reference, `MaxId` is a natural number.

*The argument.*  `NoDanglingChilds` is not inductive: that a commit makes no
hash ready before its children needs to know where the children of unfinished
rows are.  `HashInv` adds, of both `rows` and `disk`: children have smaller ids
than their parents and the hashes of the content (`Linked`); every ready row
is below every unfinished one (`ReadyFirst`); a ready row has its reference.
`ReadyFirst` is what commit in order establishes: `CompletedInOrder` takes a
prefix of the queue, and the queue is the unfinished part of the table.  Given
it, a child of a ready row, being below it, cannot be unfinished, so a restart,
which deletes the unfinished rows, deletes nobody's child, and that holds of
`disk` whenever it was last saved.  `PutIsGood` and `DropIsGood` say that adding
a row on top and deleting rows that no row points to keep a table good; one
lemma per action uses them.  A restart reads the counter before it deletes
(`MaxOfBounds`), so the counter bounds the ids in both tables.

The refinement maps `live` and `durable` to the hashes of ready rows in `rows`
and `disk`; `GoodIsClosed` gives closure under children, and
`StepIsAbstractStep` goes through the actions: `CommitHash` is a Publish,
`DeleteUnused` a Collect, `Flush` a Save, `Restart` a Crash.

`BlobLayoutProofs` proves, for every blob size, every set of lengths of chunks
and references and all overheads that let one chunk fit into a blob:

* `LayoutInvariant`: `LayoutSpec => []LayoutInv`;
* `EstimateSuffices`: what `try_append` lets in fits when the blob is sealed;
* `BlobsAreExact`, `SlicesReadable` and `RefsStayInStep`.

*The argument.*  That the reader is in step (`RefsInStep`) is not inductive: it
needs the entries of a footer to be chained, each at the end of the one before
and of the length its two bytes say.  `Chained` says this of the footer being
written and of every sealed one, together with the chunks being disjoint and
sealed with one key.  The estimate counts the new entry one byte short, but the
bytes of the entries before it in full; the strict comparison makes up for the
one byte, so the sum is never more than the blob (`FitsWhenSealed`), the
padding is never negative, and the blob has exactly its size.  A chunk that did
not fit is sealed again after the blob was replaced, so the key of its entry is
the key of the blob it ends up in.  A reference must be shorter than the square
of the radix, less one: two bytes hold its length.

`InsertPipelineProofs` extends HashIndexProofs and proves, for any number of
threads, stores, hashes, put slots and restarts:

* `PipelineInvariant`: `Spec => []PipelineInv`, and from it `PipelineTypeCorrect`;
* `ReadyHashesAreStored`, `CallbacksFindTheirEntry`, `ReservationsAreOwned`;
* `DoneBlobsAreStored` and `DataFlushLeavesNothing`, for the backends that are
  done when they return (`~Async`; section 6 says what CmdBackend does instead);
* `PipelineRefinesHashIndex`: `Spec => ImplementsHashIndex`, and through it
  `PipelineChildsNeverDangle` and `PipelineRefinesDurableHashSet`.

*The argument.*  That a callback finds its entry depends on where the callback
is.  `CallsInv` says that every callback, in a store's list, in the blob being
pushed out, with a put or in the thread of an empty chunk, waits for just the
blob that holds it (`WaitsFor`): its entry is pending, and the blob is in the
entry or still in the locals of the one thread that holds the mutex `m`.
`BlobsInv` keeps a blob in one place, `JobsInv` gives a reservation one owner
until it is updated, and `PendingInv` says conversely that each pending entry
has a callback or a thread that will leave one.  `StoredInv` says that callbacks
run on stored blobs only, which is `ReadyIsStored`.  `FrontInv` (a completed
entry stays behind a pending one) with `TurnInv` gives `FlushLeavesNothing`.
The refinement of HashIndex is the identity on its variables: the invariant
supplies the two guards that HashIndex demands of its caller.

`HashTreeProofs` proves, for trees of every order and size:

* `TreeInvariant`, `TreeTypeCorrect`;
* `ChildrenComeFirst` and `EveryNodeIsMet`;
* `TreeHoldsItsText`, and from it `TreesReadBack` (`ReadsBackWhatWasWritten`).

*The argument.*  `TreeInv` says that whatever holds a reference (levels, the
pending chunk, the walker's stack, the visitor's output) refers to a chunk that
is there, of the height it names (`Names`), which inserting can only keep; a
chunk about to be inserted is then `WellFormed`.  `TopInv` is why `hash()` finds
a root after any number of collapses.  For the visitor, `MetInv` has the
children of what it has met either met or on the stack.

That a tree reads back as written is about what references stand for.
`TextInv` says that there is a function `F` from chunks to sequences of blocks
such that a leaf stands for its block and a branch for what its references do,
one after the other (`Content`).  The levels, from the top down, and then the
pending chunk cut the blocks that were appended into what each stands for
(`Layers`, `Stands`).  A chunk that is known is not inserted again, and stands
for what its first copy does, because references stand for the same blocks
wherever they are (`SpanUnique`).  A collapse moves what a level stands for one
level up, which keeps the order only if nothing is left below it: `Flat` says
so of the level of the pending chunk.  `hash()` fixes its range of levels first,
so it can collapse levels that are empty, into chunks without references, which
stand for nothing, and leave such references below the root; `OnTop` says that
nothing but the top and what is pending stands for anything by then.  For the
reader, `Walk` cuts the same blocks into what has been read and what each entry
of the stack will give, the top first.  `LeafBlocks` is a recursive function;
each fact about it is proved by taking the least length at which it fails.

`KeyStoreProofs` proves, for every tree of paths and any number of key stores,
changes and restarts:

* `KeyInvariant`, `KeyTypeCorrect`;
* `RowsHaveParents` (`ReferentialIntegrity`), and `ListedHashesAreKnown`
  (`ListedHashIsKnown`): of the listed files that the scan visited, as a file of
  another path may well be unknown (section 6);
* `ScansKeepToTheirPath` (`OtherPathsStay`);
* `ScansAreExact`, if every file can be opened (`Unreadable = {}`; a file that
  cannot be gets a row without data, section 6).

*The argument.*  `Path` is finite and every path is below `Top` along `Parent`
(`LineageAssumption`).  `WalkRow` and `WalkUp` tie the rows that a scan has
reserved to the workers' places: a row is reserved exactly if its path has been
processed, with the metadata found there, and a path is processed only after its
directory.  So when the scan ends the reserved rows are closed upwards, and
committing them keeps both tables closed.  `CleanInv` says that the levels are
cleaned from the bottom up: below a flushed directory that is kept nothing
unwanted is left.  A row is reserved only by this scan, since opening the index
resets the tags (`OpenInv`), so nothing outside `Visited` is promoted, and what
the cleanup deletes is below the target.  `SteadyInv` and `ExactInv` add, while
nothing has `moved`, that the workers found what is there.

`SnapshotGcProofs` proves, for any finite set of hashes, all trees and contents
and any number of commits and restarts:

* `SnapshotInvariant`, `SnapshotTypeCorrect`;
* `SnapshotsStay` (`SnapshotsAreKept`), `CountsSuffice` (`NoUndercount`),
  `CountsStayExact`, `FirstCollectionIsExact`;
* `ResumeFinishes` (`NothingUnfinished`), `PendingIsMarked` (`GcSparesPending`),
  `PanicsHaveCause` (`PanicHasCause`).

*The argument.*  It rests on `Hash` being finite (counts are cardinalities of
sets of snapshots) and on `Rank` putting the hashes of a tree before its top.
The parts of the invariant are predicates of one database and hold of the
transaction and of the committed tables alike, so a restart starts from a good
one.  The center is `Counted(d)`: the snapshots whose listings the counts stand
for, read off the tags that `resume` reads.  A commit whose root is tagged
InProgress has been counted, a deletion whose root is tagged ReadyDelete has been
counted off, and the tag and the counts are saved in one transaction.
`CountInv` then says that no count is below the counted snapshots that list the
hash, and `NeedInv` that what they need is there, but for `lost`.  A restart
keeps this because it drops only rows that are not ready (`ReadyPartKeeps`;
negative counts are only in ready rows).  A collection keeps it because a counted
snapshot's listing has positive counts, so mark_tree reaches all it needs
(`SweptKeeps`).  `PhaseInv` says for every pc what the tags are, `WaitInv` why
rows that wait for a blob are marked by a collection, and `FirstInv` makes the
counts exact until a loss or a collection.  For `PanicsHaveCause`, `FilesInv`
has the files that the last scan visited in the index, but for `lost`, as long as
the snapshot they belong to is unfinished; a commit that does not find a file has
then met one that was not scanned.  A listing that fails with nothing lost fails
on a row that is not ready (`ListingNeedsStores`).

`RecoveryProofs` proves, for any chunks, trees and lists of snapshots, any
distribution over blobs and any number of restarts:

* `RecoveryInvariant`, `RecoveryTypeCorrect`;
* `CountedIsThereAlways`, `WalkLeavesNothingAlways`,
  `RecoveredCountsExactAlways`, `RecoveredExactlyAlways` and
  `GcSparesRecoveredAlways`, each for the property in its name.

The assumptions are those of the module: every list has a blob of its own, a
list is a leaf, and "root cannot contain itself" (`hat/mod.rs:486`).

*The argument.*  A walk reserves the children of a branch and commits the branch
before them, so rows do not become ready children first.  `WalkInv` is what
holds instead: every chunk below the snapshot has been visited or is below
something on the stack, and every row that still waits is itself on the stack.
With `FrontInv` (what is complete waits only for what is not) an empty stack
means an empty queue, all rows below the snapshot ready, and `tops` the tops:
this is `WalkLeavesNothing`, and what `TagTops` needs.  That nothing below a
branch is forgotten is an induction over the tree, which the prover has not; it
is put into the definition of `Need` as the smallest closed set (`NeedSmallest`,
`NeedUnfolds`).  `CountInv` ties the counts to the tags of snapshots in one
transaction, so a resumed recovery counts each once; `ReadyInv` (only ready rows
have counts) keeps it through a restart.  `ListInv` says that every recovery of
a database goes by the same list, because no blob becomes Done after the first.
For `GcSparesRecovered`, the hashes with a marked row are a closed set around
each snapshot's root: tops are counted, and the rest is linked by `ChildInv`.

`VfsProofs` proves, for any snapshots, directories and files, any number of
descriptors and all sizes of reads:

* `VfsInvariantHolds`, and from it `ForwardReadsAreExact` (`ReadsItsFile`);
* for directories of any depth and replies of any size, `TreesFitTogether`, and
  from it `ListingsAgree` (`ListsWhatLsLists`).

The assumption `VfsAssumption` is that what snapshots and directories name can
be fetched, which SnapshotGc shows, that a chunk does not end before the one
before it, that a family has a snapshot's id once, and that a directory has a
name once (the key store looks a name up before it adds it).

*The argument.*  `IsReader` says that a reader holds one chunk of its file,
from where the chunk before ended to where it ends, so the next one it pulls
follows without a gap.  A handle may be given out twice; `OwnInv` says that a
descriptor whose handle nobody else has got since has a reader of its own file.
`AheadInv` says that such a descriptor, while it reads forward, is at or after
the start of its reader's chunk, also between the nested calls of one read.
`ServingInv` has what a read has got so far: the bytes of the file from where it
began, without a gap (`Bytes`).

For the listings, `Placed` says what an inode is: the root, a family below it,
or in what its parent, an earlier inode, names (`InFamily`, `InDir`).  A least
inode whose path `ls` does not find would have a parent whose path it does find,
and one more component is one more step of the lookup (`LsPathOn`, `FindsOne`).
The recursions of `PathOf`, `LsPath` and `Only` are shown to define a function
by the same argument of a least counterexample.  `IsKids` says that a directory
that was fetched has exactly its entries, in their order, so what `childs`
returns does not depend on who looked first; `Lists` says that a lister has seen
the first names of these, and `ReadDir` adds the next ones (`ListsMore`).

*Only model-checked.*  `WalkFindsNoCycle`: that two chunks of the same height on
a path of one resume are different rests on there being one empty chunk of each
height, which is a property of the content of chunks that the proofs do not
follow.  Liveness (`PiggybackReturns`, `StoreReturns`,
`ResumeEnds`, `RecoveryEnds`) and ENABLED (`ScanNeverStuck`)
are out of the prover's reach.

## 5. What is not modelled

* The content of bytes: ciphers, hashes, the serialisation of references,
  directories and the database's columns.  BlobLayout has their lengths.
* `meta_commit`: what it commits is the formatted list of snapshots.  Recovery
  starts from its result.  After a crash in it, resume commits an empty
  directory tree under the name of the synthetic family.
* The read caches of FileBackend and CmdBackend, which keep misses.
* Checkout, which reads a snapshot and writes files outside the system; the
  parsing of the command line; attributes and link targets in the virtual file
  system, which are only reported.
* How much fits into a reply to `readdir`: an entry has size one.  The code
  ignores what `reply.add` returns, so a library that skipped one long name
  and took the next would make a listing lose an entry.
* Errors of SQLite and of put commands that cannot be started: the code
  panics, which here is a restart.
* Chunks that are larger than a blob: BlobLayout assumes that every chunk fits
  into an empty one.  File chunks and nodes do; a directory's chunk has up to
  1024 entries of any length (`hat/family.rs:445`, `:496`) and a list of
  snapshots is one chunk (`hat/mod.rs:391`), which the code does not bound.
* The no-op collector, which nothing uses, and the data models.

## 6. Disagreements found

With a run of their own:

* **`cmd_drop`**: `data_flush` never flushes the backend.  With CmdBackend the
  last put commands are not reaped, their callbacks never run, and the hash
  index is dropped with entries queued, against its assertion.
* **`gc_tags`**: a collection leaves all used hashes tagged Reserved; the next
  commit counts each of them, and they are never collected again.
* **`vfs_handles`**: `Fuse::open` numbers a handle by how many files are open
  and gives out one that is in use.  Two processes then share a reader: one
  reads the other's file, or the reader's assertion fails although both read
  forward.

Met while modelling, and left to exceptions that the properties name:

* With CmdBackend `commit_done` is called when the put has only been started
  (`DoneBlobsAreStored` is proved of synchronous backends).
* The detached thread of an empty chunk may be late for `data_flush`
  (`FlushLeavesNothing` waits for it).
* The timer can save a blob's hashes before the blob is tagged done, so a blob
  found in progress at start-up may be referenced, against the comment of
  `in_air`, and a recovery that is cut off there does not look into the blob
  again (`RecoveredExactly`).
* A crash after a snapshot has been reserved and before its files' blobs are
  stored makes `resume` panic at every start (the first cause in
  `PanicHasCause`).
* "It is OK that this has is not yet valid, as we check hashes at snapshot time"
  (`key/mod.rs:347`): a scan checks the hashes of the path that it is given,
  while a commit lists the whole key index of the family (`hat/family.rs:430`).
  If a collection has taken the files of another path since they were scanned
  (`commit fam /a`, `delete fam 1`, `gc`, `commit fam /b`), the commit panics on
  the first of them (`hat/mod.rs:748`), with its reservation saved, and so does
  every resume after it.  This is the second cause, `MeetsUnscanned`, and needs
  no crash: without it TLC refutes `PanicHasCause`, with this sequence if no
  restart is allowed, and sooner with a crash in the place of the collection.
* A commit that is resumed when the repository is opened leaves its root and
  directories in the open blob.  Deleting that snapshot in the same process
  tags it "to enable resuming" (`hat/mod.rs:917`), then reads its directories
  from the backend and panics (`hat/mod.rs:941`); the restart loses them, and
  the deletion cannot be resumed either (`hat/mod.rs:675`).  This is the third
  cause, `ListsPending`, without which TLC refutes `PanicHasCause` too.  (Its
  shortest sequence has no restart: `Ready` asks only that the files of the last
  commit are stored, and so lets a deletion follow in a process that in `main.rs`
  would have flushed and ended.  The resumed commit leads to the same state.)
* `recover_entry` reserves a branch before its children.  When the timer saves
  a ready branch whose children are not, a crash deletes the children's rows,
  and the next walk takes the branch for "fully committed" (`hat/mod.rs:563`)
  with ids that lead nowhere: a later collection can take its children
  (`GcSparesRecovered` excepts this with `cut`).
* "After this point, only root exists" (`hash/tree.rs:284`) does not hold of
  the levels below the root, which may keep references.
* A file that cannot be read is reported as skipped
  (`hat/insert_path_handler.rs`) but gets a row without a hash, which
  `list_dir` then shows as a directory.
* A reader that has come to the end of a file stays there: a later read of an
  earlier offset gets nothing (`ReadsItsFile` is about reading forward).

## 7. Plan

1. *Done*: hash index with proofs, insertion pipeline, snapshots and collector.
2. *Done*: hash tree, key store and key index, recovery, layout of blobs with
   proofs, virtual file system.
3. *Done*: proofs of the insertion pipeline and its refinement of HashIndex, of
   the hash tree's writer, the scan, snapshots with their collector, recovery.
4. *Done*: proofs that hash trees read back as written and that the virtual file
   system's readers return their files and its directories list what `ls` lists.
5. The read caches against a map, and `meta_commit` before Recovery.

--------------------------- MODULE InsertPipeline ---------------------------
(***************************************************************************)
(* Storing chunks: HashStoreBackend::insert_chunk                          *)
(* (src/key/hash_store_backend.rs) run by several threads, on top of the   *)
(* hash index, the blob stores (src/blob/mod.rs), the blobs table          *)
(* (src/blob/index.rs, src/db/mod.rs) and an external backend              *)
(* (src/backend/).                                                         *)
(*                                                                         *)
(* A blob store collects chunks in memory; when the next one does not fit, *)
(* the thread that brings it pushes the blob out while holding the store's *)
(* lock.  Each chunk left a callback that commits its hash, to be run when *)
(* its blob is in external storage.  The mutex m of insert_chunk keeps a   *)
(* callback from running before update_reserved: it is held from "store"   *)
(* to "update" by the thread that reserved the hash.                       *)
(***************************************************************************)
EXTENDS HashIndex, Sequences

CONSTANTS
    Thread,         \* threads that insert chunks (the key stores' processes)
    Stores,         \* a sequence of blob stores, in the order data_flush visits
    StoreOf,        \* StoreOf[t]: the blob store thread t uses
    EmptyHash,      \* the hashes of empty chunks
    BlobCap,        \* chunks that fit in a blob
    MaxBlob,        \* bound: highest blob id handed out
    MaxRestarts,    \* bound: crashes in a run
    Async,          \* the backend returns before a put is done (CmdBackend)
    MaxConcurrent,  \* puts a CmdBackend runs at a time
    Main            \* the thread that runs data_flush

Store == {Stores[k] : k \in DOMAIN Stores}

ASSUME PipelineAssumption ==
    /\ StoreOf \in [Thread -> Store]
    /\ EmptyHash \subseteq Hash
    /\ \A h \in EmptyHash : Childs[h] = {}
    /\ Main \notin Thread
    /\ Async \in BOOLEAN
    /\ {BlobCap, MaxConcurrent} \subseteq Nat \ {0}
    /\ MaxRestarts \in Nat
    /\ MaxBlob \in Nat /\ Len(Stores) < MaxBlob
    /\ PRef = 0..MaxBlob
    /\ Stores \in Seq(Store)
    /\ \A j, k \in DOMAIN Stores : Stores[j] = Stores[k] => j = k

\* The bounds on ids never stop a thread.
ASSUME BoundsSuffice ==
    /\ MaxId >= (MaxRestarts + 1) * Cardinality(Hash)
    /\ MaxBlob >= (MaxRestarts + 1) * (1 + Len(Stores) + Cardinality(Hash))

VARIABLES
    job,        \* where each thread is in insert_chunk, and its locals there
    inserted,   \* hashes whose insert_chunk has returned to t
    store,      \* blob being filled: its id and the callbacks queued for it
    air,        \* the blob a store is pushing out, and who holds the lock
    blobRows,   \* blobs table in the open transaction: id -> tag
    blobDisk,   \* blobs table as last committed
    nextBlob,   \* next_id of the blob index
    external,   \* blobs in external storage
    spawned,    \* callbacks of empty chunks, each in a thread of its own
    puts,       \* CmdBackend: running put commands and their callbacks
    pass,       \* CmdBackend: puts that the current try_flush has to poll
    turn,       \* store data_flush is to flush next; 0 while threads insert
    restarts    \* crashes so far

threadVars == <<job, inserted>>
storeVars == <<store, air, nextBlob>>
blobVars == <<blobRows, blobDisk>>
backendVars == <<external, puts, pass>>
vars == <<hashVars, threadVars, storeVars, blobVars, backendVars, spawned,
          turn, restarts>>

Idle == [at |-> "idle", hash |-> NoRef, id |-> 0, ref |-> NoRef]

Unlocked == [step |-> "free", by |-> Main, blob |-> 0, calls |-> <<>>]

\* Mutant of HoldsM: the guard on m is dropped when blob_store.store returns.
HoldsMInStore(id) == \E t \in Thread : job[t].at = "store" /\ job[t].id = id

\* The mutex m of the insert_chunk call that reserved id.
HoldsM(id) == \E t \in Thread : job[t].at \in {"store", "update"} /\ job[t].id = id

\* The database is one transaction: whatever flushes it saves both tables.
SaveBlobsIf(fired) == blobDisk' = IF fired THEN blobRows ELSE blobDisk

-----------------------------------------------------------------------------
\* insert_chunk, up to the call of blob_store.store.

\* The tree writer inserts a node after its children, in one thread; there is
\* nothing left to insert once data_flush has started.
MayInsert(t, h) ==
    /\ turn = 0
    /\ job[t] = Idle
    /\ Childs[h] \subseteq inserted[t]

\* insert_chunk returns, and its locals are gone.
Return(t) ==
    /\ job' = [job EXCEPT ![t] = Idle]
    /\ inserted' = [inserted EXCEPT ![t] = @ \cup {job[t].hash}]

\* ReserveOk: the chunk is this thread's to store.
ReserveOk(t, h, fired) ==
    /\ MayInsert(t, h)
    /\ Reserve(h, fired)
    /\ SaveBlobsIf(fired)
    /\ job' = [job EXCEPT ![t] = [at |-> "store", hash |-> h, id |-> idCounter', ref |-> NoRef]]
    /\ UNCHANGED <<inserted, storeVars, blobRows, backendVars, spawned, turn, restarts>>

\* HashKnown: somebody else stores it, or has stored it.
HashKnown(t, h) ==
    /\ MayInsert(t, h)
    /\ HashExists(h)
    /\ job' = [job EXCEPT ![t] = [at |-> "piggyback", hash |-> h, id |-> GetId(h), ref |-> NoRef]]
    /\ UNCHANGED <<hashVars, inserted, storeVars, blobVars, backendVars,
                   spawned, turn, restarts>>

\* Mutant of Piggyback: the loop goes on although the reference is known.
PiggybackForever(t) ==
    /\ job[t].at = "piggyback"
    /\ HashExists(job[t].hash)
    /\ FetchPersistentRef(job[t].hash) # NoRef
    /\ UNCHANGED vars

\* The retry loop around fetch_persistent_ref ends when the reference is known.
Piggyback(t) ==
    /\ job[t].at = "piggyback"
    /\ HashExists(job[t].hash)
    /\ FetchPersistentRef(job[t].hash) # NoRef
    /\ Return(t)
    /\ UNCHANGED <<hashVars, storeVars, blobVars, backendVars,
                   spawned, turn, restarts>>

-----------------------------------------------------------------------------
\* blob_store.store, under the lock of the thread's blob store.

MayLock(t) == LET a == air[StoreOf[t]] IN a.step = "free" \/ (a.step = "append" /\ a.by = t)

HasRoom(s) == Len(store[s].refs) < BlobCap

\* Mutants of StoreEmpty: the empty chunk gets a reference into the blob; its
\* callback is dropped.
StoreEmptyInBlob(t) ==
    /\ job[t].at = "store" /\ job[t].hash \in EmptyHash
    /\ air[StoreOf[t]].step = "free"
    /\ spawned' = spawned \cup {job[t].id}
    /\ job' = [job EXCEPT ![t].at = "update", ![t].ref = store[StoreOf[t]].blob]
    /\ UNCHANGED <<hashVars, inserted, storeVars, blobVars, backendVars, turn, restarts>>

StoreEmptySilently(t) ==
    /\ job[t].at = "store" /\ job[t].hash \in EmptyHash
    /\ air[StoreOf[t]].step = "free"
    /\ job' = [job EXCEPT ![t].at = "update", ![t].ref = 0]
    /\ UNCHANGED <<hashVars, inserted, storeVars, blobVars, backendVars, spawned, turn, restarts>>

\* An empty chunk is not stored: a new thread runs its callback.
StoreEmpty(t) ==
    /\ job[t].at = "store" /\ job[t].hash \in EmptyHash
    /\ air[StoreOf[t]].step = "free"
    /\ spawned' = spawned \cup {job[t].id}
    /\ job' = [job EXCEPT ![t].at = "update", ![t].ref = 0]
    /\ UNCHANGED <<hashVars, inserted, storeVars, blobVars, backendVars, turn, restarts>>

\* try_append succeeds; the callback waits for the blob, the lock is released.
StoreAppend(t) ==
    LET s == StoreOf[t]
    IN  /\ job[t].at = "store" /\ job[t].hash \notin EmptyHash
        /\ MayLock(t)
        /\ HasRoom(s)
        /\ job' = [job EXCEPT ![t].at = "update", ![t].ref = store[s].blob]
        /\ store' = [store EXCEPT ![s].refs = Append(@, job[t].id)]
        /\ air' = [air EXCEPT ![s] = Unlocked]
        /\ UNCHANGED <<hashVars, inserted, nextBlob, blobVars, backendVars,
                       spawned, turn, restarts>>

\* Mutant of UpdateAndReturn: update_reserved is retried without end.
UpdateForever(t) ==
    /\ job[t].at = "update"
    /\ UpdateReserved(job[t].id, job[t].ref)
    /\ UNCHANGED <<threadVars, storeVars, blobVars, backendVars, spawned, turn, restarts>>

\* update_reserved, after which m is released and insert_chunk returns.
UpdateAndReturn(t) ==
    /\ job[t].at = "update"
    /\ UpdateReserved(job[t].id, job[t].ref)
    /\ Return(t)
    /\ UNCHANGED <<storeVars, blobVars, backendVars, spawned, turn, restarts>>

-----------------------------------------------------------------------------
\* StoreInner::flush: push the blob out, holding the store's lock throughout.

\* A new id replaces the blob's, the callbacks are taken, and in_air records
\* the blob and flushes the database.
InAir(s, who) ==
    /\ air[s].step = "free"
    /\ store[s].refs # <<>>
    /\ nextBlob < MaxBlob /\ nextBlob' = nextBlob + 1
    /\ store' = [store EXCEPT ![s] = [blob |-> nextBlob', refs |-> <<>>]]
    /\ air' = [air EXCEPT ![s] = [step |-> "put", by |-> who, blob |-> store[s].blob,
                                  calls |-> store[s].refs]]
    /\ blobRows' = Put(blobRows, store[s].blob, "InProgress")
    /\ Flush
    /\ blobDisk' = blobRows'
    /\ UNCHANGED <<threadVars, backendVars, spawned, turn, restarts>>

\* try_append fails: the thread flushes the store before it tries again.
StoreFull(t) ==
    /\ job[t].at = "store" /\ job[t].hash \notin EmptyHash
    /\ ~HasRoom(StoreOf[t])
    /\ InAir(StoreOf[t], t)

\* Mutant of PutNow: the callbacks run although the put has failed.
PutFails(s) ==
    /\ ~Async
    /\ air[s].step = "put"
    /\ air' = [air EXCEPT ![s].step = "calls"]
    /\ UNCHANGED <<hashVars, threadVars, store, nextBlob, blobVars, backendVars, spawned, turn, restarts>>

\* backend.store of FileBackend and MemoryBackend: done when it returns.
PutNow(s) ==
    /\ ~Async
    /\ air[s].step = "put"
    /\ external' = external \cup {air[s].blob}
    /\ air' = [air EXCEPT ![s].step = "calls"]
    /\ UNCHANGED <<hashVars, threadVars, store, nextBlob, blobVars, puts, pass, spawned, turn, restarts>>

\* Mutant of CallBack: it does not wait for m.
CallBackEarly(s, fired) ==
    LET id == Head(air[s].calls)
    IN  /\ air[s].step = "calls" /\ air[s].calls # <<>>
        /\ CommitHash(id, fired)
        /\ SaveBlobsIf(fired)
        /\ air' = [air EXCEPT ![s].calls = Tail(@)]
        /\ UNCHANGED <<threadVars, store, nextBlob, blobRows, backendVars, spawned, turn, restarts>>

\* done_callback: commit the blob's hashes one after the other.
CallBack(s, fired) ==
    LET id == Head(air[s].calls)
    IN  /\ air[s].step = "calls" /\ air[s].calls # <<>>
        /\ ~HoldsM(id)
        /\ CommitHash(id, fired)
        /\ SaveBlobsIf(fired)
        /\ air' = [air EXCEPT ![s].calls = Tail(@)]
        /\ UNCHANGED <<threadVars, store, nextBlob, blobRows, backendVars, spawned, turn, restarts>>

\* commit_done tags the blob and flushes the database.  data_flush then
\* releases the lock and moves on; a thread goes on to append its chunk.
CommitDone(s) ==
    /\ air[s].step = "calls" /\ air[s].calls = <<>>
    /\ blobRows' = [blobRows EXCEPT ![air[s].blob] = "Done"]
    /\ Flush
    /\ blobDisk' = blobRows'
    /\ IF air[s].by = Main
       THEN air' = [air EXCEPT ![s] = Unlocked] /\ turn' = turn + 1
       ELSE air' = [air EXCEPT ![s].step = "append"] /\ UNCHANGED turn
    /\ UNCHANGED <<threadVars, store, nextBlob, backendVars, spawned, restarts>>

\* The thread spawned for an empty chunk.
SpawnedCallBack(id, fired) ==
    /\ ~HoldsM(id)
    /\ CommitHash(id, fired)
    /\ SaveBlobsIf(fired)
    /\ spawned' = spawned \ {id}
    /\ UNCHANGED <<threadVars, storeVars, blobRows, backendVars, turn, restarts>>

-----------------------------------------------------------------------------
\* CmdBackend: a put is a child process; done_callback runs when it is reaped.

\* new_put with a free slot starts the child and returns.
PutStart(s) ==
    /\ Async
    /\ air[s].step = "put"
    /\ pass = {}
    /\ Cardinality(DOMAIN puts) < MaxConcurrent
    /\ puts' = Put(puts, air[s].blob, [calls |-> air[s].calls, exited |-> FALSE])
    /\ air' = [air EXCEPT ![s].step = "calls", ![s].calls = <<>>]
    /\ UNCHANGED <<hashVars, threadVars, store, nextBlob, blobVars, external, pass,
                   spawned, turn, restarts>>

\* The child succeeds.  (One that fails is started again by try_flush.)
PutExits(b) ==
    /\ ~puts[b].exited
    /\ external' = external \cup {b}
    /\ puts' = [puts EXCEPT ![b].exited = TRUE]
    /\ UNCHANGED <<hashVars, threadVars, storeVars, blobVars, pass, spawned, turn, restarts>>

\* new_put with every slot taken: try_flush polls all puts.
PollPuts(s) ==
    /\ air[s].step = "put"
    /\ pass = {}
    /\ Cardinality(DOMAIN puts) >= MaxConcurrent
    /\ pass' = DOMAIN puts
    /\ UNCHANGED <<hashVars, threadVars, storeVars, blobVars, external, puts, spawned, turn, restarts>>

PollRunning(b) ==
    /\ ~puts[b].exited
    /\ pass' = pass \ {b}
    /\ UNCHANGED <<hashVars, threadVars, storeVars, blobVars, external, puts, spawned, turn, restarts>>

\* Mutant of ReapCallBack: the child is not waited for.
ReapCallBackRunning(b, fired) ==
    LET id == Head(puts[b].calls)
    IN  /\ puts[b].calls # <<>>
        /\ ~HoldsM(id)
        /\ CommitHash(id, fired)
        /\ SaveBlobsIf(fired)
        /\ puts' = [puts EXCEPT ![b].calls = Tail(@)]
        /\ UNCHANGED <<threadVars, storeVars, blobRows, external, pass, spawned, turn, restarts>>

ReapCallBack(b, fired) ==
    LET id == Head(puts[b].calls)
    IN  /\ puts[b].exited /\ puts[b].calls # <<>>
        /\ ~HoldsM(id)
        /\ CommitHash(id, fired)
        /\ SaveBlobsIf(fired)
        /\ puts' = [puts EXCEPT ![b].calls = Tail(@)]
        /\ UNCHANGED <<threadVars, storeVars, blobRows, external, pass, spawned, turn, restarts>>

\* Mutant of ReapDone: a put is forgotten when its child has exited.
ReapForgets(b) ==
    /\ puts[b].exited
    /\ puts' = Drop(puts, {b})
    /\ pass' = pass \ {b}
    /\ UNCHANGED <<hashVars, threadVars, storeVars, blobVars, external, spawned, turn, restarts>>

ReapDone(b) ==
    /\ puts[b].exited /\ puts[b].calls = <<>>
    /\ puts' = Drop(puts, {b})
    /\ pass' = pass \ {b}
    /\ UNCHANGED <<hashVars, threadVars, storeVars, blobVars, external, spawned, turn, restarts>>

-----------------------------------------------------------------------------
\* data_flush: every store is flushed in turn, once the inserting is over.

StartDataFlush ==
    /\ turn = 0
    /\ \A t \in Thread : job[t] = Idle
    /\ turn' = 1
    /\ UNCHANGED <<hashVars, threadVars, storeVars, blobVars, backendVars, spawned, restarts>>

FlushStore ==
    /\ turn \in DOMAIN Stores
    /\ InAir(Stores[turn], Main)

\* Mutant of FlushEmptyStore: a store that holds chunks is passed over.
FlushSkipsStore ==
    /\ turn \in DOMAIN Stores
    /\ air[Stores[turn]].step = "free"
    /\ Flush
    /\ blobDisk' = blobRows
    /\ turn' = turn + 1
    /\ UNCHANGED <<threadVars, storeVars, blobRows, backendVars, spawned, restarts>>

\* to_ciphertext finds nothing to store; only the database is flushed.
FlushEmptyStore ==
    /\ turn \in DOMAIN Stores
    /\ air[Stores[turn]].step = "free" /\ store[Stores[turn]].refs = <<>>
    /\ Flush
    /\ blobDisk' = blobRows
    /\ turn' = turn + 1
    /\ UNCHANGED <<threadVars, storeVars, blobRows, backendVars, spawned, restarts>>

Flushed == turn > Len(Stores)

\* data_flush returns; its caller may go on to insert more.
DataFlushReturns ==
    /\ Flushed
    /\ turn' = 0
    /\ UNCHANGED <<hashVars, threadVars, storeVars, blobVars, backendVars, spawned, restarts>>

-----------------------------------------------------------------------------
\* A crash, or an exit, at any point, and the next open_repository: whatever
\* was in memory is gone, and each store reserves a blob id again.  A put that
\* is running is a process of its own and may still succeed.

ReservedBlob(k, last) == 1 + last + k

FreshStores(last) ==
    [s \in Store |-> [blob |-> ReservedBlob(CHOOSE k \in DOMAIN Stores : Stores[k] = s, last),
                      refs |-> <<>>]]

PipelineRestart ==
    LET last == MaxOf(DOMAIN blobDisk)
    IN  /\ Restart
        /\ restarts < MaxRestarts /\ restarts' = restarts + 1
        /\ job' = [t \in Thread |-> Idle]
        /\ inserted' = [t \in Thread |-> {}]
        /\ store' = FreshStores(last)
        /\ air' = [s \in Store |-> Unlocked]
        /\ nextBlob' = ReservedBlob(Len(Stores), last) /\ nextBlob' <= MaxBlob
        /\ blobRows' = blobDisk
        /\ \E late \in SUBSET DOMAIN puts : external' = external \cup late
        /\ puts' = NoEntries /\ pass' = {} /\ spawned' = {}
        /\ turn' = 0
        /\ UNCHANGED blobDisk

-----------------------------------------------------------------------------
Init ==
    /\ HashInit
    /\ job = [t \in Thread |-> Idle]
    /\ inserted = [t \in Thread |-> {}]
    /\ store = FreshStores(0)
    /\ air = [s \in Store |-> Unlocked]
    /\ nextBlob = ReservedBlob(Len(Stores), 0)
    /\ blobRows = NoEntries /\ blobDisk = NoEntries
    /\ external = {} /\ puts = NoEntries /\ pass = {}
    /\ spawned = {}
    /\ turn = 0 /\ restarts = 0

ThreadStep(t) ==
    \/ Piggyback(t) \/ StoreEmpty(t) \/ StoreAppend(t) \/ UpdateAndReturn(t) \/ StoreFull(t)

StoreStep(s) ==
    \/ PutNow(s) \/ CommitDone(s) \/ PutStart(s) \/ PollPuts(s)
    \/ \E fired \in BOOLEAN : CallBack(s, fired)

PollStep(b) ==
    \/ PollRunning(b) \/ ReapDone(b)
    \/ \E fired \in BOOLEAN : ReapCallBack(b, fired)

Next ==
    \/ \E t \in Thread, h \in Hash, fired \in BOOLEAN : ReserveOk(t, h, fired)
    \/ \E t \in Thread, h \in Hash : HashKnown(t, h)
    \/ \E t \in Thread : ThreadStep(t)
    \/ \E s \in Store : StoreStep(s)
    \/ \E id \in spawned, fired \in BOOLEAN : SpawnedCallBack(id, fired)
    \/ \E b \in DOMAIN puts : PutExits(b)
    \/ \E b \in pass : PollStep(b)
    \/ StartDataFlush \/ FlushStore \/ FlushEmptyStore \/ DataFlushReturns
    \/ PipelineRestart

Spec == Init /\ [][Next]_vars

\* Every thread keeps running while the process does, a put command ends, and
\* data_flush carries on to its end.  Crashes and new insertions are nobody's
\* duty.
Fairness ==
    /\ \A t \in Thread : WF_vars(ThreadStep(t))
    /\ \A s \in Store : WF_vars(StoreStep(s))
    /\ WF_vars(\E id \in spawned, fired \in BOOLEAN : SpawnedCallBack(id, fired))
    /\ WF_vars(\E b \in DOMAIN puts : PutExits(b))
    /\ WF_vars(\E b \in pass : PollStep(b))
    /\ WF_vars(FlushStore \/ FlushEmptyStore)

FairSpec == Spec /\ Fairness

-----------------------------------------------------------------------------
\* Locals, stores and backend hold what their types say.
PipelineTypeOK ==
    /\ job \in [Thread -> [at : {"idle", "store", "update", "piggyback"},
                           hash : Hash \cup {NoRef}, id : Nat, ref : PRef \cup {NoRef}]]
    /\ inserted \in [Thread -> SUBSET Hash]
    /\ store \in [Store -> [blob : 1..MaxBlob, refs : Seq(Nat)]]
    /\ \A s \in Store : Len(store[s].refs) <= BlobCap
    /\ air \in [Store -> [step : {"free", "put", "calls", "append"},
                           by : Thread \cup {Main}, blob : 0..MaxBlob, calls : Seq(Nat)]]
    /\ \A t \in {blobRows, blobDisk} : t \in [DOMAIN t -> {"InProgress", "Done"}]
    /\ puts \in [DOMAIN puts -> [calls : Seq(Nat), exited : BOOLEAN]]
    /\ nextBlob \in 1..MaxBlob
    /\ external \subseteq 1..MaxBlob
    /\ pass \subseteq DOMAIN puts
    /\ spawned \subseteq Nat
    /\ turn \in 0..(Len(Stores) + 1)
    /\ restarts \in 0..MaxRestarts

Stored(t, blobs) ==
    \A i \in ReadyIds(t) :
        IF t[i].hash \in EmptyHash THEN t[i].pref = 0
                                  ELSE t[i].pref \in external \cap DOMAIN blobs

\* A hash that is ready, now or after a crash, has its content in external
\* storage and its blob in the blobs table, which decode_chunk_ref needs to
\* name it: the callback runs after the put, and in_air saved the blob before
\* ("it is then safe to use the ChunkRef", blob/mod.rs).
ReadyIsStored == Stored(rows, blobRows) /\ Stored(disk, blobDisk)

Range(seq) == {seq[k] : k \in DOMAIN seq}

\* The callbacks that are still to be called.
Outstanding ==
    spawned \cup (UNION {Range(store[s].refs) \cup Range(air[s].calls) : s \in Store})
            \cup (UNION {Range(puts[b].calls) : b \in DOMAIN puts})

\* When m lets a callback through, it finds its entry in the queue, not yet
\* ready and with its reference set: neither set_ready nor hash_set_ready can
\* panic ("The callback has to run *after* we called update_reserved").
CallbackFindsEntry ==
    \A id \in Outstanding :
        /\ id \in DOMAIN queue
        /\ queue[id].status = "Pending"
        /\ HoldsM(id) \/ queue[id].pref # NoRef

\* Every reservation is somebody's to complete: a queue entry that is pending
\* has a callback outstanding or a thread about to leave one.  An entry without
\* would hold back every later hash for good (pop_min_if_complete).
NoOrphanReservation ==
    \A id \in DOMAIN queue :
        queue[id].status = "Pending" => id \in Outstanding \/ HoldsM(id)

\* When data_flush has returned and no empty chunk's thread is left, the hash
\* index has nothing in memory any more (the assertion in its drop).
FlushLeavesNothing == Flushed /\ spawned = {} => DOMAIN queue = {}

\* A blob tagged done is in external storage: "this blob has been fully
\* committed to persistent storage" (blob/index.rs, commit_done).
DoneBlobIsStored == \A b \in DOMAIN blobRows : blobRows[b] = "Done" => b \in external

\* "Sanity check that we flushed this hash index fully before dropping it"
\* (hash/mod.rs, drop): nothing is in memory once data_flush has returned.
FlushedFully == Flushed => DOMAIN queue = {}

\* The threads use the hash index as it demands, and so get what it promises.
ImplementsHashIndex == HashSpec

\* A thread that found its hash known does not wait for its reference forever
\* (the retry loop of fetch_persistent_ref).
PiggybackReturns ==
    \A t \in Thread : job[t].at = "piggyback" ~> job[t].at # "piggyback"

\* Nor does one that stores: no lock cycle between m, the blob store and the
\* callbacks it runs (blob/mod.rs flush, hash_store_backend.rs insert_chunk).
StoreReturns ==
    \A t \in Thread : job[t].at = "store" ~> job[t] = Idle

=============================================================================

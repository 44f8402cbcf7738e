------------------------ MODULE InsertPipelineProofs ------------------------
(***************************************************************************)
(* Proofs about InsertPipeline for any number of threads, blob stores,     *)
(* hashes, restarts and running puts, and for every shape of the hash      *)
(* tree: insert_chunk uses the hash index as it demands (HashIndexProofs   *)
(* then applies to the whole pipeline), every callback finds its entry,    *)
(* every reservation is completed, and what is ready is stored.            *)
(***************************************************************************)
EXTENDS InsertPipeline, HashIndexProofs

\* Thread t is between the reservation and the update, and holds m for id.
Holds(t, id) == job[t].at \in {"store", "update"} /\ job[t].id = id

\* The callback of id waits for blob b, or for nothing if b is 0: the chunk is
\* reserved, and its reference is b, in the queue or still in the locals of the
\* thread that holds m.
WaitsFor(id, b) ==
    /\ id \in DOMAIN queue
    /\ queue[id].status = "Pending"
    /\ queue[id].hash \in EmptyHash <=> b = 0
    /\ \A t \in Thread : Holds(t, id) => job[t].at = "update" /\ job[t].ref = b
    /\ (\A t \in Thread : ~Holds(t, id)) => queue[id].pref = b

Distinct(seq) == \A j, k \in DOMAIN seq : seq[j] = seq[k] => j = k

\* The hash has a row.
Known(h) == \E i \in DOMAIN rows : rows[i].hash = h

\* A reservation belongs to one thread until it is updated, and a thread only
\* relies on hashes that the index knows.
JobsInv ==
    /\ \A t \in Thread :
        /\ job[t].at # "idle" => job[t].hash \in Hash
        /\ job[t].at = "piggyback" => Known(job[t].hash)
        /\ job[t].at = "update" => job[t].ref # NoRef
        /\ job[t].at \in {"store", "update"} =>
            /\ job[t].id \in DOMAIN queue
            /\ queue[job[t].id].hash = job[t].hash
            /\ queue[job[t].id].status = "Pending"
            /\ queue[job[t].id].pref = NoRef
        /\ \A h \in inserted[t] : Known(h)
    /\ \A t, u \in Thread : Holds(t, job[u].id) /\ Holds(u, job[u].id) => t = u

\* Blob ids: a blob being filled is in no table and belongs to one store; one
\* that is pushed out is in both tables, and in one place only.
BlobsInv ==
    /\ DOMAIN blobRows = DOMAIN blobDisk /\ DOMAIN blobRows \subseteq 1..nextBlob
    /\ DOMAIN puts \subseteq DOMAIN blobRows
    /\ external \subseteq DOMAIN blobRows
    /\ \A s \in Store :
        /\ store[s].blob \in 1..nextBlob /\ store[s].blob \notin DOMAIN blobRows
        /\ air[s].step # "free" => air[s].blob \in DOMAIN blobRows
        /\ air[s].step \in {"free", "append"} => air[s].calls = <<>>
        /\ air[s].step = "put" \/ air[s].calls # <<>> => air[s].blob \notin DOMAIN puts
    /\ \A s, u \in Store :
        /\ store[s].blob = store[u].blob => s = u
        /\ air[s].step # "free" /\ air[u].step # "free" /\ air[s].blob = air[u].blob => s = u

\* Every callback waits for the blob that holds it, and is held once.
CallsInv ==
    /\ \A id \in spawned : WaitsFor(id, 0)
    /\ \A s \in Store :
        /\ \A id \in Range(store[s].refs) : WaitsFor(id, store[s].blob)
        /\ \A id \in Range(air[s].calls) : WaitsFor(id, air[s].blob)
        /\ Distinct(store[s].refs) /\ Distinct(air[s].calls)
    /\ \A b \in DOMAIN puts :
        /\ \A id \in Range(puts[b].calls) : WaitsFor(id, b)
        /\ Distinct(puts[b].calls)

\* The callback of id is still to be called.
ToCall(id) ==
    \/ id \in spawned
    \/ \E s \in Store : id \in Range(store[s].refs) \/ id \in Range(air[s].calls)
    \/ \E b \in DOMAIN puts : id \in Range(puts[b].calls)

\* Whoever has a pending entry to complete: a callback, or the thread that has
\* not yet left one.
PendingInv ==
    \A id \in DOMAIN queue :
        queue[id].status = "Pending" =>
            ToCall(id) \/ \E t \in Thread : job[t].at = "store" /\ job[t].id = id

\* A completed entry stays in the queue only behind a pending one.
FrontInv ==
    \A i \in DOMAIN queue :
        \E j \in DOMAIN queue : j <= i /\ queue[j].status = "Pending"

RefStored(h, p) == IF h \in EmptyHash THEN p = 0 ELSE p \in external

\* Callbacks run on what is in external storage, and leave only that ready.
StoredInv ==
    /\ \A s \in Store : air[s].step = "calls" /\ air[s].calls # <<>> => air[s].blob \in external
    /\ \A b \in DOMAIN puts : puts[b].exited => b \in external
    /\ \A i \in DOMAIN queue : queue[i].status = "Ready" => RefStored(queue[i].hash, queue[i].pref)
    /\ \A i \in ReadyIds(rows) : RefStored(rows[i].hash, rows[i].pref)
    /\ \A i \in ReadyIds(disk) : RefStored(disk[i].hash, disk[i].pref)

\* data_flush runs alone, and what it has passed is empty.
TurnInv ==
    /\ turn # 0 => \A t \in Thread : job[t].at = "idle"
    /\ \A s \in Store :
        air[s].step # "free" =>
            IF air[s].by = Main
            THEN turn \in DOMAIN Stores /\ s = Stores[turn] /\ store[s].refs = <<>>
            ELSE job[air[s].by].at = "store" /\ StoreOf[air[s].by] = s
                 /\ job[air[s].by].hash \notin EmptyHash
    /\ \A k \in DOMAIN Stores : k < turn => store[Stores[k]].refs = <<>>

\* A backend that is done when it returns has what is tagged done.
SyncInv ==
    ~Async =>
        /\ DOMAIN puts = {}
        /\ \A s \in Store : air[s].step \in {"calls", "append"} => air[s].blob \in external
        /\ \A b \in DOMAIN blobRows : blobRows[b] = "Done" => b \in external
        /\ \A b \in DOMAIN blobDisk : blobDisk[b] = "Done" => b \in external

PipelineInv ==
    /\ HashInv /\ PipelineTypeOK
    /\ JobsInv /\ BlobsInv /\ CallsInv /\ PendingInv /\ FrontInv
    /\ StoredInv /\ TurnInv /\ SyncInv

-----------------------------------------------------------------------------
\* The queues of callbacks.

\* A fresh store's list of callbacks holds none.
LEMMA EmptyCalls ==
    <<>> \in Seq(Nat) /\ Range(<<>>) = {} /\ Distinct(<<>>)
BY DEF Range, Distinct

\* A chunk is appended to the blob being filled.
LEMMA AppendCall ==
    ASSUME NEW q \in Seq(Nat), NEW e \in Nat
    PROVE  /\ Append(q, e) \in Seq(Nat)
           /\ Len(Append(q, e)) = Len(q) + 1
           /\ Range(Append(q, e)) = Range(q) \cup {e}
           /\ Distinct(q) /\ e \notin Range(q) => Distinct(Append(q, e))
<1> DEFINE r == Append(q, e)
<1>0. PICK n \in Nat : n = Len(q)
    OBVIOUS
<1>1. /\ r \in Seq(Nat) /\ Len(r) = n + 1
      /\ DOMAIN r = 1..(n + 1) /\ DOMAIN q = 1..n
      /\ \A k \in 1..n : r[k] = q[k]
      /\ r[n + 1] = e
    BY <1>0
<1>2. 1..(n + 1) = 1..n \cup {n + 1}
    BY <1>0
<1> HIDE DEF r
<1>3. Range(r) = Range(q) \cup {e}
    BY <1>1, <1>2 DEF Range
<1>4. ASSUME Distinct(q), e \notin Range(q) PROVE Distinct(r)
    <2>1. \A k \in 1..n : r[k] = q[k] /\ r[k] # r[n + 1]
        BY <1>1, <1>4 DEF Range
    <2> QED  BY <1>1, <1>2, <1>4, <2>1 DEF Distinct
<1> QED  BY <1>0, <1>1, <1>3, <1>4 DEF r

\* The first callback is taken off.
LEMMA TailCall ==
    ASSUME NEW q \in Seq(Nat), q # <<>>
    PROVE  /\ Tail(q) \in Seq(Nat)
           /\ Head(q) \in Nat /\ Head(q) \in Range(q)
           /\ Distinct(q) => /\ Distinct(Tail(q))
                             /\ Range(Tail(q)) = Range(q) \ {Head(q)}
<1> DEFINE r == Tail(q)
<1>0. PICK n \in Nat : n = Len(q) /\ n > 0
    OBVIOUS
<1>1. /\ r \in Seq(Nat)
      /\ DOMAIN r = 1..(n - 1) /\ DOMAIN q = 1..n
      /\ \A k \in 1..(n - 1) : r[k] = q[k + 1]
      /\ Head(q) = q[1] /\ q[1] \in Nat
    BY <1>0
<1> HIDE DEF r
<1>2. Head(q) \in Range(q)
    BY <1>0, <1>1 DEF Range
<1>3. ASSUME Distinct(q) PROVE Distinct(r)
    <2> SUFFICES ASSUME NEW j \in DOMAIN r, NEW k \in DOMAIN r, r[j] = r[k] PROVE j = k
        BY DEF Distinct
    <2>1. j \in 1..(n - 1) /\ k \in 1..(n - 1)
        BY <1>1
    <2>2. \A m \in 1..(n - 1) : m + 1 \in 1..n
        BY <1>0
    <2>3. q[j + 1] = q[k + 1]
        BY <1>1, <2>1
    <2>4. j + 1 = k + 1
        BY <1>1, <1>3, <2>1, <2>2, <2>3 DEF Distinct
    <2> QED  BY <2>1, <2>4
<1>4. ASSUME Distinct(q) PROVE Range(r) = Range(q) \ {Head(q)}
    <2>1. ASSUME NEW x \in Range(r) PROVE x \in Range(q) /\ x # Head(q)
        <3>1. PICK k \in 1..(n - 1) : x = q[k + 1]
            BY <1>1, <2>1 DEF Range
        <3>2. k + 1 \in 1..n /\ k + 1 # 1 /\ 1 \in 1..n
            BY <1>0, <3>1
        <3> QED  BY <1>1, <1>4, <3>1, <3>2 DEF Distinct, Range
    <2>2. ASSUME NEW x \in Range(q), x # Head(q) PROVE x \in Range(r)
        <3>1. PICK k \in 1..n : x = q[k]
            BY <1>1, <2>2 DEF Range
        <3>2. k - 1 \in 1..(n - 1) /\ r[k - 1] = q[k]
            BY <1>0, <1>1, <2>2, <3>1
        <3> QED  BY <1>1, <3>1, <3>2 DEF Range
    <2> QED  BY <2>1, <2>2
<1> QED  BY <1>1, <1>2, <1>3, <1>4 DEF r

-----------------------------------------------------------------------------
\* The backend.

\* What the proofs use of the constants.
LEMMA ConstantFacts ==
    /\ BlobCap \in Nat /\ MaxBlob \in Nat
    /\ Len(Stores) \in Nat /\ DOMAIN Stores = 1..Len(Stores)
    /\ Len(Stores) < MaxBlob
    /\ \A k \in DOMAIN Stores : Stores[k] \in Store
    /\ Main \notin Thread
    /\ Unlocked \in [step : {"free", "put", "calls", "append"},
                     by : Thread \cup {Main}, blob : 0..MaxBlob, calls : Seq(Nat)]
    /\ Unlocked.step = "free" /\ Unlocked.calls = <<>>
<1>1. BlobCap \in Nat /\ MaxBlob \in Nat /\ Main \notin Thread /\ Len(Stores) < MaxBlob
    BY PipelineAssumption
<1>2. Len(Stores) \in Nat /\ DOMAIN Stores = 1..Len(Stores)
    BY PipelineAssumption
<1>3. \A k \in DOMAIN Stores : Stores[k] \in Store
    BY DEF Store
<1>4. Unlocked \in [step : {"free", "put", "calls", "append"},
                    by : Thread \cup {Main}, blob : 0..MaxBlob, calls : Seq(Nat)]
    BY <1>1, EmptyCalls DEF Unlocked
<1>5. Unlocked.step = "free" /\ Unlocked.calls = <<>>
    BY DEF Unlocked
<1> QED  BY <1>1, <1>2, <1>3, <1>4, <1>5

\* Blob ids in use respect the bound.
LEMMA BlobIds ==
    ASSUME PipelineInv
    PROVE  /\ MaxBlob \in Nat /\ nextBlob \in Nat /\ nextBlob <= MaxBlob
           /\ DOMAIN blobRows \subseteq 1..MaxBlob
BY PipelineAssumption DEF PipelineInv, PipelineTypeOK, BlobsInv

\* What a step that leaves threads and queue alone cannot disturb.
LEMMA ThreadsAlone ==
    ASSUME PipelineInv, UNCHANGED <<rows, queue, threadVars>>
    PROVE  /\ JobsInv' /\ FrontInv'
           /\ \A id, b : WaitsFor(id, b) => WaitsFor(id, b)'
<1>1. JobsInv'
    BY DEF PipelineInv, JobsInv, threadVars, Holds, Known
<1>2. FrontInv'
    BY DEF PipelineInv, FrontInv
<1>3. ASSUME NEW id, NEW b, WaitsFor(id, b) PROVE WaitsFor(id, b)'
    BY <1>3 DEF WaitsFor, Holds, threadVars
<1> QED  BY <1>1, <1>2, <1>3

AirRec == [step : {"free", "put", "calls", "append"},
           by : Thread \cup {Main}, blob : 0..MaxBlob, calls : Seq(Nat)]

\* A store's flush moves on to its next step.
LEMMA AirMovesOn ==
    ASSUME PipelineTypeOK, NEW s \in Store, NEW step \in {"free", "put", "calls", "append"},
           air' = [air EXCEPT ![s].step = step]
    PROVE  /\ \A u \in Store : /\ air'[u].by = air[u].by
                               /\ air'[u].blob = air[u].blob
                               /\ air'[u].calls = air[u].calls
                               /\ u # s => air'[u] = air[u]
           /\ air'[s].step = step
           /\ air' \in [Store -> AirRec]
<1>1. air \in [Store -> AirRec]
    BY DEF PipelineTypeOK, AirRec
<1>2. PICK a \in AirRec : a = air[s]
    BY <1>1
<1>3. PICK c : c = [a EXCEPT !.step = step]
    OBVIOUS
<1>4. /\ c \in AirRec
      /\ c.step = step /\ c.by = a.by /\ c.blob = a.blob /\ c.calls = a.calls
    BY <1>2, <1>3 DEF AirRec
<1>5. air' = [air EXCEPT ![s] = c]
    BY <1>2, <1>3
<1> QED  BY <1>1, <1>2, <1>4, <1>5

\* backend.store returns: the blob is there, and its callbacks may run.
LEMMA PutNowKeepsInv ==
    ASSUME PipelineInv, NEW s \in Store, PutNow(s)
    PROVE  PipelineInv'
<1>1. /\ UNCHANGED <<hashVars, threadVars, store, nextBlob, blobVars, puts, pass, spawned,
                     turn, restarts>>
      /\ ~Async /\ air[s].step = "put"
      /\ external' = external \cup {air[s].blob}
      /\ air' = [air EXCEPT ![s].step = "calls"]
    BY DEF PutNow
<1>2. PipelineTypeOK
    BY DEF PipelineInv
<1>3. /\ \A u \in Store : /\ air'[u].by = air[u].by
                          /\ air'[u].blob = air[u].blob
                          /\ air'[u].calls = air[u].calls
                          /\ u # s => air'[u] = air[u]
      /\ air'[s].step = "calls"
      /\ air' \in [Store -> AirRec]
    BY <1>1, <1>2, AirMovesOn
<1>4. air[s].blob \in DOMAIN blobRows /\ DOMAIN blobRows \subseteq 1..MaxBlob
    BY <1>1, BlobIds DEF PipelineInv, BlobsInv
<1>5. HashInv'
    BY <1>1, StepKeepsInv DEF PipelineInv
<1>6. PipelineTypeOK'
    BY <1>1, <1>2, <1>3, <1>4 DEF PipelineTypeOK, AirRec, threadVars, blobVars
<1>7. JobsInv' /\ FrontInv' /\ \A id, b : WaitsFor(id, b) => WaitsFor(id, b)'
    BY <1>1, ThreadsAlone DEF hashVars
<1>8. BlobsInv'
    BY <1>1, <1>3, <1>4 DEF PipelineInv, BlobsInv, blobVars
<1>9. CallsInv'
    BY <1>1, <1>3, <1>7 DEF PipelineInv, CallsInv
<1>10. PendingInv'
    BY <1>1, <1>3 DEF PipelineInv, PendingInv, ToCall, threadVars, hashVars
<1>11. StoredInv'
    BY <1>1, <1>3 DEF PipelineInv, StoredInv, RefStored, hashVars, ReadyIds
<1>12. TurnInv'
    BY <1>1, <1>3 DEF PipelineInv, TurnInv, threadVars
<1>13. SyncInv'
    BY <1>1, <1>3 DEF PipelineInv, SyncInv, blobVars
<1> QED  BY <1>5, <1>6, <1>7, <1>8, <1>9, <1>10, <1>11, <1>12, <1>13 DEF PipelineInv

\* new_put takes the blob's callbacks along.
LEMMA PutStartKeepsInv ==
    ASSUME PipelineInv, NEW s \in Store, PutStart(s)
    PROVE  PipelineInv'
<1>0. PICK b : b = air[s].blob
    OBVIOUS
<1> DEFINE p == [calls |-> air[s].calls, exited |-> FALSE]
<1>1. /\ UNCHANGED <<hashVars, threadVars, store, nextBlob, blobVars, external, pass, spawned,
                     turn, restarts>>
      /\ Async /\ air[s].step = "put"
      /\ puts' = Put(puts, b, p)
      /\ air' = [air EXCEPT ![s].step = "calls", ![s].calls = <<>>]
    BY <1>0 DEF PutStart
<1>2. PipelineTypeOK
    BY DEF PipelineInv
<1>3. /\ \A u \in Store : /\ air'[u].by = air[u].by
                          /\ air'[u].blob = air[u].blob
                          /\ u # s => air'[u] = air[u]
      /\ air'[s].step = "calls" /\ air'[s].calls = <<>>
      /\ air' \in [Store -> AirRec]
    <2>1. air \in [Store -> AirRec]
        BY <1>2 DEF PipelineTypeOK, AirRec
    <2>2. PICK a \in AirRec : a = air[s]
        BY <2>1
    <2>3. PICK c : c = [a EXCEPT !.step = "calls", !.calls = <<>>]
        OBVIOUS
    <2>4. /\ c \in AirRec
          /\ c.step = "calls" /\ c.by = a.by /\ c.blob = a.blob /\ c.calls = <<>>
        BY <2>2, <2>3, EmptyCalls DEF AirRec
    <2>5. air' = [air EXCEPT ![s] = c]
        BY <1>1, <2>1, <2>2, <2>3
    <2> QED  BY <2>1, <2>2, <2>4, <2>5
<1>4. b \in DOMAIN blobRows /\ b \notin DOMAIN puts
    BY <1>0, <1>1 DEF PipelineInv, BlobsInv
<1>5. p \in [calls : Seq(Nat), exited : BOOLEAN] /\ p.calls = air[s].calls /\ p.exited = FALSE
    BY <1>2 DEF PipelineTypeOK
<1> HIDE DEF p
<1>6. /\ DOMAIN puts' = DOMAIN puts \cup {b}
      /\ puts'[b] = p
      /\ \A c \in DOMAIN puts : puts'[c] = puts[c]
      /\ puts' = [c \in DOMAIN puts' |-> puts'[c]]
    BY <1>1, <1>4 DEF Put
<1>7. HashInv'
    BY <1>1, StepKeepsInv DEF PipelineInv
<1>8. PipelineTypeOK'
    <2>1. puts' \in [DOMAIN puts' -> [calls : Seq(Nat), exited : BOOLEAN]]
        BY <1>2, <1>5, <1>6 DEF PipelineTypeOK
    <2> QED  BY <1>1, <1>2, <1>3, <1>6, <2>1 DEF PipelineTypeOK, AirRec, threadVars, blobVars
<1>9. JobsInv' /\ FrontInv' /\ \A id, c : WaitsFor(id, c) => WaitsFor(id, c)'
    BY <1>1, ThreadsAlone DEF hashVars
<1>10. BlobsInv'
    <2>1. \A u \in Store : u # s /\ air[u].step # "free" => air[u].blob # b
        BY <1>0, <1>1 DEF PipelineInv, BlobsInv
    <2>2. \A u \in Store : air'[u].step = "put" \/ air'[u].calls # <<>> => u # s /\ air[u].step # "free"
        BY <1>1, <1>3 DEF PipelineInv, BlobsInv
    <2> QED  BY <1>0, <1>1, <1>3, <1>4, <1>6, <2>1, <2>2 DEF PipelineInv, BlobsInv, blobVars
<1>11. CallsInv'
    <2>1. \A u \in Store : /\ \A id \in Range(air'[u].calls) : WaitsFor(id, air[u].blob)'
                           /\ Distinct(air'[u].calls)
        BY <1>3, <1>9, EmptyCalls DEF PipelineInv, CallsInv
    <2>2. \A id \in Range(puts'[b].calls) : WaitsFor(id, b)'
        BY <1>0, <1>5, <1>6, <1>9 DEF PipelineInv, CallsInv
    <2>3. Distinct(puts'[b].calls)
        BY <1>5, <1>6 DEF PipelineInv, CallsInv
    <2>4. ASSUME NEW c \in DOMAIN puts'
          PROVE  (\A id \in Range(puts'[c].calls) : WaitsFor(id, c)') /\ Distinct(puts'[c].calls)
        BY <1>6, <1>9, <2>2, <2>3 DEF PipelineInv, CallsInv
    <2>5. \A id \in spawned' : WaitsFor(id, 0)'
        BY <1>1, <1>9 DEF PipelineInv, CallsInv
    <2>6. \A u \in Store : /\ \A id \in Range(store'[u].refs) : WaitsFor(id, store[u].blob)'
                           /\ Distinct(store'[u].refs)
        BY <1>1, <1>9 DEF PipelineInv, CallsInv
    <2> QED  BY <2>1, <2>4, <2>5, <2>6 DEF CallsInv
<1>12. PendingInv'
    <2>1. ASSUME NEW id, ToCall(id) PROVE ToCall(id)'
        BY <1>1, <1>3, <1>5, <1>6, <2>1 DEF ToCall
    <2> QED  BY <1>1, <2>1 DEF PipelineInv, PendingInv, threadVars, hashVars
<1>13. StoredInv'
    BY <1>1, <1>3, <1>5, <1>6 DEF PipelineInv, StoredInv, RefStored, hashVars, ReadyIds
<1>14. TurnInv'
    BY <1>1, <1>3 DEF PipelineInv, TurnInv, threadVars
<1>15. SyncInv'
    BY <1>1 DEF SyncInv
<1> QED  BY <1>7, <1>8, <1>9, <1>10, <1>11, <1>12, <1>13, <1>14, <1>15 DEF PipelineInv

\* The child of a put has stored its blob.
LEMMA PutExitsKeepsInv ==
    ASSUME PipelineInv, NEW b \in DOMAIN puts, PutExits(b)
    PROVE  PipelineInv'
<1>1. /\ UNCHANGED <<hashVars, threadVars, storeVars, blobVars, pass, spawned, turn, restarts>>
      /\ external' = external \cup {b}
      /\ puts' = [puts EXCEPT ![b].exited = TRUE]
    BY DEF PutExits
<1>2. PipelineTypeOK
    BY DEF PipelineInv
<1>3. /\ DOMAIN puts' = DOMAIN puts
      /\ \A c \in DOMAIN puts : puts'[c].calls = puts[c].calls
                                /\ (c # b => puts'[c].exited = puts[c].exited)
      /\ puts' \in [DOMAIN puts -> [calls : Seq(Nat), exited : BOOLEAN]]
    BY <1>1, <1>2 DEF PipelineTypeOK
<1>4. b \in DOMAIN blobRows /\ DOMAIN blobRows \subseteq 1..MaxBlob
    BY BlobIds DEF PipelineInv, BlobsInv
<1>5. HashInv'
    BY <1>1, StepKeepsInv DEF PipelineInv
<1>6. PipelineTypeOK'
    BY <1>1, <1>2, <1>3, <1>4 DEF PipelineTypeOK, threadVars, storeVars, blobVars
<1>7. JobsInv' /\ FrontInv' /\ \A id, c : WaitsFor(id, c) => WaitsFor(id, c)'
    BY <1>1, ThreadsAlone DEF hashVars
<1>8. BlobsInv'
    BY <1>1, <1>3, <1>4 DEF PipelineInv, BlobsInv, storeVars, blobVars
<1>9. CallsInv'
    BY <1>1, <1>3, <1>7 DEF PipelineInv, CallsInv, storeVars
<1>10. PendingInv'
    BY <1>1, <1>3 DEF PipelineInv, PendingInv, ToCall, threadVars, storeVars, hashVars
<1>11. StoredInv'
    BY <1>1, <1>3 DEF PipelineInv, StoredInv, RefStored, storeVars, hashVars, ReadyIds
<1>12. TurnInv'
    BY <1>1 DEF PipelineInv, TurnInv, threadVars, storeVars
<1>13. SyncInv'
    BY <1>1, <1>3 DEF PipelineInv, SyncInv, storeVars, blobVars
<1> QED  BY <1>5, <1>6, <1>7, <1>8, <1>9, <1>10, <1>11, <1>12, <1>13 DEF PipelineInv

\* try_flush forgets the puts in D, whose callbacks have all run.
LEMMA ForgetKeepsInv ==
    ASSUME PipelineInv, NEW D \in SUBSET DOMAIN puts,
           \A b \in D : puts[b].calls = <<>>,
           puts' = Drop(puts, D), pass' \subseteq DOMAIN puts \ D,
           UNCHANGED <<hashVars, threadVars, storeVars, blobVars, external, spawned, turn, restarts>>
    PROVE  PipelineInv'
<1>1. UNCHANGED <<hashVars, threadVars, storeVars, blobVars, external, spawned, turn, restarts>>
    OBVIOUS
<1>2. /\ DOMAIN puts' = DOMAIN puts \ D
      /\ \A b \in DOMAIN puts' : puts'[b] = puts[b]
      /\ puts' = [b \in DOMAIN puts' |-> puts'[b]]
    BY DEF Drop
<1>3. PipelineTypeOK
    BY DEF PipelineInv
<1>4. HashInv'
    BY <1>1, StepKeepsInv DEF PipelineInv
<1>5. PipelineTypeOK'
    <2>1. puts' \in [DOMAIN puts' -> [calls : Seq(Nat), exited : BOOLEAN]]
        BY <1>2, <1>3 DEF PipelineTypeOK
    <2> QED  BY <1>1, <1>2, <1>3, <2>1 DEF PipelineTypeOK, threadVars, storeVars, blobVars
<1>6. JobsInv' /\ FrontInv' /\ \A id, c : WaitsFor(id, c) => WaitsFor(id, c)'
    BY <1>1, ThreadsAlone DEF hashVars
<1>7. BlobsInv'
    BY <1>1, <1>2 DEF PipelineInv, BlobsInv, storeVars, blobVars
<1>8. CallsInv'
    BY <1>1, <1>2, <1>6 DEF PipelineInv, CallsInv, storeVars
<1>9. PendingInv'
    <2>1. ASSUME NEW id, ToCall(id) PROVE ToCall(id)'
        BY <1>1, <1>2, <2>1, EmptyCalls DEF ToCall, storeVars
    <2> QED  BY <1>1, <2>1 DEF PipelineInv, PendingInv, threadVars, hashVars
<1>10. StoredInv'
    BY <1>1, <1>2 DEF PipelineInv, StoredInv, RefStored, storeVars, hashVars, ReadyIds
<1>11. TurnInv'
    BY <1>1 DEF PipelineInv, TurnInv, threadVars, storeVars
<1>12. SyncInv'
    BY <1>1, <1>2 DEF PipelineInv, SyncInv, storeVars, blobVars
<1> QED  BY <1>4, <1>5, <1>6, <1>7, <1>8, <1>9, <1>10, <1>11, <1>12 DEF PipelineInv

\* try_flush polls the puts one by one.
LEMMA PollKeepsInv ==
    ASSUME PipelineInv,
           \/ \E s \in Store : PollPuts(s)
           \/ \E b \in pass : PollRunning(b) \/ ReapDone(b)
    PROVE  PipelineInv'
<1>1. pass \subseteq DOMAIN puts /\ puts = Drop(puts, {})
    BY DEF PipelineInv, PipelineTypeOK, Drop
<1>2. ASSUME NEW s \in Store, PollPuts(s) PROVE PipelineInv'
    <2>1. puts' = Drop(puts, {}) /\ pass' \subseteq DOMAIN puts \ {}
        BY <1>1, <1>2 DEF PollPuts
    <2> QED  BY <1>2, <2>1, ForgetKeepsInv DEF PollPuts
<1>3. ASSUME NEW b \in pass, PollRunning(b) PROVE PipelineInv'
    <2>1. puts' = Drop(puts, {}) /\ pass' \subseteq DOMAIN puts \ {}
        BY <1>1, <1>3 DEF PollRunning
    <2> QED  BY <1>3, <2>1, ForgetKeepsInv DEF PollRunning
<1>4. ASSUME NEW b \in pass, ReapDone(b) PROVE PipelineInv'
    <2>1. /\ {b} \in SUBSET DOMAIN puts /\ \A c \in {b} : puts[c].calls = <<>>
          /\ puts' = Drop(puts, {b}) /\ pass' \subseteq DOMAIN puts \ {b}
        BY <1>1, <1>4 DEF ReapDone
    <2> QED  BY <1>4, <2>1, ForgetKeepsInv DEF ReapDone
<1> QED  BY <1>2, <1>3, <1>4

-----------------------------------------------------------------------------
\* Pushing a blob out.

\* A new id replaces the blob's, which both tables now hold, and its callbacks
\* go along: no other store, put or table had that blob.
LEMMA InAirKeepsInv ==
    ASSUME PipelineInv, NEW s \in Store, NEW who \in Thread \cup {Main}, InAir(s, who),
           IF who = Main
           THEN turn \in DOMAIN Stores /\ s = Stores[turn]
           ELSE job[who].at = "store" /\ StoreOf[who] = s /\ job[who].hash \notin EmptyHash
    PROVE  PipelineInv'
<1>0. PICK b : b = store[s].blob
    OBVIOUS
<1>1. /\ UNCHANGED <<rows, queue, idCounter, autoFlush, threadVars, backendVars, spawned,
                     turn, restarts>>
      /\ disk' = rows /\ air[s].step = "free"
      /\ nextBlob < MaxBlob /\ nextBlob' = nextBlob + 1
      /\ store' = [store EXCEPT ![s] = [blob |-> nextBlob + 1, refs |-> <<>>]]
      /\ air' = [air EXCEPT ![s] = [step |-> "put", by |-> who, blob |-> b,
                                    calls |-> store[s].refs]]
      /\ blobRows' = Put(blobRows, b, "InProgress") /\ blobDisk' = blobRows'
    BY <1>0 DEF InAir, Flush
<1>2. PipelineTypeOK
    BY DEF PipelineInv
<1>3. MaxBlob \in Nat /\ nextBlob \in Nat /\ DOMAIN blobRows \subseteq 1..nextBlob
    BY BlobIds DEF PipelineInv, BlobsInv
<1>4. b \in 1..nextBlob /\ b \notin DOMAIN blobRows
    BY <1>0 DEF PipelineInv, BlobsInv
<1>5. /\ \A u \in Store : u # s => air'[u] = air[u] /\ store'[u] = store[u]
      /\ air'[s].step = "put" /\ air'[s].by = who /\ air'[s].blob = b
      /\ air'[s].calls = store[s].refs
      /\ store'[s].blob = nextBlob + 1 /\ store'[s].refs = <<>>
    BY <1>1, <1>2 DEF PipelineTypeOK
<1>6. /\ DOMAIN blobRows' = DOMAIN blobRows \cup {b}
      /\ blobRows'[b] = "InProgress"
      /\ \A c \in DOMAIN blobRows : blobRows'[c] = blobRows[c]
      /\ blobRows' = [c \in DOMAIN blobRows' |-> blobRows'[c]]
    BY <1>1, <1>4 DEF Put
<1>7. HashInv'
    BY FlushKeepsInv DEF PipelineInv, InAir
<1>8. PipelineTypeOK'
    <2>1. store' \in [Store -> [blob : 1..MaxBlob, refs : Seq(Nat)]]
        BY <1>1, <1>2, <1>3, EmptyCalls DEF PipelineTypeOK
    <2>2. air' \in [Store -> [step : {"free", "put", "calls", "append"},
                              by : Thread \cup {Main}, blob : 0..MaxBlob, calls : Seq(Nat)]]
        BY <1>1, <1>2, <1>3, <1>4 DEF PipelineTypeOK
    <2>3. blobRows' \in [DOMAIN blobRows' -> {"InProgress", "Done"}]
        BY <1>2, <1>6 DEF PipelineTypeOK
    <2>4. nextBlob' \in 1..MaxBlob
        BY <1>1, <1>3
    <2>5. \A u \in Store : Len(store'[u].refs) <= BlobCap
        <3> TAKE u \in Store
        <3>1. Len(<<>>) = 0 /\ 0 <= BlobCap
            BY ConstantFacts
        <3>2. CASE u = s
            <4>1. store'[u].refs = <<>>
                BY <1>5, <3>2
            <4> QED  BY <3>1, <4>1
        <3>3. CASE u # s
            BY <1>2, <1>5, <3>3 DEF PipelineTypeOK
        <3> QED  BY <3>2, <3>3
    <2> QED  BY <1>1, <1>2, <2>1, <2>2, <2>3, <2>4, <2>5 DEF PipelineTypeOK, threadVars, backendVars
<1>9. JobsInv' /\ FrontInv' /\ \A id, c : WaitsFor(id, c) => WaitsFor(id, c)'
    BY <1>1, ThreadsAlone
<1>10. BlobsInv'
    <2>1. /\ DOMAIN blobRows' = DOMAIN blobDisk' /\ DOMAIN blobRows' \subseteq 1..nextBlob'
          /\ DOMAIN puts' \subseteq DOMAIN blobRows'
          /\ external' \subseteq DOMAIN blobRows'
        BY <1>1, <1>3, <1>4, <1>6 DEF PipelineInv, BlobsInv, backendVars
    <2>2. \A u \in Store : store'[u].blob \in 1..nextBlob' /\ store'[u].blob \notin DOMAIN blobRows'
        BY <1>0, <1>1, <1>3, <1>4, <1>5, <1>6 DEF PipelineInv, BlobsInv
    <2>3. \A u \in Store :
            /\ air'[u].step # "free" => air'[u].blob \in DOMAIN blobRows'
            /\ air'[u].step \in {"free", "append"} => air'[u].calls = <<>>
            /\ air'[u].step = "put" \/ air'[u].calls # <<>> => air'[u].blob \notin DOMAIN puts'
        BY <1>1, <1>4, <1>5, <1>6 DEF PipelineInv, BlobsInv, backendVars
    <2>4. \A u, v \in Store : store'[u].blob = store'[v].blob => u = v
        BY <1>3, <1>5 DEF PipelineInv, BlobsInv
    <2>5. \A u, v \in Store : air'[u].step # "free" /\ air'[v].step # "free"
                              /\ air'[u].blob = air'[v].blob => u = v
        BY <1>4, <1>5 DEF PipelineInv, BlobsInv
    <2> QED  BY <2>1, <2>2, <2>3, <2>4, <2>5 DEF BlobsInv
<1>11. CallsInv'
    <2>1. \A u \in Store : /\ \A id \in Range(store'[u].refs) : WaitsFor(id, store[u].blob)'
                           /\ Distinct(store'[u].refs)
        BY <1>5, <1>9, EmptyCalls DEF PipelineInv, CallsInv
    <2>2. \A u \in Store : /\ \A id \in Range(air'[u].calls) : WaitsFor(id, air[u].blob)'
                           /\ Distinct(air'[u].calls)
        BY <1>0, <1>5, <1>9 DEF PipelineInv, CallsInv
    <2>3. \A c \in DOMAIN puts' : /\ \A id \in Range(puts'[c].calls) : WaitsFor(id, c)'
                                  /\ Distinct(puts'[c].calls)
        BY <1>1, <1>9 DEF PipelineInv, CallsInv, backendVars
    <2>4. \A id \in spawned' : WaitsFor(id, 0)'
        BY <1>1, <1>9 DEF PipelineInv, CallsInv
    <2> QED  BY <2>1, <2>2, <2>3, <2>4 DEF CallsInv
<1>12. PendingInv'
    <2>1. ASSUME NEW id, ToCall(id) PROVE ToCall(id)'
        <3>1. \A u \in Store : id \notin Range(air[u].calls) \/ u # s
            BY <1>1, EmptyCalls DEF PipelineInv, BlobsInv
        <3> QED  BY <1>1, <1>5, <2>1, <3>1 DEF ToCall, backendVars
    <2> QED  BY <1>1, <2>1 DEF PipelineInv, PendingInv, threadVars
<1>13. StoredInv'
    BY <1>1, <1>5 DEF PipelineInv, StoredInv, RefStored, backendVars, ReadyIds
<1>14. TurnInv'
    <2>1. \A k \in DOMAIN Stores : Stores[k] \in Store
        BY DEF Store
    <2> QED  BY <1>1, <1>5, <2>1 DEF PipelineInv, TurnInv, threadVars
<1>15. SyncInv'
    BY <1>1, <1>5, <1>6 DEF PipelineInv, SyncInv, backendVars
<1> QED  BY <1>7, <1>8, <1>9, <1>10, <1>11, <1>12, <1>13, <1>14, <1>15 DEF PipelineInv

\* commit_done tags a blob whose callbacks have all been called or taken over.
LEMMA CommitDoneKeepsInv ==
    ASSUME PipelineInv, NEW s \in Store, CommitDone(s)
    PROVE  PipelineInv'
<1>0. PICK b : b = air[s].blob
    OBVIOUS
<1>1. /\ UNCHANGED <<rows, queue, idCounter, autoFlush, threadVars, store, nextBlob, backendVars,
                     spawned, restarts>>
      /\ disk' = rows
      /\ air[s].step = "calls" /\ air[s].calls = <<>>
      /\ blobRows' = [blobRows EXCEPT ![b] = "Done"] /\ blobDisk' = blobRows'
      /\ IF air[s].by = Main
         THEN air' = [air EXCEPT ![s] = Unlocked] /\ turn' = turn + 1
         ELSE air' = [air EXCEPT ![s].step = "append"] /\ turn' = turn
    BY <1>0 DEF CommitDone, Flush
<1>2. PipelineTypeOK
    BY DEF PipelineInv
<1>3. b \in DOMAIN blobRows
    BY <1>0, <1>1 DEF PipelineInv, BlobsInv
<1>4. /\ \A u \in Store : u # s => air'[u] = air[u]
      /\ air'[s].calls = <<>> /\ air'[s].step \in {"free", "append"}
      /\ air'[s].step = "append" => /\ air'[s].blob = b /\ air'[s].by = air[s].by
                                    /\ air[s].by # Main
      /\ air' \in [Store -> [step : {"free", "put", "calls", "append"},
                             by : Thread \cup {Main}, blob : 0..MaxBlob, calls : Seq(Nat)]]
    <2>1. CASE air[s].by = Main
        <3>1. air' = [air EXCEPT ![s] = Unlocked]
            BY <1>1, <2>1
        <3> QED  BY <1>2, <3>1, ConstantFacts DEF PipelineTypeOK
    <2>2. CASE air[s].by # Main
        <3>1. air' = [air EXCEPT ![s].step = "append"]
            BY <1>1, <2>2
        <3> QED  BY <1>0, <1>1, <1>2, <2>2, <3>1, AirMovesOn DEF AirRec
    <2> QED  BY <2>1, <2>2
<1>5. /\ DOMAIN blobRows' = DOMAIN blobRows
      /\ blobRows'[b] = "Done"
      /\ \A c \in DOMAIN blobRows : c # b => blobRows'[c] = blobRows[c]
      /\ blobRows' \in [DOMAIN blobRows -> {"InProgress", "Done"}]
    BY <1>1, <1>2, <1>3 DEF PipelineTypeOK
<1>6. HashInv'
    BY FlushKeepsInv DEF PipelineInv, CommitDone
<1>7. /\ air[s].by = Main => turn \in DOMAIN Stores /\ s = Stores[turn]
      /\ \A k \in DOMAIN Stores : k \in Nat /\ 1 <= k /\ k <= Len(Stores)
      /\ Len(Stores) \in Nat /\ turn \in Nat
    <2>1. air[s].by = Main => turn \in DOMAIN Stores /\ s = Stores[turn]
        BY <1>1 DEF PipelineInv, TurnInv
    <2> QED  BY <1>2, <2>1, ConstantFacts DEF PipelineTypeOK
<1>8. PipelineTypeOK'
    <2>1. turn' \in 0..(Len(Stores) + 1)
        BY <1>1, <1>2, <1>7 DEF PipelineTypeOK
    <2> QED  BY <1>1, <1>2, <1>4, <1>5, <2>1 DEF PipelineTypeOK, threadVars, backendVars
<1>9. JobsInv' /\ FrontInv' /\ \A id, c : WaitsFor(id, c) => WaitsFor(id, c)'
    BY <1>1, ThreadsAlone
<1>10. BlobsInv'
    <2>1. \A u \in Store :
            /\ air'[u].step # "free" => air'[u].blob = air[u].blob /\ air[u].step # "free"
            /\ air'[u].step \in {"free", "append"} => air'[u].calls = <<>>
            /\ air'[u].step = "put" \/ air'[u].calls # <<>> => air'[u] = air[u]
        BY <1>0, <1>1, <1>4 DEF PipelineInv, BlobsInv
    <2> QED  BY <1>1, <1>5, <2>1 DEF PipelineInv, BlobsInv, backendVars
<1>11. CallsInv'
    <2>1. \A u \in Store : /\ \A id \in Range(air'[u].calls) : WaitsFor(id, air[u].blob)'
                           /\ Distinct(air'[u].calls)
        BY <1>4, <1>9, EmptyCalls DEF PipelineInv, CallsInv
    <2> QED  BY <1>1, <1>9, <2>1 DEF PipelineInv, CallsInv, backendVars
<1>12. PendingInv'
    <2>1. ASSUME NEW id, ToCall(id) PROVE ToCall(id)'
        BY <1>1, <1>4, <2>1, EmptyCalls DEF ToCall, backendVars
    <2> QED  BY <1>1, <2>1 DEF PipelineInv, PendingInv, threadVars
<1>13. StoredInv'
    BY <1>1, <1>4 DEF PipelineInv, StoredInv, RefStored, backendVars, ReadyIds
<1>14. TurnInv'
    <2>1. CASE air[s].by = Main
        <3>1. store[s].refs = <<>> /\ turn # 0
            BY <1>1, <1>7, <2>1 DEF PipelineInv, TurnInv
        <3>2. \A u \in Store : u # s /\ air[u].by = Main => air[u].step = "free"
            BY <1>7, <2>1 DEF PipelineInv, TurnInv
        <3>3. air'[s].step = "free"
            BY <1>4, <2>1
        <3>4. \A k \in DOMAIN Stores : k < turn' => k < turn \/ k = turn
            BY <1>1, <1>7, <2>1
        <3>5. turn' = turn + 1 /\ turn + 1 # 0
            BY <1>1, <1>7, <2>1
        <3>6. \A k \in DOMAIN Stores : k < turn' => store'[Stores[k]].refs = <<>>
            BY <1>1, <1>7, <2>1, <3>1, <3>4 DEF PipelineInv, TurnInv
        <3>7. \A u \in Store : air'[u].step # "free" => u # s /\ air'[u] = air[u] /\ air[u].by # Main
            BY <1>4, <3>2, <3>3
        <3> QED  BY <1>1, <3>1, <3>6, <3>7 DEF PipelineInv, TurnInv, threadVars
    <2>2. CASE air[s].by # Main
        <3>1. turn' = turn
            BY <1>1, <2>2
        <3>2. \A u \in Store : air'[u].step # "free" => air[u].step # "free" /\ air'[u].by = air[u].by
            BY <1>1, <1>4
        <3> QED  BY <1>1, <3>1, <3>2 DEF PipelineInv, TurnInv, threadVars
    <2> QED  BY <2>1, <2>2
<1>15. SyncInv'
    <2>1. ASSUME ~Async PROVE b \in external
        BY <1>0, <1>1, <2>1 DEF PipelineInv, SyncInv
    <2>2. ASSUME ~Async, NEW u \in Store, air'[u].step \in {"calls", "append"}
          PROVE  air'[u].blob \in external
        BY <1>4, <2>1, <2>2 DEF PipelineInv, SyncInv
    <2> QED  BY <1>1, <1>5, <2>1, <2>2 DEF PipelineInv, SyncInv, backendVars
<1> QED  BY <1>6, <1>8, <1>9, <1>10, <1>11, <1>12, <1>13, <1>14, <1>15 DEF PipelineInv

\* data_flush starts when the threads are done, passes a store that has nothing
\* to push out, and returns.
LEMMA DataFlushKeepsInv ==
    ASSUME PipelineInv, StartDataFlush \/ FlushEmptyStore \/ DataFlushReturns
    PROVE  PipelineInv'
<1>1. /\ UNCHANGED <<rows, queue, idCounter, autoFlush, threadVars, storeVars, blobRows, backendVars,
                     spawned, restarts>>
      /\ disk' \in {disk, rows} /\ blobDisk' \in {blobDisk, blobRows}
    BY DEF StartDataFlush, FlushEmptyStore, DataFlushReturns, Flush, hashVars, blobVars
<1>2. PipelineTypeOK
    BY DEF PipelineInv
<1>3. HashInv'
    <2>1. CASE FlushEmptyStore
        BY <2>1, FlushKeepsInv DEF PipelineInv, FlushEmptyStore
    <2>2. CASE StartDataFlush \/ DataFlushReturns
        BY <2>2, StepKeepsInv DEF PipelineInv, StartDataFlush, DataFlushReturns
    <2> QED  BY <2>1, <2>2
<1>4. /\ turn' \in 0..(Len(Stores) + 1)
      /\ \/ turn = 0 /\ turn' = 1 /\ \A t \in Thread : job[t] = Idle
         \/ turn \in DOMAIN Stores /\ turn' = turn + 1 /\ store[Stores[turn]].refs = <<>>
                                   /\ air[Stores[turn]].step = "free"
         \/ turn' = 0 /\ turn \notin DOMAIN Stores
    BY <1>2, ConstantFacts
       DEF PipelineTypeOK, StartDataFlush, FlushEmptyStore, DataFlushReturns, Flushed
<1>5. PipelineTypeOK'
    BY <1>1, <1>2, <1>4 DEF PipelineTypeOK, threadVars, storeVars, backendVars
<1>6. JobsInv' /\ FrontInv' /\ \A id, c : WaitsFor(id, c) => WaitsFor(id, c)'
    BY <1>1, ThreadsAlone
<1>7. BlobsInv'
    BY <1>1 DEF PipelineInv, BlobsInv, storeVars, backendVars
<1>8. CallsInv'
    BY <1>1, <1>6 DEF PipelineInv, CallsInv, storeVars, backendVars
<1>9. PendingInv'
    BY <1>1 DEF PipelineInv, PendingInv, ToCall, threadVars, storeVars, backendVars
<1>10. StoredInv'
    BY <1>1 DEF PipelineInv, StoredInv, RefStored, storeVars, backendVars, ReadyIds
<1>11. TurnInv'
    <2>1. CASE turn = 0 /\ turn' = 1 /\ \A t \in Thread : job[t] = Idle
        <3>1. \A t \in Thread : job[t].at = "idle"
            BY <2>1 DEF Idle
        <3>2. turn \notin DOMAIN Stores /\ \A k \in DOMAIN Stores : ~(k < 1)
            BY <2>1, ConstantFacts
        <3>3. \A s \in Store : air[s].by \in Thread \cup {Main}
            BY <1>2 DEF PipelineTypeOK
        <3>4. \A s \in Store : air[s].step = "free"
            BY <3>1, <3>2, <3>3 DEF PipelineInv, TurnInv
        <3> QED  BY <1>1, <2>1, <3>1, <3>2, <3>4 DEF TurnInv, threadVars, storeVars
    <2>2. CASE turn \in DOMAIN Stores /\ turn' = turn + 1 /\ store[Stores[turn]].refs = <<>>
               /\ air[Stores[turn]].step = "free"
        <3>1. turn # 0 /\ \A k \in DOMAIN Stores : k < turn + 1 => k < turn \/ k = turn
            BY <2>2, ConstantFacts
        <3>2. \A k \in DOMAIN Stores : k < turn' => store'[Stores[k]].refs = <<>>
            BY <1>1, <2>2, <3>1 DEF PipelineInv, TurnInv, storeVars
        <3>3. \A s \in Store : air[s].step # "free" => air[s].by # Main
            BY <2>2 DEF PipelineInv, TurnInv
        <3> QED  BY <1>1, <3>1, <3>2, <3>3 DEF PipelineInv, TurnInv, threadVars, storeVars
    <2>3. CASE turn' = 0 /\ turn \notin DOMAIN Stores
        <3>1. \A k \in DOMAIN Stores : ~(k < 0)
            BY ConstantFacts
        <3> QED  BY <1>1, <2>3, <3>1 DEF PipelineInv, TurnInv, threadVars, storeVars
    <2> QED  BY <1>4, <2>1, <2>2, <2>3
<1>12. SyncInv'
    BY <1>1 DEF PipelineInv, SyncInv, storeVars, backendVars, BlobsInv
<1> QED  BY <1>3, <1>5, <1>6, <1>7, <1>8, <1>9, <1>10, <1>11, <1>12 DEF PipelineInv

-----------------------------------------------------------------------------
\* The threads in insert_chunk.

\* A step of thread t does not concern the callbacks whose m it does not hold.
LEMMA OthersWait ==
    ASSUME PipelineTypeOK, NEW t \in Thread, NEW j, job' = [job EXCEPT ![t] = j],
           NEW id, NEW b, WaitsFor(id, b),
           id \in DOMAIN queue', queue'[id] = queue[id],
           ~Holds(t, id), j.at \in {"store", "update"} => j.id # id
    PROVE  WaitsFor(id, b)'
<1>1. job'[t] = j /\ \A u \in Thread : u # t => job'[u] = job[u]
    BY DEF PipelineTypeOK
<1>2. \A u \in Thread : Holds(u, id)' <=> Holds(u, id)
    BY <1>1 DEF Holds
<1>3. \A u \in Thread : Holds(u, id)' => job'[u] = job[u]
    BY <1>1, <1>2
<1> QED  BY <1>2, <1>3 DEF WaitsFor

\* A hash is known exactly if the index finds it.
LEMMA KnownExists ==
    ASSUME HashInv, NEW h
    PROVE  Known(h) <=> HashExists(h)
BY DEF Known, HashExists, RowIds, QueueIds, HashInv, QueueMirrorsTable

\* The thread reserves its chunk: the new entry is this thread's to complete.
LEMMA ReserveOkKeepsInv ==
    ASSUME PipelineInv, NEW t \in Thread, NEW h \in Hash, NEW fired \in BOOLEAN,
           ReserveOk(t, h, fired)
    PROVE  PipelineInv'
<1>0. PICK id : id = idCounter + 1
    OBVIOUS
<1> DEFINE j == [at |-> "store", hash |-> h, id |-> id, ref |-> NoRef]
<1>1. /\ UNCHANGED <<inserted, storeVars, blobRows, backendVars, spawned, turn, restarts>>
      /\ turn = 0 /\ job[t] = Idle
      /\ job' = [job EXCEPT ![t] = j]
      /\ disk' \in {disk, rows} /\ blobDisk' \in {blobDisk, blobRows}
    BY <1>0 DEF ReserveOk, MayInsert, Reserve, MaybeFlush, SaveBlobsIf
<1>2. PipelineTypeOK /\ HashInv
    BY DEF PipelineInv
<1>3. /\ id \in Nat /\ id \notin DOMAIN rows /\ DOMAIN queue \subseteq DOMAIN rows
      /\ \A i \in DOMAIN queue : i \in Nat
    BY <1>0, <1>2 DEF HashInv, HashTypeOK, QueueMirrorsTable, IsTable
<1>4. /\ DOMAIN rows' = DOMAIN rows \cup {id} /\ DOMAIN queue' = DOMAIN queue \cup {id}
      /\ rows'[id].ready = FALSE
      /\ queue'[id].hash = h /\ queue'[id].pref = NoRef /\ queue'[id].status = "Pending"
      /\ \A i \in DOMAIN rows : rows'[i] = rows[i]
      /\ \A i \in DOMAIN queue : queue'[i] = queue[i]
    BY <1>0, <1>3 DEF ReserveOk, Reserve, Put
<1>5. j.at = "store" /\ j.hash = h /\ j.id = id
    OBVIOUS
<1>6. j \in [at : {"idle", "store", "update", "piggyback"},
             hash : Hash \cup {NoRef}, id : Nat, ref : PRef \cup {NoRef}]
    BY <1>3
<1> HIDE DEF j
<1>7. job'[t] = j /\ \A u \in Thread : u # t => job'[u] = job[u]
    BY <1>1, <1>2 DEF PipelineTypeOK
<1>8. job[t].at = "idle" /\ \A i : ~Holds(t, i)
    BY <1>1 DEF Idle, Holds
<1>9. HashInv'
    BY <1>2, ReserveKeepsInv DEF ReserveOk
<1>10. PipelineTypeOK'
    <2>1. job' \in [Thread -> [at : {"idle", "store", "update", "piggyback"},
                               hash : Hash \cup {NoRef}, id : Nat, ref : PRef \cup {NoRef}]]
        BY <1>1, <1>2, <1>6 DEF PipelineTypeOK
    <2> QED  BY <1>1, <1>2, <2>1 DEF PipelineTypeOK, storeVars, backendVars
<1>11. JobsInv'
    <2>1. \A k : Known(k) => Known(k)'
        BY <1>4 DEF Known
    <2>2. \A u \in Thread : u # t => \A i : Holds(u, i)' <=> Holds(u, i)
        BY <1>7 DEF Holds
    <2>3. \A u \in Thread : \A i : Holds(u, i) => i \in DOMAIN queue
        BY DEF Holds, PipelineInv, JobsInv
    <2>4. \A u \in Thread, v \in Thread : Holds(u, job[v].id)' /\ Holds(v, job[v].id)' => u = v
        <3> SUFFICES ASSUME NEW u \in Thread, NEW v \in Thread, NEW i,
                            Holds(u, i)', Holds(v, i)', i = job'[v].id
                     PROVE  u = v
            OBVIOUS
        <3>1. CASE i = id
            BY <1>3, <2>2, <2>3, <3>1
        <3>2. CASE i # id
            <4>1. u # t /\ v # t
                BY <1>5, <1>7, <3>2 DEF Holds
            <4> QED  BY <1>7, <2>2, <4>1 DEF PipelineInv, JobsInv
        <3> QED  BY <3>1, <3>2
    <2>5. \A u \in Thread :
            /\ job'[u].at # "idle" => job'[u].hash \in Hash
            /\ job'[u].at = "piggyback" => Known(job[u].hash)'
            /\ job'[u].at = "update" => job'[u].ref # NoRef
            /\ \A k \in inserted'[u] : Known(k)'
        BY <1>1, <1>5, <1>7, <2>1 DEF PipelineInv, JobsInv
    <2>6. \A u \in Thread : job'[u].at \in {"store", "update"} =>
            /\ job'[u].id \in DOMAIN queue'
            /\ queue'[job'[u].id].hash = job'[u].hash
            /\ queue'[job'[u].id].status = "Pending"
            /\ queue'[job'[u].id].pref = NoRef
        BY <1>4, <1>5, <1>7 DEF PipelineInv, JobsInv
    <2> QED  BY <2>4, <2>5, <2>6 DEF JobsInv
<1>12. ASSUME NEW i, NEW b, WaitsFor(i, b) PROVE WaitsFor(i, b)'
    <2>1. i \in DOMAIN queue /\ i # id
        BY <1>3, <1>12 DEF WaitsFor
    <2> QED  BY <1>1, <1>2, <1>4, <1>5, <1>8, <1>12, <2>1, OthersWait
<1>13. BlobsInv'
    BY <1>1 DEF PipelineInv, BlobsInv, storeVars, backendVars
<1>14. CallsInv'
    BY <1>1, <1>12 DEF PipelineInv, CallsInv, storeVars, backendVars
<1>15. PendingInv'
    <2> SUFFICES ASSUME NEW i \in DOMAIN queue', queue'[i].status = "Pending"
                 PROVE  ToCall(i)' \/ \E u \in Thread : job'[u].at = "store" /\ job'[u].id = i
        BY DEF PendingInv
    <2>1. CASE i = id
        BY <1>5, <1>7, <2>1
    <2>2. CASE i # id
        <3>1. ToCall(i) \/ \E u \in Thread : job[u].at = "store" /\ job[u].id = i
            BY <1>4, <2>2 DEF PipelineInv, PendingInv
        <3>2. ToCall(i) => ToCall(i)'
            BY <1>1 DEF ToCall, storeVars, backendVars
        <3> QED  BY <1>7, <1>8, <3>1, <3>2
    <2> QED  BY <2>1, <2>2
<1>16. FrontInv'
    <2> SUFFICES ASSUME NEW i \in DOMAIN queue'
                 PROVE  \E k \in DOMAIN queue' : k <= i /\ queue'[k].status = "Pending"
        BY DEF FrontInv
    <2>1. CASE i = id
        BY <1>3, <1>4, <2>1
    <2>2. CASE i # id
        BY <1>4, <2>2 DEF PipelineInv, FrontInv
    <2> QED  BY <2>1, <2>2
<1>17. StoredInv'
    <2>1. ReadyIds(rows') = ReadyIds(rows) /\ \A i \in ReadyIds(rows) : rows'[i] = rows[i]
        BY <1>3, <1>4 DEF ReadyIds
    <2>2. \A i \in DOMAIN queue' : queue'[i].status = "Ready" =>
            i \in DOMAIN queue /\ queue'[i] = queue[i]
        BY <1>4
    <2>3. \A i \in ReadyIds(disk') : RefStored(disk'[i].hash, disk'[i].pref)
        BY <1>1 DEF PipelineInv, StoredInv
    <2> QED  BY <1>1, <2>1, <2>2, <2>3 DEF PipelineInv, StoredInv, RefStored, storeVars, backendVars
<1>18. TurnInv'
    <2>1. \A s \in Store : air[s].step # "free" => air[s].by # t
        BY <1>8, ConstantFacts DEF PipelineInv, TurnInv
    <2>2. \A s \in Store : air[s].by \in Thread \cup {Main}
        BY <1>2 DEF PipelineTypeOK
    <2> QED  BY <1>1, <1>7, <2>1, <2>2 DEF PipelineInv, TurnInv, storeVars
<1>19. SyncInv'
    BY <1>1 DEF PipelineInv, SyncInv, storeVars, backendVars
<1> QED  BY <1>9, <1>10, <1>11, <1>13, <1>14, <1>15, <1>16, <1>17, <1>18, <1>19 DEF PipelineInv

\* The record of a thread in insert_chunk.
JobRec == [at : {"idle", "store", "update", "piggyback"},
           hash : Hash \cup {NoRef}, id : Nat, ref : PRef \cup {NoRef}]

\* Thread t moves on within insert_chunk, or into or out of it, with the
\* reservation it has, if it has one.
LEMMA JobsKept ==
    ASSUME PipelineInv, NEW t \in Thread, NEW j \in JobRec, job' = [job EXCEPT ![t] = j],
           rows' = rows, DOMAIN queue' = DOMAIN queue,
           \A i \in DOMAIN queue : ~Holds(t, i) => queue'[i] = queue[i],
           j.at # "idle" => j.hash \in Hash,
           j.at = "piggyback" => Known(j.hash),
           j.at \in {"store", "update"} =>
               /\ j.ref # NoRef /\ queue' = queue
               /\ job[t].at = "store" /\ j.id = job[t].id /\ j.hash = job[t].hash,
           \A u \in Thread : \A h \in inserted'[u] : Known(h)
    PROVE  JobsInv'
<1>1. job'[t] = j /\ \A u \in Thread : u # t => job'[u] = job[u]
    BY DEF PipelineInv, PipelineTypeOK
<1>2. \A h : Known(h) <=> Known(h)'
    BY DEF Known
<1>3. \A u \in Thread : \A i : Holds(u, i)' => Holds(u, i)
    BY <1>1 DEF Holds
<1>4. \A u, v \in Thread : Holds(u, job[v].id)' /\ Holds(v, job[v].id)' => u = v
    <2> SUFFICES ASSUME NEW u \in Thread, NEW v \in Thread, NEW i, i = job'[v].id,
                        Holds(u, i)', Holds(v, i)'
                 PROVE  u = v
        OBVIOUS
    <2>1. Holds(u, i) /\ Holds(v, i) /\ i = job[v].id
        BY <1>3 DEF Holds
    <2> QED  BY <2>1 DEF PipelineInv, JobsInv
<1>5. ASSUME NEW u \in Thread
      PROVE  /\ job'[u].at # "idle" => job'[u].hash \in Hash
             /\ job'[u].at = "piggyback" => Known(job[u].hash)'
             /\ job'[u].at = "update" => job'[u].ref # NoRef
             /\ \A h \in inserted'[u] : Known(h)'
    BY <1>1, <1>2 DEF PipelineInv, JobsInv
<1>6. ASSUME NEW u \in Thread, job'[u].at \in {"store", "update"}
      PROVE  /\ job'[u].id \in DOMAIN queue'
             /\ queue'[job'[u].id].hash = job'[u].hash
             /\ queue'[job'[u].id].status = "Pending"
             /\ queue'[job'[u].id].pref = NoRef
    <2>1. /\ job[u].at \in {"store", "update"}
          /\ job'[u].id = job[u].id /\ job'[u].hash = job[u].hash
        BY <1>1, <1>6
    <2>2. u # t => ~Holds(t, job[u].id)
        BY <2>1 DEF PipelineInv, JobsInv, Holds
    <2>3. queue'[job[u].id] = queue[job[u].id]
        BY <1>1, <1>6, <2>1, <2>2 DEF PipelineInv, JobsInv
    <2> QED  BY <2>1, <2>3 DEF PipelineInv, JobsInv
<1> QED  BY <1>4, <1>5, <1>6 DEF JobsInv

\* A thread whose chunk is known waits, and returns when its reference is there.
LEMMA PiggybackKeepsInv ==
    ASSUME PipelineInv, NEW t \in Thread,
           (\E h \in Hash : HashKnown(t, h)) \/ Piggyback(t)
    PROVE  PipelineInv'
<1>1. /\ UNCHANGED <<hashVars, storeVars, blobVars, backendVars, spawned, turn, restarts>>
      /\ job[t].at \in {"idle", "piggyback"}
    BY DEF HashKnown, Piggyback, MayInsert, Idle
<1>2. PipelineTypeOK /\ HashInv
    BY DEF PipelineInv
<1>3. \E j \in JobRec :
        /\ job' = [job EXCEPT ![t] = j]
        /\ j.at \in {"idle", "piggyback"} /\ (j.at # "idle" => turn = 0)
        /\ j.at # "idle" => j.hash \in Hash /\ Known(j.hash)
        /\ inserted' \in [Thread -> SUBSET Hash]
        /\ \A u \in Thread : \A h \in inserted'[u] : Known(h)
    <2>1. ASSUME NEW h \in Hash, HashKnown(t, h)
          PROVE  \E j \in JobRec :
                    /\ job' = [job EXCEPT ![t] = j]
                    /\ j.at \in {"idle", "piggyback"} /\ (j.at # "idle" => turn = 0)
                    /\ j.at # "idle" => j.hash \in Hash /\ Known(j.hash)
        <3> DEFINE j == [at |-> "piggyback", hash |-> h, id |-> GetId(h), ref |-> NoRef]
        <3>1. job' = [job EXCEPT ![t] = j] /\ HashExists(h) /\ turn = 0
            BY <2>1 DEF HashKnown, MayInsert
        <3>2. GetId(h) \in DOMAIN rows
            BY <1>2, <3>1, LocatedRow
        <3>3. GetId(h) \in Nat
            BY <1>2, <3>2 DEF HashInv, HashTypeOK, IsTable
        <3>4. Known(h)
            BY <1>2, <3>1, KnownExists
        <3>5. j \in JobRec
            BY <3>3 DEF JobRec
        <3>6. j.at = "piggyback" /\ j.hash = h
            OBVIOUS
        <3> HIDE DEF j
        <3> QED  BY <3>1, <3>4, <3>5, <3>6
    <2>2. ASSUME NEW h \in Hash, HashKnown(t, h) PROVE inserted' = inserted
        BY <2>2 DEF HashKnown
    <2>3. ASSUME Piggyback(t)
          PROVE  /\ job' = [job EXCEPT ![t] = Idle]
                 /\ inserted' = [inserted EXCEPT ![t] = @ \cup {job[t].hash}]
                 /\ Known(job[t].hash) /\ job[t].hash \in Hash
        BY <2>3 DEF Piggyback, Return, PipelineInv, JobsInv
    <2>4. Idle \in JobRec /\ Idle.at = "idle"
        BY DEF JobRec, Idle
    <2>5. /\ inserted' \in [Thread -> SUBSET Hash]
          /\ \A u \in Thread : \A h \in inserted'[u] : Known(h)
        <3>1. CASE inserted' = inserted
            BY <1>2, <3>1 DEF PipelineInv, JobsInv, PipelineTypeOK
        <3>2. CASE Piggyback(t)
            <4>1. /\ inserted' \in [Thread -> SUBSET Hash]
                  /\ \A u \in Thread : inserted'[u] \subseteq inserted[u] \cup {job[t].hash}
                <5>1. /\ inserted' = [inserted EXCEPT ![t] = @ \cup {job[t].hash}]
                      /\ job[t].hash \in Hash
                    BY <2>3, <3>2
                <5>2. inserted \in [Thread -> SUBSET Hash]
                    BY <1>2 DEF PipelineTypeOK
                <5> QED  BY <5>1, <5>2
            <4> QED  BY <2>3, <3>2, <4>1 DEF PipelineInv, JobsInv
        <3> QED  BY <2>2, <3>1, <3>2
    <2> QED  BY <2>1, <2>3, <2>4, <2>5
<1>4. PICK j \in JobRec :
        /\ job' = [job EXCEPT ![t] = j]
        /\ j.at \in {"idle", "piggyback"} /\ (j.at # "idle" => turn = 0)
        /\ j.at # "idle" => j.hash \in Hash /\ Known(j.hash)
        /\ inserted' \in [Thread -> SUBSET Hash]
        /\ \A u \in Thread : \A h \in inserted'[u] : Known(h)
    BY <1>3
<1>5. job'[t] = j /\ \A u \in Thread : u # t => job'[u] = job[u]
    BY <1>2, <1>4 DEF PipelineTypeOK
<1>6. \A i : ~Holds(t, i)
    BY <1>1 DEF Holds
<1>7. HashInv'
    BY <1>1, <1>2, StepKeepsInv
<1>8. PipelineTypeOK'
    <2>1. job' \in [Thread -> JobRec]
        BY <1>2, <1>4 DEF PipelineTypeOK, JobRec
    <2> QED  BY <1>1, <1>2, <1>4, <2>1 DEF PipelineTypeOK, JobRec, storeVars, blobVars, backendVars
<1>9. JobsInv'
    BY <1>1, <1>4, JobsKept DEF hashVars
<1>10. ASSUME NEW i, NEW b, WaitsFor(i, b) PROVE WaitsFor(i, b)'
    <2>1. i \in DOMAIN queue /\ queue' = queue
        BY <1>1, <1>10 DEF WaitsFor, hashVars
    <2> QED  BY <1>2, <1>4, <1>6, <1>10, <2>1, OthersWait
<1>11. BlobsInv'
    BY <1>1 DEF PipelineInv, BlobsInv, storeVars, blobVars, backendVars
<1>12. CallsInv'
    BY <1>1, <1>10 DEF PipelineInv, CallsInv, storeVars, backendVars
<1>13. PendingInv'
    <2>1. ASSUME NEW i, ToCall(i) PROVE ToCall(i)'
        BY <1>1, <2>1 DEF ToCall, storeVars, backendVars
    <2> QED  BY <1>1, <1>5, <2>1 DEF PipelineInv, PendingInv, hashVars
<1>14. FrontInv' /\ StoredInv' /\ SyncInv'
    BY <1>1 DEF PipelineInv, FrontInv, StoredInv, SyncInv, RefStored, ReadyIds,
                hashVars, storeVars, blobVars, backendVars
<1>15. TurnInv'
    <2>1. \A s \in Store : air[s].step # "free" => air[s].by # t
        BY <1>1, ConstantFacts DEF PipelineInv, TurnInv
    <2>2. \A s \in Store : air[s].by \in Thread \cup {Main}
        BY <1>2 DEF PipelineTypeOK
    <2> QED  BY <1>1, <1>4, <1>5, <2>1, <2>2 DEF PipelineInv, TurnInv, storeVars
<1> QED  BY <1>7, <1>8, <1>9, <1>11, <1>12, <1>13, <1>14, <1>15 DEF PipelineInv

\* blob_store.store has taken the chunk of thread t: its callback waits where
\* the reference says, and nobody else's is disturbed.
LEMMA StoredWaits ==
    ASSUME PipelineInv, NEW t \in Thread, NEW b \in PRef,
           job[t].at = "store", job[t].hash \in EmptyHash <=> b = 0,
           job' = [job EXCEPT ![t].at = "update", ![t].ref = b],
           UNCHANGED <<hashVars, inserted>>
    PROVE  /\ JobsInv' /\ FrontInv'
           /\ job' \in [Thread -> JobRec]
           /\ job'[t].at = "update" /\ job'[t].id = job[t].id
           /\ \A u \in Thread : u # t => job'[u] = job[u]
           /\ job[t].id \in Nat
           /\ WaitsFor(job[t].id, b)'
           /\ \A i, c : WaitsFor(i, c) => i # job[t].id /\ WaitsFor(i, c)'
<1> DEFINE j == [job[t] EXCEPT !.at = "update", !.ref = b]
<1>1. job[t] \in JobRec /\ PipelineTypeOK
    BY DEF PipelineInv, PipelineTypeOK, JobRec
<1>2. j \in JobRec /\ j.at = "update" /\ j.ref = b /\ j.id = job[t].id /\ j.hash = job[t].hash
    BY <1>1 DEF JobRec
<1>3. job' = [job EXCEPT ![t] = j]
    BY <1>1 DEF PipelineTypeOK, JobRec
<1> HIDE DEF j
<1>4. job'[t] = j /\ \A u \in Thread : u # t => job'[u] = job[u]
    BY <1>1, <1>3 DEF PipelineTypeOK
<1>5. JobsInv'
    <2>1. b # NoRef
        BY RefAssumption
    <2>2. j.hash \in Hash /\ \A u \in Thread : \A h \in inserted'[u] : Known(h)
        BY <1>2 DEF PipelineInv, JobsInv
    <2>3. rows' = rows /\ queue' = queue
        BY DEF hashVars
    <2> QED  BY <1>2, <1>3, <2>1, <2>2, <2>3, JobsKept
<1>6. FrontInv'
    BY DEF PipelineInv, FrontInv, hashVars
<1>7. WaitsFor(job[t].id, b)'
    <2>0. PICK id : id = job[t].id
        OBVIOUS
    <2>1. /\ id \in DOMAIN queue /\ queue[id].status = "Pending"
          /\ queue[id].hash \in EmptyHash <=> b = 0
        BY <2>0 DEF PipelineInv, JobsInv
    <2>2. Holds(t, id)' /\ Holds(t, id)
        BY <1>2, <1>4, <2>0 DEF Holds
    <2>3. \A u \in Thread : Holds(u, id)' => u = t
        <3> SUFFICES ASSUME NEW u \in Thread, u # t, Holds(u, id)' PROVE FALSE
            OBVIOUS
        <3>1. Holds(u, id)
            BY <1>4 DEF Holds
        <3> QED  BY <2>0, <2>2, <3>1 DEF PipelineInv, JobsInv
    <2>4. WaitsFor(id, b)'
        BY <1>2, <1>4, <2>1, <2>2, <2>3 DEF WaitsFor, hashVars
    <2>5. id = job'[t].id
        BY <1>2, <1>4, <2>0
    <2> QED  BY <2>4, <2>5
<1>8. ASSUME NEW i, NEW c, WaitsFor(i, c) PROVE i # job[t].id /\ WaitsFor(i, c)'
    <2>1. ~Holds(t, i) /\ i # job[t].id
        BY <1>8 DEF WaitsFor, Holds
    <2>2. i \in DOMAIN queue /\ queue' = queue
        BY <1>8 DEF WaitsFor, hashVars
    <2> QED  BY <1>1, <1>2, <1>3, <1>8, <2>1, <2>2, OthersWait
<1>9. job' \in [Thread -> JobRec]
    BY <1>1, <1>2, <1>3 DEF PipelineTypeOK, JobRec
<1> QED  BY <1>1, <1>2, <1>4, <1>5, <1>6, <1>7, <1>8, <1>9 DEF JobRec

\* An empty chunk: its callback is a thread of its own.
LEMMA StoreEmptyKeepsInv ==
    ASSUME PipelineInv, NEW t \in Thread, StoreEmpty(t)
    PROVE  PipelineInv'
<1>0. PICK id : id = job[t].id
    OBVIOUS
<1>1. /\ UNCHANGED <<hashVars, inserted, storeVars, blobVars, backendVars, turn, restarts>>
      /\ job[t].at = "store" /\ job[t].hash \in EmptyHash
      /\ air[StoreOf[t]].step = "free"
      /\ spawned' = spawned \cup {id}
      /\ job' = [job EXCEPT ![t].at = "update", ![t].ref = 0]
    BY <1>0 DEF StoreEmpty
<1>2. PipelineTypeOK /\ HashInv
    BY DEF PipelineInv
<1>3. 0 \in PRef
    BY PipelineAssumption
<1>4. /\ JobsInv' /\ FrontInv'
      /\ job' \in [Thread -> JobRec]
      /\ job'[t].at = "update"
      /\ \A u \in Thread : u # t => job'[u] = job[u]
      /\ id \in Nat
      /\ WaitsFor(job[t].id, 0)' /\ job'[t].id = job[t].id
      /\ \A i, c : WaitsFor(i, c) => WaitsFor(i, c)'
    BY <1>0, <1>1, <1>3, StoredWaits
<1>5. WaitsFor(id, 0)'
    <2>1. id = job'[t].id
        BY <1>0, <1>4
    <2> QED  BY <1>4, <2>1
<1>6. HashInv'
    BY <1>1, <1>2, StepKeepsInv
<1>7. PipelineTypeOK'
    BY <1>1, <1>2, <1>4 DEF PipelineTypeOK, JobRec, storeVars, blobVars, backendVars
<1>8. BlobsInv'
    BY <1>1 DEF PipelineInv, BlobsInv, storeVars, blobVars, backendVars
<1>9. CallsInv'
    <2>1. \A i \in spawned' : WaitsFor(i, 0)'
        BY <1>1, <1>4, <1>5 DEF PipelineInv, CallsInv
    <2> QED  BY <1>1, <1>4, <2>1 DEF PipelineInv, CallsInv, storeVars, backendVars
<1>10. PendingInv'
    <2>1. ASSUME NEW i, ToCall(i) \/ i = id PROVE ToCall(i)'
        BY <1>1, <2>1 DEF ToCall, storeVars, backendVars
    <2>2. \A u \in Thread : job[u].at = "store" => job[u].id = id \/ job'[u] = job[u]
        BY <1>0, <1>4
    <2>3. ASSUME NEW i \in DOMAIN queue, queue[i].status = "Pending"
          PROVE  ToCall(i)' \/ \E u \in Thread : job'[u].at = "store" /\ job'[u].id = i
        <3>1. CASE ToCall(i) \/ i = id
            BY <2>1, <3>1
        <3>2. CASE ~ToCall(i) /\ i # id
            BY <2>2, <2>3, <3>2 DEF PipelineInv, PendingInv
        <3> QED  BY <3>1, <3>2
    <2> QED  BY <1>1, <2>3 DEF PendingInv, hashVars
<1>11. StoredInv' /\ SyncInv'
    BY <1>1 DEF PipelineInv, StoredInv, SyncInv, RefStored, ReadyIds,
                hashVars, storeVars, blobVars, backendVars
<1>12. TurnInv'
    <2>1. turn = 0
        BY <1>1 DEF PipelineInv, TurnInv
    <2>2. \A s \in Store : air[s].step # "free" => air[s].by # t
        BY <1>1, ConstantFacts DEF PipelineInv, TurnInv
    <2>3. \A s \in Store : air[s].by \in Thread \cup {Main}
        BY <1>2 DEF PipelineTypeOK
    <2> QED  BY <1>1, <1>4, <2>1, <2>2, <2>3 DEF PipelineInv, TurnInv, storeVars
<1> QED  BY <1>4, <1>6, <1>7, <1>8, <1>9, <1>10, <1>11, <1>12 DEF PipelineInv

\* try_append: the chunk's callback joins those of the blob being filled.
LEMMA StoreAppendKeepsInv ==
    ASSUME PipelineInv, NEW t \in Thread, StoreAppend(t)
    PROVE  PipelineInv'
<1>0. PICK id, s, b : id = job[t].id /\ s = StoreOf[t] /\ b = store[s].blob
    OBVIOUS
<1>1. /\ UNCHANGED <<hashVars, inserted, nextBlob, blobVars, backendVars, spawned, turn, restarts>>
      /\ job[t].at = "store" /\ job[t].hash \notin EmptyHash
      /\ air[s].step = "free" \/ (air[s].step = "append" /\ air[s].by = t)
      /\ Len(store[s].refs) < BlobCap
      /\ job' = [job EXCEPT ![t].at = "update", ![t].ref = b]
      /\ store' = [store EXCEPT ![s].refs = Append(@, id)]
      /\ air' = [air EXCEPT ![s] = Unlocked]
    BY <1>0 DEF StoreAppend, MayLock, HasRoom
<1>2. PipelineTypeOK /\ HashInv
    BY DEF PipelineInv
<1>3. s \in Store /\ b \in PRef /\ b # 0
    <2>1. s \in Store /\ PRef = 0..MaxBlob /\ MaxBlob \in Nat
        BY <1>0, PipelineAssumption
    <2>2. b \in 1..MaxBlob
        BY <1>0, <1>2, <2>1 DEF PipelineTypeOK
    <2> QED  BY <2>1, <2>2
<1>4. /\ JobsInv' /\ FrontInv'
      /\ job' \in [Thread -> JobRec]
      /\ job'[t].at = "update"
      /\ \A u \in Thread : u # t => job'[u] = job[u]
      /\ id \in Nat
      /\ WaitsFor(job[t].id, b)' /\ job'[t].id = job[t].id
      /\ \A i, c : WaitsFor(i, c) => i # id /\ WaitsFor(i, c)'
    <2>1. /\ job[t].at = "store"
          /\ job[t].hash \in EmptyHash <=> b = 0
          /\ job' = [job EXCEPT ![t].at = "update", ![t].ref = b]
          /\ UNCHANGED <<hashVars, inserted>>
        BY <1>1, <1>3
    <2> QED  BY <1>0, <1>3, <2>1, StoredWaits
<1>5. WaitsFor(id, b)'
    <2>1. id = job'[t].id
        BY <1>0, <1>4
    <2> QED  BY <1>4, <2>1
<1>6. /\ store[s].refs \in Seq(Nat) /\ Distinct(store[s].refs)
      /\ id \notin Range(store[s].refs)
    BY <1>2, <1>3, <1>4 DEF PipelineTypeOK, PipelineInv, CallsInv
<1>7. PICK refs : refs = Append(store[s].refs, id)
    OBVIOUS
<1>8. /\ refs \in Seq(Nat) /\ Len(refs) = Len(store[s].refs) + 1
      /\ Range(refs) = Range(store[s].refs) \cup {id} /\ Distinct(refs)
    BY <1>4, <1>6, <1>7, AppendCall
<1>9. /\ \A u \in Store : /\ store'[u].blob = store[u].blob
                          /\ u # s => store'[u] = store[u] /\ air'[u] = air[u]
      /\ store'[s].refs = refs /\ air'[s] = Unlocked
      /\ store' \in [Store -> [blob : 1..MaxBlob, refs : Seq(Nat)]]
      /\ air' \in [Store -> [step : {"free", "put", "calls", "append"},
                             by : Thread \cup {Main}, blob : 0..MaxBlob, calls : Seq(Nat)]]
    <2>1. /\ \A u \in Store : /\ store'[u].blob = store[u].blob
                              /\ u # s => store'[u] = store[u]
          /\ store'[s].refs = refs
          /\ store' \in [Store -> [blob : 1..MaxBlob, refs : Seq(Nat)]]
        <3>1. store \in [Store -> [blob : 1..MaxBlob, refs : Seq(Nat)]]
            BY <1>2 DEF PipelineTypeOK
        <3>2. store' = [store EXCEPT ![s].refs = refs]
            BY <1>1, <1>7, Zenon
        <3>3. refs \in Seq(Nat)
            BY <1>8
        <3> QED  BY <1>3, <3>1, <3>2, <3>3
    <2>2. /\ \A u \in Store : u # s => air'[u] = air[u]
          /\ air'[s] = Unlocked
          /\ air' \in [Store -> [step : {"free", "put", "calls", "append"},
                                 by : Thread \cup {Main}, blob : 0..MaxBlob, calls : Seq(Nat)]]
        BY <1>1, <1>2, <1>3, ConstantFacts DEF PipelineTypeOK
    <2> QED  BY <2>1, <2>2
<1>10. air[s].calls = <<>>
    BY <1>1, <1>3 DEF PipelineInv, BlobsInv
<1>11. HashInv'
    BY <1>1, <1>2, StepKeepsInv
<1>12. PipelineTypeOK'
    <2>1. \A u \in Store : Len(store'[u].refs) <= BlobCap
        <3> TAKE u \in Store
        <3>1. CASE u = s
            <4>1. Len(store[s].refs) \in Nat
                BY <1>6
            <4> QED  BY <1>1, <1>8, <1>9, <3>1, <4>1, ConstantFacts
        <3>2. CASE u # s
            BY <1>2, <1>9, <3>2 DEF PipelineTypeOK
        <3> QED  BY <3>1, <3>2
    <2> QED  BY <1>1, <1>2, <1>4, <1>9, <2>1 DEF PipelineTypeOK, JobRec, blobVars, backendVars
<1>13. BlobsInv'
    <2>1. \A u \in Store : air'[u].step # "free" => u # s /\ air'[u] = air[u]
        BY <1>9, ConstantFacts
    <2>2. \A u \in Store :
            /\ air'[u].step = "put" \/ air'[u].calls # <<>> => air'[u] = air[u]
            /\ air'[u].step \in {"free", "append"} => air'[u].calls = <<>>
        BY <1>9, ConstantFacts DEF PipelineInv, BlobsInv
    <2>3. \A u \in Store :
            /\ store'[u].blob \in 1..nextBlob' /\ store'[u].blob \notin DOMAIN blobRows'
            /\ air'[u].step # "free" => air'[u].blob \in DOMAIN blobRows'
            /\ air'[u].step = "put" \/ air'[u].calls # <<>> => air'[u].blob \notin DOMAIN puts'
        BY <1>1, <1>9, <2>1, <2>2 DEF PipelineInv, BlobsInv, blobVars, backendVars
    <2>4. \A u, v \in Store :
            /\ store'[u].blob = store'[v].blob => u = v
            /\ air'[u].step # "free" /\ air'[v].step # "free" /\ air'[u].blob = air'[v].blob => u = v
        <3>1. \A u, v \in Store : store'[u].blob = store'[v].blob => u = v
            BY <1>9 DEF PipelineInv, BlobsInv
        <3>2. ASSUME NEW u \in Store, NEW v \in Store, air'[u].step # "free", air'[v].step # "free",
                     air'[u].blob = air'[v].blob
              PROVE  u = v
            <4>1. air'[u] = air[u] /\ air'[v] = air[v]
                BY <2>1, <3>2
            <4> QED  BY <3>2, <4>1 DEF PipelineInv, BlobsInv
        <3> QED  BY <3>1, <3>2
    <2> QED  BY <1>1, <2>2, <2>3, <2>4 DEF PipelineInv, BlobsInv, blobVars, backendVars
<1>14. CallsInv'
    <2>1. \A u \in Store : /\ \A i \in Range(store'[u].refs) : WaitsFor(i, store[u].blob)'
                           /\ Distinct(store'[u].refs)
        <3> TAKE u \in Store
        <3>1. CASE u = s
            <4>1. \A i \in Range(refs) : WaitsFor(i, b)'
                BY <1>0, <1>3, <1>4, <1>5, <1>8 DEF PipelineInv, CallsInv
            <4>2. store'[u].blob = b
                BY <1>0, <1>9, <3>1
            <4> QED  BY <1>8, <1>9, <3>1, <4>1, <4>2
        <3>2. CASE u # s
            BY <1>4, <1>9, <3>2 DEF PipelineInv, CallsInv
        <3> QED  BY <3>1, <3>2
    <2>2. \A u \in Store : /\ \A i \in Range(air'[u].calls) : WaitsFor(i, air[u].blob)'
                           /\ Distinct(air'[u].calls)
        <3> TAKE u \in Store
        <3>1. CASE u = s
            <4>1. air'[u].calls = <<>>
                BY <1>9, <3>1, ConstantFacts
            <4> QED  BY <4>1, EmptyCalls
        <3>2. CASE u # s
            BY <1>4, <1>9, <3>2 DEF PipelineInv, CallsInv
        <3> QED  BY <3>1, <3>2
    <2>3. \A c \in DOMAIN puts' : /\ \A i \in Range(puts'[c].calls) : WaitsFor(i, c)'
                                  /\ Distinct(puts'[c].calls)
        BY <1>1, <1>4 DEF PipelineInv, CallsInv, backendVars
    <2>4. \A i \in spawned' : WaitsFor(i, 0)'
        BY <1>1, <1>4 DEF PipelineInv, CallsInv
    <2> QED  BY <2>1, <2>2, <2>3, <2>4 DEF CallsInv
<1>15. PendingInv'
    <2>1. ASSUME NEW i, ToCall(i) \/ i = id PROVE ToCall(i)'
        <3>1. \A u \in Store : Range(store[u].refs) \subseteq Range(store'[u].refs)
            BY <1>8, <1>9
        <3>2. \A u \in Store : i \in Range(air[u].calls) => air'[u] = air[u]
            BY <1>9, <1>10, EmptyCalls
        <3>3. id \in Range(store'[s].refs)
            BY <1>8, <1>9
        <3> QED  BY <1>1, <1>3, <2>1, <3>1, <3>2, <3>3 DEF ToCall, backendVars
    <2>2. \A u \in Thread : job[u].at = "store" => job[u].id = id \/ job'[u] = job[u]
        BY <1>0, <1>4
    <2>3. ASSUME NEW i \in DOMAIN queue, queue[i].status = "Pending"
          PROVE  ToCall(i)' \/ \E u \in Thread : job'[u].at = "store" /\ job'[u].id = i
        <3>1. CASE ToCall(i) \/ i = id
            BY <2>1, <3>1
        <3>2. CASE ~ToCall(i) /\ i # id
            BY <2>2, <2>3, <3>2 DEF PipelineInv, PendingInv
        <3> QED  BY <3>1, <3>2
    <2> QED  BY <1>1, <2>3 DEF PendingInv, hashVars
<1>16. StoredInv' /\ SyncInv'
    <2>1. \A u \in Store : air'[u].step # "free" => u # s /\ air'[u] = air[u]
        BY <1>9, ConstantFacts
    <2>2. StoredInv'
        BY <1>1, <2>1 DEF PipelineInv, StoredInv, RefStored, ReadyIds, hashVars, backendVars
    <2>3. SyncInv'
        BY <1>1, <2>1 DEF PipelineInv, SyncInv, blobVars, backendVars
    <2> QED  BY <2>2, <2>3
<1>17. TurnInv'
    <2>1. turn = 0
        BY <1>1 DEF PipelineInv, TurnInv
    <2>2. \A u \in Store : air'[u].step # "free" => /\ u # s /\ air'[u] = air[u]
                                                    /\ air[u].by # t /\ air[u].by # Main
        <3> SUFFICES ASSUME NEW u \in Store, air'[u].step # "free"
                     PROVE  u # s /\ air'[u] = air[u] /\ air[u].by # t /\ air[u].by # Main
            OBVIOUS
        <3>1. u # s /\ air'[u] = air[u]
            BY <1>9, ConstantFacts
        <3>2. 0 \notin DOMAIN Stores
            BY ConstantFacts
        <3> QED  BY <1>0, <2>1, <3>1, <3>2, ConstantFacts DEF PipelineInv, TurnInv
    <2>3. \A u \in Store : air[u].by \in Thread \cup {Main}
        BY <1>2 DEF PipelineTypeOK
    <2>4. \A k \in DOMAIN Stores : ~(k < 0)
        BY ConstantFacts
    <2> QED  BY <1>1, <1>4, <2>1, <2>2, <2>3, <2>4 DEF PipelineInv, TurnInv
<1> QED  BY <1>4, <1>11, <1>12, <1>13, <1>14, <1>15, <1>16, <1>17 DEF PipelineInv

\* update_reserved: the reference moves from the thread to the queue.
LEMMA UpdateKeepsInv ==
    ASSUME PipelineInv, NEW t \in Thread, UpdateAndReturn(t)
    PROVE  PipelineInv'
<1>0. PICK id, ref : id = job[t].id /\ ref = job[t].ref
    OBVIOUS
<1>1. /\ UNCHANGED <<rows, disk, idCounter, autoFlush, storeVars, blobVars, backendVars, spawned,
                     turn, restarts>>
      /\ job[t].at = "update" /\ UpdateReserved(id, ref)
      /\ queue' = [queue EXCEPT ![id].pref = ref]
      /\ job' = [job EXCEPT ![t] = Idle]
      /\ inserted' = [inserted EXCEPT ![t] = @ \cup {job[t].hash}]
    BY <1>0 DEF UpdateAndReturn, UpdateReserved, Return
<1>2. PipelineTypeOK /\ HashInv
    BY DEF PipelineInv
<1>3. /\ id \in DOMAIN queue /\ queue[id].pref = NoRef /\ queue[id].status = "Pending"
      /\ queue[id].hash = job[t].hash /\ job[t].hash \in Hash /\ ref \in PRef
    BY <1>0, <1>1, <1>2 DEF PipelineInv, JobsInv, PipelineTypeOK
<1>4. HashInv'
    BY <1>1, <1>2, <1>3, StoreDoneKeepsInv DEF StoreDone
<1>5. /\ DOMAIN queue' = DOMAIN queue
      /\ \A i \in DOMAIN queue : /\ queue'[i].hash = queue[i].hash
                                 /\ queue'[i].status = queue[i].status
                                 /\ i # id => queue'[i] = queue[i]
      /\ queue'[id].pref = ref
    BY <1>1, <1>2, <1>3 DEF HashInv, HashTypeOK, IsTable, Entry
<1>6. /\ job'[t] = Idle /\ \A u \in Thread : u # t => job'[u] = job[u]
      /\ Idle.at = "idle" /\ Idle \in JobRec
    BY <1>1, <1>2 DEF PipelineTypeOK, Idle, JobRec
<1>7. /\ inserted' \in [Thread -> SUBSET Hash]
      /\ \A u \in Thread : inserted'[u] \subseteq inserted[u] \cup {job[t].hash}
    <2>1. inserted \in [Thread -> SUBSET Hash]
        BY <1>2 DEF PipelineTypeOK
    <2> QED  BY <1>1, <1>3, <2>1
<1>8. Known(job[t].hash)
    BY <1>2, <1>3 DEF Known, HashInv, QueueMirrorsTable
<1>9. Holds(t, id) /\ \A i : Holds(t, i) => i = id
    BY <1>0, <1>1 DEF Holds
<1>10. JobsInv'
    <2>1. \A u \in Thread : \A h \in inserted'[u] : Known(h)
        BY <1>7, <1>8 DEF PipelineInv, JobsInv
    <2>2. \A i \in DOMAIN queue : ~Holds(t, i) => queue'[i] = queue[i]
        BY <1>5, <1>9
    <2> QED  BY <1>1, <1>5, <1>6, <2>1, <2>2, JobsKept
<1>11. ASSUME NEW i, NEW b, WaitsFor(i, b) PROVE WaitsFor(i, b)'
    <2>1. i \in DOMAIN queue
        BY <1>11 DEF WaitsFor
    <2>2. CASE i = id
        <3>1. ref = b
            BY <1>0, <1>9, <1>11, <2>2 DEF WaitsFor
        <3>2. \A u \in Thread : ~Holds(u, i)'
            <4> SUFFICES ASSUME NEW u \in Thread, Holds(u, i)' PROVE FALSE
                OBVIOUS
            <4>1. u # t
                BY <1>6 DEF Holds
            <4>2. Holds(u, i)
                BY <1>6, <4>1 DEF Holds
            <4> QED  BY <1>0, <1>9, <2>2, <4>1, <4>2 DEF PipelineInv, JobsInv
        <3> QED  BY <1>5, <1>11, <2>1, <2>2, <3>1, <3>2 DEF WaitsFor
    <2>3. CASE i # id
        BY <1>1, <1>2, <1>5, <1>6, <1>9, <1>11, <2>1, <2>3, OthersWait
    <2> QED  BY <2>2, <2>3
<1>12. PipelineTypeOK'
    <2>1. job' \in [Thread -> JobRec]
        BY <1>1, <1>2, <1>6 DEF PipelineTypeOK, JobRec
    <2> QED  BY <1>1, <1>2, <1>7, <2>1 DEF PipelineTypeOK, JobRec, storeVars, blobVars, backendVars
<1>13. BlobsInv'
    BY <1>1 DEF PipelineInv, BlobsInv, storeVars, blobVars, backendVars
<1>14. CallsInv'
    BY <1>1, <1>11 DEF PipelineInv, CallsInv, storeVars, backendVars
<1>15. PendingInv'
    <2>1. ASSUME NEW i, ToCall(i) PROVE ToCall(i)'
        BY <1>1, <2>1 DEF ToCall, storeVars, backendVars
    <2>2. \A u \in Thread : job[u].at = "store" => job'[u] = job[u]
        BY <1>1, <1>6
    <2> QED  BY <1>5, <2>1, <2>2 DEF PipelineInv, PendingInv
<1>16. FrontInv'
    BY <1>5 DEF PipelineInv, FrontInv
<1>17. StoredInv' /\ SyncInv'
    <2>1. \A i \in DOMAIN queue' : queue'[i].status = "Ready" => queue'[i] = queue[i]
        BY <1>3, <1>5
    <2>2. StoredInv'
        <3>1. ASSUME NEW i \in DOMAIN queue', queue'[i].status = "Ready"
              PROVE  RefStored(queue[i].hash, queue[i].pref)'
            <4>1. i \in DOMAIN queue /\ queue'[i] = queue[i]
                BY <1>5, <2>1, <3>1
            <4>2. RefStored(queue[i].hash, queue[i].pref)
                BY <3>1, <4>1 DEF PipelineInv, StoredInv
            <4>3. \A h, r : RefStored(h, r)' <=> RefStored(h, r)
                BY <1>1 DEF RefStored, backendVars
            <4> QED  BY <4>1, <4>2, <4>3
        <3> QED  BY <1>1, <3>1 DEF PipelineInv, StoredInv, RefStored, ReadyIds, storeVars, backendVars
    <2>3. SyncInv'
        BY <1>1 DEF PipelineInv, SyncInv, storeVars, blobVars, backendVars
    <2> QED  BY <2>2, <2>3
<1>18. TurnInv'
    <2>1. turn = 0
        BY <1>1 DEF PipelineInv, TurnInv
    <2>2. \A s \in Store : air[s].step # "free" => air[s].by # t
        BY <1>1, ConstantFacts DEF PipelineInv, TurnInv
    <2>3. \A s \in Store : air[s].by \in Thread \cup {Main}
        BY <1>2 DEF PipelineTypeOK
    <2> QED  BY <1>1, <1>6, <2>1, <2>2, <2>3 DEF PipelineInv, TurnInv, storeVars
<1> QED  BY <1>4, <1>10, <1>12, <1>13, <1>14, <1>15, <1>16, <1>17, <1>18 DEF PipelineInv

-----------------------------------------------------------------------------
\* The callbacks.

\* A callback waits for one blob only.
LEMMA OneBlob ==
    ASSUME NEW id, NEW b, NEW c, WaitsFor(id, b), WaitsFor(id, c)
    PROVE  b = c
<1>1. CASE \E t \in Thread : Holds(t, id)
    BY <1>1 DEF WaitsFor
<1>2. CASE \A t \in Thread : ~Holds(t, id)
    BY <1>2 DEF WaitsFor
<1> QED  BY <1>1, <1>2

\* A callback is in one place: spawned, in one store, in one blob that is pushed
\* out, or in one put.
LEMMA OnePlace ==
    ASSUME PipelineInv, NEW id
    PROVE  /\ id \in spawned => /\ \A s \in Store : /\ id \notin Range(store[s].refs)
                                                    /\ id \notin Range(air[s].calls)
                                /\ \A b \in DOMAIN puts : id \notin Range(puts[b].calls)
           /\ \A s \in Store, u \in Store :
                id \in Range(air[s].calls) => /\ id \notin Range(store[u].refs)
                                              /\ u # s => id \notin Range(air[u].calls)
           /\ \A b \in DOMAIN puts :
                id \in Range(puts[b].calls) =>
                    /\ \A s \in Store : /\ id \notin Range(store[s].refs)
                                        /\ id \notin Range(air[s].calls)
                    /\ \A c \in DOMAIN puts : c # b => id \notin Range(puts[c].calls)
<1>1. /\ id \in spawned => WaitsFor(id, 0)
      /\ \A s \in Store : /\ id \in Range(store[s].refs) => WaitsFor(id, store[s].blob)
                          /\ id \in Range(air[s].calls) => WaitsFor(id, air[s].blob)
      /\ \A b \in DOMAIN puts : id \in Range(puts[b].calls) => WaitsFor(id, b)
    BY DEF PipelineInv, CallsInv
<1>2. \A s \in Store : id \in Range(air[s].calls) =>
        air[s].step # "free" /\ air[s].blob \in DOMAIN blobRows /\ air[s].blob \notin DOMAIN puts
    <2> SUFFICES ASSUME NEW s \in Store, id \in Range(air[s].calls)
                 PROVE  air[s].step # "free" /\ air[s].blob \in DOMAIN blobRows
                        /\ air[s].blob \notin DOMAIN puts
        OBVIOUS
    <2>1. air[s].calls # <<>>
        BY EmptyCalls
    <2> QED  BY <2>1 DEF PipelineInv, BlobsInv
<1>3. /\ DOMAIN puts \subseteq DOMAIN blobRows /\ 0 \notin DOMAIN blobRows
      /\ \A s \in Store : store[s].blob \notin DOMAIN blobRows /\ store[s].blob # 0
    BY BlobIds DEF PipelineInv, BlobsInv
<1>4. \A b, c : WaitsFor(id, b) /\ WaitsFor(id, c) => b = c
    BY OneBlob
<1>5. \A s, u \in Store : air[s].step # "free" /\ air[u].step # "free"
                          /\ air[s].blob = air[u].blob => s = u
    BY DEF PipelineInv, BlobsInv
<1>6. ASSUME id \in spawned
      PROVE  /\ \A s \in Store : id \notin Range(store[s].refs) /\ id \notin Range(air[s].calls)
             /\ \A b \in DOMAIN puts : id \notin Range(puts[b].calls)
    BY <1>1, <1>2, <1>3, <1>4, <1>6
<1>7. ASSUME NEW s \in Store, NEW u \in Store, id \in Range(air[s].calls)
      PROVE  id \notin Range(store[u].refs) /\ (u # s => id \notin Range(air[u].calls))
    BY <1>1, <1>2, <1>3, <1>4, <1>5, <1>7
<1>8. ASSUME NEW b \in DOMAIN puts, id \in Range(puts[b].calls)
      PROVE  /\ \A s \in Store : id \notin Range(store[s].refs) /\ id \notin Range(air[s].calls)
             /\ \A c \in DOMAIN puts : c # b => id \notin Range(puts[c].calls)
    BY <1>1, <1>2, <1>3, <1>4, <1>8
<1> QED  BY <1>6, <1>7, <1>8

\* commit, run by the callback of id with its blob in external storage: only
\* that entry becomes ready, and what leaves the queue is a stored prefix.
LEMMA CallbackEffect ==
    ASSUME PipelineInv, NEW id, NEW b, WaitsFor(id, b), ~HoldsM(id), RefStored(queue[id].hash, b),
           NEW fired \in BOOLEAN, CommitHash(id, fired),
           UNCHANGED <<threadVars, external>>
    PROVE  /\ HashInv' /\ JobsInv' /\ FrontInv'
           /\ \A i, c : WaitsFor(i, c) /\ i # id => WaitsFor(i, c)'
           /\ \A i \in DOMAIN queue' :
                /\ i \in DOMAIN queue
                /\ queue'[i].status = "Pending" => i # id /\ queue'[i] = queue[i]
                /\ queue'[i].status = "Ready" => RefStored(queue[i].hash, queue[i].pref)'
           /\ \A i \in ReadyIds(rows') : RefStored(rows[i].hash, rows[i].pref)'
           /\ \A i \in ReadyIds(disk') : RefStored(disk[i].hash, disk[i].pref)'
<1> DEFINE q == SetReady(id)
           P == CompletedInOrder(q)
<1>1. /\ HashInv /\ IsTable(queue, Entry) /\ id \in DOMAIN queue /\ queue[id].status = "Pending"
      /\ \A t \in Thread : ~Holds(t, id)
      /\ queue[id].pref = b
    BY DEF PipelineInv, HashInv, HashTypeOK, WaitsFor, HoldsM, Holds
<1>2. b # NoRef
    <2>1. b = 0 \/ b \in 1..MaxBlob
        BY BlobIds DEF RefStored, PipelineInv, PipelineTypeOK
    <2> QED  BY <2>1, PipelineAssumption, RefAssumption, ConstantFacts
<1>3. HashInv'
    BY <1>1, <1>2, CommitHashKeepsInv DEF Callback
<1>4. /\ DOMAIN q = DOMAIN queue
      /\ \A i \in DOMAIN queue : /\ q[i].hash = queue[i].hash
                                 /\ q[i].pref = queue[i].pref
                                 /\ i # id => q[i] = queue[i]
      /\ q[id].status = "Ready"
    BY <1>1 DEF SetReady, IsTable, Entry
<1>5. /\ rows' = InsertCompleted(q) /\ queue' = Drop(q, P)
      /\ disk' = rows' \/ disk' = disk
    BY DEF CommitHash, MaybeFlush
<1> HIDE DEF q
<1>6. \A i \in DOMAIN q : i \in P <=> \A k \in DOMAIN q : k <= i => q[k].status = "Ready"
    BY DEF CompletedInOrder
<1>7. \A i \in DOMAIN q : i \in Nat /\ q[i].status \in {"Pending", "Ready"}
    BY <1>1, <1>4 DEF IsTable, Entry
<1>8. P \subseteq DOMAIN q /\ \A i \in P : q[i].status = "Ready"
    <2>1. P \subseteq DOMAIN q
        BY DEF CompletedInOrder
    <2> HIDE DEF P
    <2> QED  BY <1>6, <1>7, <2>1
<1> HIDE DEF P
<1>9. DOMAIN queue' = DOMAIN queue \ P /\ \A i \in DOMAIN queue' : queue'[i] = q[i]
    BY <1>4, <1>5 DEF Drop
<1>10. ASSUME NEW i \in DOMAIN queue, i # id, queue[i].status = "Pending"
       PROVE  i \in DOMAIN queue' /\ queue'[i] = queue[i]
    BY <1>4, <1>8, <1>9, <1>10
<1>11. FrontInv'
    <2> SUFFICES ASSUME NEW i \in DOMAIN queue'
                 PROVE  \E k \in DOMAIN queue' : k <= i /\ queue'[k].status = "Pending"
        BY DEF FrontInv
    <2>1. PICK k \in DOMAIN q : k <= i /\ q[k].status # "Ready"
        BY <1>4, <1>6, <1>9
    <2>2. k \notin P /\ q[k].status = "Pending"
        BY <1>7, <1>8, <2>1
    <2> QED  BY <1>4, <1>9, <2>1, <2>2
<1>12. DOMAIN rows' = DOMAIN rows /\ \A i \in DOMAIN rows : rows'[i].hash = rows[i].hash
    <2>1. /\ DOMAIN rows' = DOMAIN rows
          /\ \A i \in DOMAIN rows : rows'[i] = IF i \in P
                THEN [hash |-> rows[i].hash, childs |-> q[i].childs, pref |-> q[i].pref, ready |-> TRUE]
                ELSE rows[i]
        BY <1>5 DEF InsertCompleted, P
    <2> QED  BY <2>1
<1>13. JobsInv'
    <2>1. job' = job /\ inserted' = inserted
        BY DEF threadVars
    <2>2. \A h : Known(h) => Known(h)'
        BY <1>12 DEF Known
    <2>3. ASSUME NEW t \in Thread, job[t].at \in {"store", "update"}
          PROVE  /\ job[t].id \in DOMAIN queue'
                 /\ queue'[job[t].id] = queue[job[t].id]
        <3>1. /\ job[t].id \in DOMAIN queue /\ queue[job[t].id].status = "Pending"
              /\ job[t].id # id
            BY <1>1, <2>3 DEF PipelineInv, JobsInv, Holds
        <3> QED  BY <1>10, <3>1
    <2> QED  BY <2>1, <2>2, <2>3 DEF PipelineInv, JobsInv, Holds
<1>14. ASSUME NEW i, NEW c, WaitsFor(i, c), i # id PROVE WaitsFor(i, c)'
    <2>1. i \in DOMAIN queue' /\ queue'[i] = queue[i]
        BY <1>10, <1>14 DEF WaitsFor
    <2>2. job' = job
        BY DEF threadVars
    <2> QED  BY <1>14, <2>1, <2>2 DEF WaitsFor, Holds
<1>15. ASSUME NEW i \in DOMAIN queue, q[i].status = "Ready" PROVE RefStored(q[i].hash, q[i].pref)
    <2>1. CASE i = id
        BY <1>1, <1>4, <2>1
    <2>2. CASE i # id
        BY <1>4, <1>15, <2>2 DEF PipelineInv, StoredInv
    <2> QED  BY <2>1, <2>2
<1>16. \A h, p : RefStored(h, p)' <=> RefStored(h, p)
    BY DEF RefStored
<1>17. ASSUME NEW i \in DOMAIN queue'
       PROVE  /\ i \in DOMAIN queue
              /\ queue'[i].status = "Pending" => i # id /\ queue'[i] = queue[i]
              /\ queue'[i].status = "Ready" => RefStored(queue[i].hash, queue[i].pref)'
    <2>1. i \in DOMAIN queue /\ queue'[i] = q[i]
        BY <1>9
    <2>2. queue'[i].status = "Pending" => i # id /\ queue'[i] = queue[i]
        BY <1>4, <2>1
    <2>3. queue'[i].status = "Ready" => RefStored(q[i].hash, q[i].pref)
        BY <1>15, <2>1
    <2> QED  BY <1>16, <2>1, <2>2, <2>3
<1>18. \A i \in ReadyIds(rows') : RefStored(rows[i].hash, rows[i].pref)'
    <2> SUFFICES ASSUME NEW i \in ReadyIds(rows') PROVE RefStored(rows'[i].hash, rows'[i].pref)
        BY <1>16
    <2>1. i \in DOMAIN rows /\ rows'[i].ready
        BY <1>12 DEF ReadyIds
    <2>2. CASE i \in P
        <3>1. rows'[i] = [hash |-> rows[i].hash, childs |-> q[i].childs, pref |-> q[i].pref,
                          ready |-> TRUE]
            BY <1>5, <2>1, <2>2 DEF InsertCompleted, P
        <3>2. rows[i].hash = q[i].hash
            BY <1>1, <1>4, <1>8, <2>2 DEF HashInv, QueueMirrorsTable
        <3>3. rows'[i].hash = q[i].hash /\ rows'[i].pref = q[i].pref
            BY <3>1, <3>2
        <3> QED  BY <1>4, <1>8, <1>15, <2>2, <3>3
    <2>3. CASE i \notin P
        <3>1. rows'[i] = rows[i]
            BY <1>5, <2>1, <2>3 DEF InsertCompleted, P
        <3> QED  BY <2>1, <3>1 DEF PipelineInv, StoredInv, ReadyIds
    <2> QED  BY <2>2, <2>3
<1>19. \A i \in ReadyIds(disk') : RefStored(disk[i].hash, disk[i].pref)'
    BY <1>5, <1>16, <1>18 DEF PipelineInv, StoredInv
<1> QED  BY <1>3, <1>11, <1>13, <1>14, <1>17, <1>18, <1>19

\* done_callback of a blob that a thread or data_flush has stored.
LEMMA CallBackKeepsInv ==
    ASSUME PipelineInv, NEW s \in Store, NEW fired \in BOOLEAN, CallBack(s, fired)
    PROVE  PipelineInv'
<1>0. PICK id, b : id = Head(air[s].calls) /\ b = air[s].blob
    OBVIOUS
<1>1. /\ UNCHANGED <<threadVars, store, nextBlob, blobRows, backendVars, spawned, turn, restarts>>
      /\ air[s].step = "calls" /\ air[s].calls # <<>>
      /\ ~HoldsM(id) /\ CommitHash(id, fired)
      /\ blobDisk' \in {blobDisk, blobRows}
      /\ air' = [air EXCEPT ![s].calls = Tail(@)]
    BY <1>0 DEF CallBack, SaveBlobsIf
<1>2. PipelineTypeOK
    BY DEF PipelineInv
<1>3. air[s].calls \in Seq(Nat) /\ Distinct(air[s].calls)
    BY <1>2 DEF PipelineTypeOK, PipelineInv, CallsInv
<1>4. PICK rest : rest = Tail(air[s].calls)
    OBVIOUS
<1>5. /\ id \in Range(air[s].calls) /\ rest \in Seq(Nat)
      /\ Distinct(rest) /\ Range(rest) = Range(air[s].calls) \ {id}
    BY <1>0, <1>1, <1>3, <1>4, TailCall
<1>6. air' = [air EXCEPT ![s].calls = rest]
    BY <1>1, <1>4, Zenon
<1>7. /\ \A u \in Store : /\ air'[u].step = air[u].step
                          /\ air'[u].by = air[u].by
                          /\ air'[u].blob = air[u].blob
                          /\ u # s => air'[u] = air[u]
      /\ air'[s].calls = rest
      /\ air' \in [Store -> [step : {"free", "put", "calls", "append"},
                             by : Thread \cup {Main}, blob : 0..MaxBlob, calls : Seq(Nat)]]
    <2>1. rest \in Seq(Nat)
        BY <1>5
    <2>2. air \in [Store -> [step : {"free", "put", "calls", "append"},
                            by : Thread \cup {Main}, blob : 0..MaxBlob, calls : Seq(Nat)]]
        BY <1>2 DEF PipelineTypeOK
    <2> QED  BY <1>6, <2>1, <2>2
<1>8. WaitsFor(id, b) /\ b \in external
    BY <1>0, <1>1, <1>5 DEF PipelineInv, CallsInv, StoredInv
<1>9. RefStored(queue[id].hash, b)
    <2>1. b # 0
        BY <1>8, BlobIds DEF PipelineInv, BlobsInv
    <2> QED  BY <1>8, <2>1 DEF RefStored, WaitsFor
<1>10. UNCHANGED <<threadVars, external>>
    BY <1>1 DEF backendVars
<1>11. /\ HashInv' /\ JobsInv' /\ FrontInv'
       /\ \A i, c : WaitsFor(i, c) /\ i # id => WaitsFor(i, c)'
       /\ \A i \in DOMAIN queue' :
            /\ i \in DOMAIN queue
            /\ queue'[i].status = "Pending" => i # id /\ queue'[i] = queue[i]
            /\ queue'[i].status = "Ready" => RefStored(queue[i].hash, queue[i].pref)'
       /\ \A i \in ReadyIds(rows') : RefStored(rows[i].hash, rows[i].pref)'
       /\ \A i \in ReadyIds(disk') : RefStored(disk[i].hash, disk[i].pref)'
    BY <1>1, <1>8, <1>9, <1>10, CallbackEffect
<1>12. /\ id \notin spawned
       /\ \A u \in Store : id \notin Range(store[u].refs) /\ id \notin Range(air'[u].calls)
       /\ \A c \in DOMAIN puts : id \notin Range(puts[c].calls)
    BY <1>5, <1>7, OnePlace
<1>13. PipelineTypeOK'
    <2>1. blobDisk' \in [DOMAIN blobDisk' -> {"InProgress", "Done"}]
        BY <1>1, <1>2 DEF PipelineTypeOK
    <2>2. air' \in [Store -> [step : {"free", "put", "calls", "append"},
                             by : Thread \cup {Main}, blob : 0..MaxBlob, calls : Seq(Nat)]]
        BY <1>7
    <2> QED  BY <1>1, <1>2, <2>1, <2>2 DEF PipelineTypeOK, threadVars, backendVars
<1>14. BlobsInv'
    <2>1. \A u \in Store :
            /\ air'[u].step \in {"free", "append"} => air'[u].calls = <<>>
            /\ air'[u].step = "put" \/ air'[u].calls # <<>> =>
                  air[u].step = "put" \/ air[u].calls # <<>>
        BY <1>1, <1>7 DEF PipelineInv, BlobsInv
    <2> QED  BY <1>1, <1>7, <2>1 DEF PipelineInv, BlobsInv, backendVars
<1>15. CallsInv'
    <2>1. \A u \in Store : /\ \A i \in Range(air'[u].calls) : WaitsFor(i, air[u].blob)'
                           /\ Distinct(air'[u].calls)
        <3> TAKE u \in Store
        <3>1. air'[u].blob = air[u].blob /\ Range(air'[u].calls) \subseteq Range(air[u].calls)
            BY <1>5, <1>7
        <3>2. Distinct(air'[u].calls)
            BY <1>5, <1>7 DEF PipelineInv, CallsInv
        <3> QED  BY <1>11, <1>12, <3>1, <3>2 DEF PipelineInv, CallsInv
    <2>2. \A u \in Store : /\ \A i \in Range(store'[u].refs) : WaitsFor(i, store[u].blob)'
                           /\ Distinct(store'[u].refs)
        BY <1>1, <1>11, <1>12 DEF PipelineInv, CallsInv
    <2>3. \A c \in DOMAIN puts' : /\ \A i \in Range(puts'[c].calls) : WaitsFor(i, c)'
                                  /\ Distinct(puts'[c].calls)
        BY <1>1, <1>11, <1>12 DEF PipelineInv, CallsInv, backendVars
    <2>4. \A i \in spawned' : WaitsFor(i, 0)'
        BY <1>1, <1>11, <1>12 DEF PipelineInv, CallsInv
    <2> QED  BY <2>1, <2>2, <2>3, <2>4 DEF CallsInv
<1>16. PendingInv'
    <2>1. ASSUME NEW i, ToCall(i), i # id PROVE ToCall(i)'
        <3>1. \A u \in Store : i \in Range(air[u].calls) => i \in Range(air'[u].calls)
            BY <1>5, <1>7, <2>1
        <3> QED  BY <1>1, <2>1, <3>1 DEF ToCall, backendVars
    <2> QED  BY <1>1, <1>11, <2>1 DEF PipelineInv, PendingInv, threadVars
<1>17. StoredInv'
    <2>1. \A u \in Store : air'[u].step = "calls" /\ air'[u].calls # <<>> => air'[u].blob \in external'
        BY <1>1, <1>7, <1>10 DEF PipelineInv, StoredInv
    <2>2. \A c \in DOMAIN puts' : puts'[c].exited => c \in external'
        BY <1>1 DEF PipelineInv, StoredInv, backendVars
    <2> QED  BY <1>11, <2>1, <2>2 DEF StoredInv
<1>18. TurnInv'
    BY <1>1, <1>7 DEF PipelineInv, TurnInv, threadVars
<1>19. SyncInv'
    BY <1>1, <1>7 DEF PipelineInv, SyncInv, backendVars
<1> QED  BY <1>11, <1>13, <1>14, <1>15, <1>16, <1>17, <1>18, <1>19 DEF PipelineInv

\* The thread of an empty chunk.
LEMMA SpawnedCallBackKeepsInv ==
    ASSUME PipelineInv, NEW id \in spawned, NEW fired \in BOOLEAN, SpawnedCallBack(id, fired)
    PROVE  PipelineInv'
<1>1. /\ UNCHANGED <<threadVars, storeVars, blobRows, backendVars, turn, restarts>>
      /\ ~HoldsM(id) /\ CommitHash(id, fired)
      /\ blobDisk' \in {blobDisk, blobRows}
      /\ spawned' = spawned \ {id}
    BY DEF SpawnedCallBack, SaveBlobsIf
<1>2. PipelineTypeOK
    BY DEF PipelineInv
<1>3. WaitsFor(id, 0)
    BY DEF PipelineInv, CallsInv
<1>4. RefStored(queue[id].hash, 0)
    BY <1>3 DEF RefStored, WaitsFor
<1>5. UNCHANGED <<threadVars, external>>
    BY <1>1 DEF backendVars
<1>6. /\ HashInv' /\ JobsInv' /\ FrontInv'
      /\ \A i, c : WaitsFor(i, c) /\ i # id => WaitsFor(i, c)'
      /\ \A i \in DOMAIN queue' :
           /\ i \in DOMAIN queue
           /\ queue'[i].status = "Pending" => i # id /\ queue'[i] = queue[i]
           /\ queue'[i].status = "Ready" => RefStored(queue[i].hash, queue[i].pref)'
      /\ \A i \in ReadyIds(rows') : RefStored(rows[i].hash, rows[i].pref)'
      /\ \A i \in ReadyIds(disk') : RefStored(disk[i].hash, disk[i].pref)'
    BY <1>1, <1>3, <1>4, <1>5, CallbackEffect
<1>7. /\ \A u \in Store : id \notin Range(store[u].refs) /\ id \notin Range(air[u].calls)
      /\ \A c \in DOMAIN puts : id \notin Range(puts[c].calls)
    BY OnePlace
<1>8. PipelineTypeOK'
    BY <1>1, <1>2 DEF PipelineTypeOK, threadVars, storeVars, backendVars
<1>9. BlobsInv'
    BY <1>1 DEF PipelineInv, BlobsInv, storeVars, backendVars
<1>10. CallsInv'
    BY <1>1, <1>6, <1>7 DEF PipelineInv, CallsInv, storeVars, backendVars
<1>11. PendingInv'
    <2>1. ASSUME NEW i, ToCall(i), i # id PROVE ToCall(i)'
        BY <1>1, <2>1 DEF ToCall, storeVars, backendVars
    <2> QED  BY <1>1, <1>6, <2>1 DEF PipelineInv, PendingInv, threadVars
<1>12. StoredInv'
    BY <1>1, <1>6 DEF PipelineInv, StoredInv, storeVars, backendVars
<1>13. TurnInv'
    BY <1>1 DEF PipelineInv, TurnInv, threadVars, storeVars
<1>14. SyncInv'
    BY <1>1 DEF PipelineInv, SyncInv, storeVars, backendVars
<1> QED  BY <1>6, <1>8, <1>9, <1>10, <1>11, <1>12, <1>13, <1>14 DEF PipelineInv

\* done_callback of a put whose child has exited.
LEMMA ReapCallBackKeepsInv ==
    ASSUME PipelineInv, NEW b \in pass, NEW fired \in BOOLEAN, ReapCallBack(b, fired)
    PROVE  PipelineInv'
<1>0. PICK id, rest : id = Head(puts[b].calls) /\ rest = Tail(puts[b].calls)
    OBVIOUS
<1>1. /\ UNCHANGED <<threadVars, storeVars, blobRows, external, pass, spawned, turn, restarts>>
      /\ puts[b].exited /\ puts[b].calls # <<>>
      /\ ~HoldsM(id) /\ CommitHash(id, fired)
      /\ blobDisk' \in {blobDisk, blobRows}
      /\ puts' = [puts EXCEPT ![b].calls = Tail(@)]
    BY <1>0 DEF ReapCallBack, SaveBlobsIf
<1>2. PipelineTypeOK /\ b \in DOMAIN puts
    BY DEF PipelineInv, PipelineTypeOK
<1>3. puts[b].calls \in Seq(Nat) /\ Distinct(puts[b].calls)
    BY <1>2 DEF PipelineTypeOK, PipelineInv, CallsInv
<1>4. /\ id \in Range(puts[b].calls) /\ rest \in Seq(Nat)
      /\ Distinct(rest) /\ Range(rest) = Range(puts[b].calls) \ {id}
    BY <1>0, <1>1, <1>3, TailCall
<1>5. puts' = [puts EXCEPT ![b].calls = rest]
    BY <1>0, <1>1, Zenon
<1>6. /\ DOMAIN puts' = DOMAIN puts
      /\ \A c \in DOMAIN puts : /\ puts'[c].exited = puts[c].exited
                                /\ c # b => puts'[c] = puts[c]
      /\ puts'[b].calls = rest
      /\ puts' \in [DOMAIN puts -> [calls : Seq(Nat), exited : BOOLEAN]]
    BY <1>2, <1>4, <1>5 DEF PipelineTypeOK
<1>7. WaitsFor(id, b) /\ b \in external
    BY <1>1, <1>2, <1>4 DEF PipelineInv, CallsInv, StoredInv
<1>8. RefStored(queue[id].hash, b)
    <2>1. b # 0
        BY <1>7, BlobIds DEF PipelineInv, BlobsInv
    <2> QED  BY <1>7, <2>1 DEF RefStored, WaitsFor
<1>9. UNCHANGED <<threadVars, external>>
    BY <1>1
<1>10. /\ HashInv' /\ JobsInv' /\ FrontInv'
       /\ \A i, c : WaitsFor(i, c) /\ i # id => WaitsFor(i, c)'
       /\ \A i \in DOMAIN queue' :
            /\ i \in DOMAIN queue
            /\ queue'[i].status = "Pending" => i # id /\ queue'[i] = queue[i]
            /\ queue'[i].status = "Ready" => RefStored(queue[i].hash, queue[i].pref)'
       /\ \A i \in ReadyIds(rows') : RefStored(rows[i].hash, rows[i].pref)'
       /\ \A i \in ReadyIds(disk') : RefStored(disk[i].hash, disk[i].pref)'
    BY <1>1, <1>7, <1>8, <1>9, CallbackEffect
<1>11. /\ id \notin spawned
       /\ \A u \in Store : id \notin Range(store[u].refs) /\ id \notin Range(air[u].calls)
       /\ \A c \in DOMAIN puts : id \notin Range(puts'[c].calls)
    BY <1>2, <1>4, <1>6, OnePlace
<1>12. PipelineTypeOK'
    BY <1>1, <1>2, <1>6 DEF PipelineTypeOK, threadVars, storeVars
<1>13. BlobsInv'
    BY <1>1, <1>6 DEF PipelineInv, BlobsInv, storeVars
<1>14. CallsInv'
    <2>1. \A c \in DOMAIN puts' : /\ \A i \in Range(puts'[c].calls) : WaitsFor(i, c)'
                                  /\ Distinct(puts'[c].calls)
        <3> TAKE c \in DOMAIN puts'
        <3>1. c \in DOMAIN puts /\ Range(puts'[c].calls) \subseteq Range(puts[c].calls)
            BY <1>4, <1>6
        <3>2. Distinct(puts'[c].calls)
            BY <1>4, <1>6, <3>1 DEF PipelineInv, CallsInv
        <3> QED  BY <1>10, <1>11, <3>1, <3>2 DEF PipelineInv, CallsInv
    <2> QED  BY <1>1, <1>10, <1>11, <2>1 DEF PipelineInv, CallsInv, storeVars
<1>15. PendingInv'
    <2>1. ASSUME NEW i, ToCall(i), i # id PROVE ToCall(i)'
        <3>1. \A c \in DOMAIN puts : i \in Range(puts[c].calls) => i \in Range(puts'[c].calls)
            BY <1>4, <1>6, <2>1
        <3> QED  BY <1>1, <1>6, <2>1, <3>1 DEF ToCall, storeVars
    <2> QED  BY <1>1, <1>10, <2>1 DEF PipelineInv, PendingInv, threadVars
<1>16. StoredInv'
    BY <1>1, <1>6, <1>10 DEF PipelineInv, StoredInv, storeVars
<1>17. TurnInv'
    BY <1>1 DEF PipelineInv, TurnInv, threadVars, storeVars
<1>18. SyncInv'
    BY <1>1, <1>6 DEF PipelineInv, SyncInv, storeVars
<1> QED  BY <1>10, <1>12, <1>13, <1>14, <1>15, <1>16, <1>17, <1>18 DEF PipelineInv

-----------------------------------------------------------------------------
\* Opening a repository.

\* Each blob store reserves an id of its own above those in the table.
LEMMA FreshStoresApart ==
    ASSUME NEW last \in Nat, NEW f, f = FreshStores(last), ReservedBlob(Len(Stores), last) <= MaxBlob
    PROVE  /\ f \in [Store -> [blob : 1..MaxBlob, refs : Seq(Nat)]]
           /\ \A s \in Store : /\ f[s].refs = <<>>
                               /\ f[s].blob > last
                               /\ f[s].blob \in 1..ReservedBlob(Len(Stores), last)
           /\ \A s, u \in Store : f[s].blob = f[u].blob => s = u
<1> DEFINE Pos(s) == CHOOSE k \in DOMAIN Stores : Stores[k] = s
<1>1. ASSUME NEW s \in Store PROVE Pos(s) \in DOMAIN Stores /\ Stores[Pos(s)] = s
    <2>1. \E k \in DOMAIN Stores : Stores[k] = s
        BY DEF Store
    <2> QED  BY <2>1
<1>2. f = [s \in Store |-> [blob |-> 1 + last + Pos(s), refs |-> <<>>]]
    BY DEF FreshStores, ReservedBlob
<1> HIDE DEF Pos
<1>3. \A s \in Store : Pos(s) \in 1..Len(Stores)
    BY <1>1, ConstantFacts
<1>4. \A s \in Store : f[s].blob = 1 + last + Pos(s) /\ f[s].refs = <<>>
    BY <1>2
<1>5. ReservedBlob(Len(Stores), last) = 1 + last + Len(Stores)
    BY DEF ReservedBlob
<1>6. \A s \in Store : f[s].blob > last /\ f[s].blob \in 1..ReservedBlob(Len(Stores), last)
    BY <1>3, <1>4, <1>5, ConstantFacts
<1>7. \A s \in Store : 1 + last + Pos(s) \in 1..MaxBlob
    BY <1>3, <1>5, ConstantFacts
<1>8. f \in [Store -> [blob : 1..MaxBlob, refs : Seq(Nat)]]
    BY <1>2, <1>7, EmptyCalls
<1>9. ASSUME NEW s \in Store, NEW u \in Store, f[s].blob = f[u].blob PROVE s = u
    <2>1. Pos(s) = Pos(u)
        BY <1>3, <1>4, <1>9, ConstantFacts
    <2> QED  BY <1>1, <2>1
<1> QED  BY <1>4, <1>6, <1>8, <1>9

\* A repository just opened: nothing in memory, and ids reserved above last.
Opened ==
    /\ HashInv /\ queue = NoEntries
    /\ job = [t \in Thread |-> Idle] /\ inserted = [t \in Thread |-> {}]
    /\ air = [s \in Store |-> Unlocked]
    /\ \E last \in Nat :
        /\ store = FreshStores(last)
        /\ nextBlob = ReservedBlob(Len(Stores), last) /\ nextBlob <= MaxBlob
        /\ DOMAIN blobDisk \subseteq 1..last
    /\ blobRows = blobDisk
    /\ blobDisk \in [DOMAIN blobDisk -> {"InProgress", "Done"}]
    /\ external \subseteq DOMAIN blobDisk
    /\ puts = NoEntries /\ pass = {} /\ spawned = {}
    /\ turn = 0 /\ restarts \in 0..MaxRestarts
    /\ \A i \in ReadyIds(rows) : RefStored(rows[i].hash, rows[i].pref)
    /\ \A i \in ReadyIds(disk) : RefStored(disk[i].hash, disk[i].pref)
    /\ ~Async => \A b \in DOMAIN blobDisk : blobDisk[b] = "Done" => b \in external

\* With nothing in memory the invariant is about the tables and the external
\* storage alone: after Init as after a crash.
LEMMA OpenedHasInv == Opened => PipelineInv
<1> SUFFICES ASSUME Opened PROVE PipelineInv
    OBVIOUS
<1>0. PICK last \in Nat :
        /\ store = FreshStores(last)
        /\ nextBlob = ReservedBlob(Len(Stores), last) /\ nextBlob <= MaxBlob
        /\ DOMAIN blobDisk \subseteq 1..last
    BY DEF Opened
<1>1. /\ store \in [Store -> [blob : 1..MaxBlob, refs : Seq(Nat)]]
      /\ \A s \in Store : /\ store[s].refs = <<>>
                          /\ store[s].blob > last
                          /\ store[s].blob \in 1..nextBlob
      /\ \A s, u \in Store : store[s].blob = store[u].blob => s = u
    BY <1>0, FreshStoresApart DEF Opened
<1>2. nextBlob = 1 + last + Len(Stores) /\ nextBlob \in 1..MaxBlob /\ last < nextBlob
    BY <1>0, ConstantFacts DEF ReservedBlob, Opened
<1>3. \A s \in Store : air[s] = Unlocked /\ air[s].step = "free" /\ air[s].calls = <<>>
    BY <1>0, ConstantFacts DEF Opened
<1>4. /\ \A t \in Thread : job[t].at = "idle" /\ inserted[t] = {}
      /\ job \in [Thread -> JobRec] /\ inserted \in [Thread -> SUBSET Hash]
    <2>1. Idle \in JobRec /\ Idle.at = "idle"
        BY <1>0 DEF Idle, JobRec, Opened
    <2> QED  BY <1>0, <2>1 DEF Opened
<1>5. DOMAIN queue = {} /\ DOMAIN puts = {}
    BY <1>0 DEF NoEntries, Opened
<1>6. PipelineTypeOK
    <2>1. air \in [Store -> [step : {"free", "put", "calls", "append"},
                             by : Thread \cup {Main}, blob : 0..MaxBlob, calls : Seq(Nat)]]
        BY <1>0, ConstantFacts DEF Opened
    <2>2. puts \in [DOMAIN puts -> [calls : Seq(Nat), exited : BOOLEAN]]
        BY <1>0 DEF NoEntries, Opened
    <2>3. external \subseteq 1..MaxBlob
        BY <1>0, <1>2, ConstantFacts DEF Opened
    <2>4. \A s \in Store : Len(store[s].refs) <= BlobCap
        <3> TAKE s \in Store
        <3>1. store[s].refs = <<>>
            BY <1>0, <1>1 DEF Opened
        <3>2. Len(<<>>) = 0 /\ 0 <= BlobCap
            BY <1>0, ConstantFacts DEF Opened
        <3> QED  BY <3>1, <3>2
    <2>5. turn \in 0..(Len(Stores) + 1)
        BY <1>0, ConstantFacts DEF Opened
    <2> QED  BY <1>0, <1>1, <1>2, <1>4, <2>1, <2>2, <2>3, <2>4, <2>5 DEF PipelineTypeOK, JobRec, Opened
<1>7. JobsInv
    BY <1>0, <1>4 DEF JobsInv, Holds, Opened
<1>8. BlobsInv
    <2>1. DOMAIN blobRows \subseteq 1..nextBlob
        BY <1>0, <1>2 DEF Opened
    <2>2. \A s \in Store : store[s].blob \notin DOMAIN blobRows
        BY <1>0, <1>1 DEF Opened
    <2> QED  BY <1>0, <1>1, <1>3, <1>5, <2>1, <2>2 DEF BlobsInv, Opened
<1>9. CallsInv
    <2>1. \A s \in Store : /\ Range(store[s].refs) = {} /\ Range(air[s].calls) = {}
                           /\ Distinct(store[s].refs) /\ Distinct(air[s].calls)
        BY <1>0, <1>1, <1>3, EmptyCalls DEF Opened
    <2> QED  BY <1>0, <1>5, <2>1 DEF CallsInv, Opened
<1>10. PendingInv /\ FrontInv
    BY <1>0, <1>5 DEF PendingInv, FrontInv, Opened
<1>11. StoredInv
    BY <1>0, <1>3, <1>5 DEF StoredInv, Opened
<1>12. TurnInv
    <2>1. \A k \in DOMAIN Stores : ~(k < 0)
        BY <1>0, ConstantFacts DEF Opened
    <2> QED  BY <1>0, <1>3, <2>1 DEF TurnInv, Opened
<1>13. SyncInv
    BY <1>0, <1>3, <1>5 DEF SyncInv, Opened
<1> QED  BY <1>0, <1>6, <1>7, <1>8, <1>9, <1>10, <1>11, <1>12, <1>13 DEF PipelineInv, Opened

\* The empty repository.
LEMMA PipelineInit ==
    ASSUME Init
    PROVE  PipelineInv
<1>1. HashInv /\ queue = NoEntries
    BY InitHasInv DEF Init, HashInit
<1>2. nextBlob <= MaxBlob
    BY ConstantFacts DEF Init, ReservedBlob
<1>3. DOMAIN blobDisk = {} /\ blobDisk \in [DOMAIN blobDisk -> {"InProgress", "Done"}]
    BY DEF Init, NoEntries
<1>4. ReadyIds(rows) = {} /\ ReadyIds(disk) = {}
    BY DEF Init, HashInit, NoEntries, ReadyIds
<1>5. restarts \in 0..MaxRestarts
    BY PipelineAssumption DEF Init
<1> QED  BY <1>1, <1>2, <1>3, <1>4, <1>5, OpenedHasInv DEF Init, Opened

\* Opening the repository in the next state.
LEMMA OpenedHasInvNext == Opened' => PipelineInv'
BY OpenedHasInv, PTL

\* A crash: the tables fall back to what was saved, which a put that is still
\* running can only add to.
LEMMA PipelineRestartKeepsInv ==
    ASSUME PipelineInv, PipelineRestart
    PROVE  PipelineInv'
<1>0. PICK last : last = MaxOf(DOMAIN blobDisk)
    OBVIOUS
<1>1. PICK late \in SUBSET DOMAIN puts : external' = external \cup late
    BY DEF PipelineRestart
<1>2. last \in Nat /\ DOMAIN blobDisk \subseteq 1..last
    <2>1. DOMAIN blobDisk \subseteq 1..nextBlob /\ nextBlob \in Nat
        BY BlobIds DEF PipelineInv, BlobsInv
    <2> QED  BY <1>0, <2>1, MaxOfBounds
<1>3. HashInv' /\ queue' = NoEntries
    BY RestartKeepsInv DEF PipelineInv, PipelineRestart, Restart
<1>4. /\ store' = FreshStores(last)
      /\ nextBlob' = ReservedBlob(Len(Stores), last) /\ nextBlob' <= MaxBlob
      /\ blobDisk' = blobDisk /\ blobRows' = blobDisk
      /\ disk' = disk
    BY <1>0 DEF PipelineRestart, Restart
<1>5. blobDisk \in [DOMAIN blobDisk -> {"InProgress", "Done"}]
    BY DEF PipelineInv, PipelineTypeOK
<1>6. external' \subseteq DOMAIN blobDisk
    BY <1>1 DEF PipelineInv, BlobsInv
<1>7. restarts' \in 0..MaxRestarts
    BY PipelineAssumption DEF PipelineInv, PipelineTypeOK, PipelineRestart
<1>8. \A i \in ReadyIds(disk) : RefStored(disk[i].hash, disk[i].pref)'
    BY <1>1, <1>4 DEF PipelineInv, StoredInv, RefStored
<1>9. /\ ReadyIds(rows') \subseteq ReadyIds(disk)
      /\ \A i \in ReadyIds(rows') : rows'[i] = disk[i]
    BY DEF PipelineRestart, Restart, Drop, ReadyIds
<1>10. \A i \in ReadyIds(rows') : RefStored(rows[i].hash, rows[i].pref)'
    BY <1>4, <1>8, <1>9 DEF RefStored
<1>11. ~Async => \A b \in DOMAIN blobDisk : blobDisk[b] = "Done" => b \in external'
    BY <1>1 DEF PipelineInv, SyncInv
<1>12. Opened'
    BY <1>2, <1>3, <1>4, <1>5, <1>6, <1>7, <1>8, <1>10, <1>11 DEF Opened, PipelineRestart, ReadyIds
<1> QED  BY <1>12, OpenedHasInvNext

-----------------------------------------------------------------------------
\* The invariant.

\* Nothing happens.
LEMMA StutterKeepsInv ==
    ASSUME PipelineInv, UNCHANGED vars
    PROVE  PipelineInv'
<1>1. /\ UNCHANGED <<rows, disk, queue, idCounter, autoFlush, job, inserted, store, air, nextBlob>>
      /\ UNCHANGED <<blobRows, blobDisk, external, puts, pass, spawned, turn, restarts>>
    BY DEF vars, hashVars, threadVars, storeVars, blobVars, backendVars
<1>2. HashInv'
    BY <1>1, StepKeepsInv DEF PipelineInv, hashVars
<1>3. JobsInv' /\ FrontInv' /\ \A id, b : WaitsFor(id, b) => WaitsFor(id, b)'
    BY <1>1, ThreadsAlone DEF threadVars
<1>4. PipelineTypeOK'
    BY <1>1 DEF PipelineInv, PipelineTypeOK
<1>5. BlobsInv'
    BY <1>1 DEF PipelineInv, BlobsInv
<1>6. CallsInv'
    BY <1>1, <1>3 DEF PipelineInv, CallsInv
<1>7. PendingInv'
    BY <1>1 DEF PipelineInv, PendingInv, ToCall
<1>8. StoredInv'
    BY <1>1 DEF PipelineInv, StoredInv, RefStored, ReadyIds
<1>9. TurnInv'
    BY <1>1 DEF PipelineInv, TurnInv
<1>10. SyncInv'
    BY <1>1 DEF PipelineInv, SyncInv
<1> QED  BY <1>2, <1>3, <1>4, <1>5, <1>6, <1>7, <1>8, <1>9, <1>10 DEF PipelineInv

\* Every step of every thread, store, backend process and of data_flush, and
\* every crash, keeps the invariant.
LEMMA PipelineStepKeepsInv ==
    ASSUME PipelineInv, [Next]_vars
    PROVE  PipelineInv'
<1>1. ASSUME NEW t \in Thread, NEW h \in Hash, NEW fired \in BOOLEAN, ReserveOk(t, h, fired)
      PROVE  PipelineInv'
    BY <1>1, ReserveOkKeepsInv
<1>2. ASSUME NEW t \in Thread, NEW h \in Hash, HashKnown(t, h)
      PROVE  PipelineInv'
    BY <1>2, PiggybackKeepsInv
<1>3. ASSUME NEW t \in Thread, ThreadStep(t)
      PROVE  PipelineInv'
    <2>1. CASE Piggyback(t)
        BY <2>1, PiggybackKeepsInv
    <2>2. CASE StoreEmpty(t)
        BY <2>2, StoreEmptyKeepsInv
    <2>3. CASE StoreAppend(t)
        BY <2>3, StoreAppendKeepsInv
    <2>4. CASE UpdateAndReturn(t)
        BY <2>4, UpdateKeepsInv
    <2>5. CASE StoreFull(t)
        <3>1. StoreOf[t] \in Store /\ t # Main
            BY PipelineAssumption
        <3> QED  BY <2>5, <3>1, InAirKeepsInv DEF StoreFull
    <2> QED  BY <1>3, <2>1, <2>2, <2>3, <2>4, <2>5 DEF ThreadStep
<1>4. ASSUME NEW s \in Store, StoreStep(s)
      PROVE  PipelineInv'
    BY <1>4, PutNowKeepsInv, CommitDoneKeepsInv, PutStartKeepsInv, PollKeepsInv, CallBackKeepsInv
       DEF StoreStep
<1>5. ASSUME NEW id \in spawned, NEW fired \in BOOLEAN, SpawnedCallBack(id, fired)
      PROVE  PipelineInv'
    BY <1>5, SpawnedCallBackKeepsInv
<1>6. ASSUME NEW b \in DOMAIN puts, PutExits(b)
      PROVE  PipelineInv'
    BY <1>6, PutExitsKeepsInv
<1>7. ASSUME NEW b \in pass, PollStep(b)
      PROVE  PipelineInv'
    BY <1>7, PollKeepsInv, ReapCallBackKeepsInv DEF PollStep
<1>8. ASSUME StartDataFlush \/ FlushEmptyStore \/ DataFlushReturns
      PROVE  PipelineInv'
    BY <1>8, DataFlushKeepsInv
<1>9. ASSUME FlushStore
      PROVE  PipelineInv'
    <2>1. Stores[turn] \in Store
        BY <1>9, ConstantFacts DEF FlushStore
    <2> QED  BY <1>9, <2>1, InAirKeepsInv DEF FlushStore
<1>10. ASSUME PipelineRestart
       PROVE  PipelineInv'
    BY <1>10, PipelineRestartKeepsInv
<1>11. ASSUME UNCHANGED vars
       PROVE  PipelineInv'
    BY <1>11, StutterKeepsInv
<1> QED  BY <1>1, <1>2, <1>3, <1>4, <1>5, <1>6, <1>7, <1>8, <1>9, <1>10, <1>11 DEF Next

\* What holds between any two steps of the pipeline: who holds each callback,
\* for which blob it waits, and where that blob is.
THEOREM PipelineInvariant == Spec => []PipelineInv
BY PipelineInit, PipelineStepKeepsInv, PTL DEF Spec

\* The locals of insert_chunk, the blob stores and the backends hold what their
\* types say, whatever thread runs when.
THEOREM PipelineTypeCorrect == Spec => []PipelineTypeOK
<1>1. PipelineInv => PipelineTypeOK
    BY DEF PipelineInv
<1> QED  BY <1>1, PipelineInvariant, PTL

\* A hash that is ready, in memory or in the saved table, has its content in
\* external storage and its blob in the corresponding blobs table.
THEOREM ReadyHashesAreStored == Spec => []ReadyIsStored
<1>1. PipelineInv => ReadyIsStored
    BY DEF PipelineInv, StoredInv, BlobsInv, RefStored, ReadyIsStored, Stored
<1> QED  BY <1>1, PipelineInvariant, PTL

\* Outstanding and ToCall speak of the same callbacks.
LEMMA OutstandingCalls ==
    ASSUME NEW id
    PROVE  id \in Outstanding <=> ToCall(id)
BY DEF Outstanding, ToCall

\* No callback panics: once insert_chunk has released m, the entry the callback
\* completes is in the queue, pending, with the reference update_reserved set.
THEOREM CallbacksFindTheirEntry == Spec => []CallbackFindsEntry
<1>1. PipelineInv => CallbackFindsEntry
    <2> SUFFICES ASSUME PipelineInv, NEW id \in Outstanding
                 PROVE  /\ id \in DOMAIN queue
                        /\ queue[id].status = "Pending"
                        /\ HoldsM(id) \/ queue[id].pref # NoRef
        BY DEF CallbackFindsEntry
    <2>1. ToCall(id)
        BY OutstandingCalls
    <2>2. PICK b \in 0..MaxBlob : WaitsFor(id, b)
        <3>1. 0 \in 0..MaxBlob /\ \A s \in Store : {store[s].blob, air[s].blob} \subseteq 0..MaxBlob
            BY ConstantFacts DEF PipelineInv, PipelineTypeOK
        <3>2. DOMAIN puts \subseteq 0..MaxBlob
            BY BlobIds DEF PipelineInv, BlobsInv
        <3> QED  BY <2>1, <3>1, <3>2 DEF ToCall, PipelineInv, CallsInv
    <2>3. b # NoRef
        BY PipelineAssumption, RefAssumption
    <2> QED  BY <2>2, <2>3 DEF WaitsFor, HoldsM, Holds
<1> QED  BY <1>1, PipelineInvariant, PTL

\* No reservation is orphaned: whatever pop_min_if_complete still waits for has
\* a callback to come or a thread about to leave one.
THEOREM ReservationsAreOwned == Spec => []NoOrphanReservation
<1>1. PipelineInv => NoOrphanReservation
    BY OutstandingCalls DEF PipelineInv, PendingInv, NoOrphanReservation, HoldsM
<1> QED  BY <1>1, PipelineInvariant, PTL

\* With a backend that is done when it returns, commit_done tags only blobs that
\* are in external storage.  (With a CmdBackend it does not: see the runs.)
THEOREM DoneBlobsAreStored ==
    ASSUME ~Async
    PROVE  Spec => []DoneBlobIsStored
<1>1. PipelineInv => DoneBlobIsStored
    BY DEF PipelineInv, SyncInv, DoneBlobIsStored
<1> QED  BY <1>1, PipelineInvariant, PTL

\* With such a backend, data_flush leaves nothing in the memory of the hash
\* index but what the threads of empty chunks have yet to commit.
THEOREM DataFlushLeavesNothing ==
    ASSUME ~Async
    PROVE  Spec => []FlushLeavesNothing
<1>1. PipelineInv => FlushLeavesNothing
    <2> SUFFICES ASSUME PipelineInv, Flushed, spawned = {}
                 PROVE  DOMAIN queue = {}
        BY DEF FlushLeavesNothing
    <2>1. turn \in Nat /\ turn > Len(Stores) /\ Len(Stores) \in Nat
        BY ConstantFacts DEF PipelineInv, PipelineTypeOK, Flushed
    <2>2. turn # 0 /\ turn \notin DOMAIN Stores /\ \A k \in DOMAIN Stores : k < turn
        BY <2>1, ConstantFacts
    <2>3. \A t \in Thread : job[t].at = "idle"
        BY <2>2 DEF PipelineInv, TurnInv
    <2>4. \A s \in Store : store[s].refs = <<>>
        BY <2>2 DEF PipelineInv, TurnInv, Store
    <2>5. ASSUME NEW s \in Store PROVE air[s].calls = <<>>
        <3>1. air[s].by \in Thread \cup {Main}
            BY DEF PipelineInv, PipelineTypeOK
        <3>2. air[s].step = "free"
            BY <2>2, <2>3, <3>1 DEF PipelineInv, TurnInv
        <3> QED  BY <3>2 DEF PipelineInv, BlobsInv
    <2>6. DOMAIN puts = {}
        BY DEF PipelineInv, SyncInv
    <2>7. \A id : ~ToCall(id)
        BY <2>4, <2>5, <2>6, EmptyCalls DEF ToCall
    <2>8. \A id \in DOMAIN queue : queue[id].status # "Pending"
        BY <2>3, <2>7 DEF PipelineInv, PendingInv
    <2> QED  BY <2>8 DEF PipelineInv, FrontInv
<1> QED  BY <1>1, PipelineInvariant, PTL

-----------------------------------------------------------------------------
\* The refinement of HashIndex.

\* A callback that m lets through meets the demand of the hash index.
LEMMA CallbackIsAllowed ==
    ASSUME PipelineInv, NEW id, NEW b \in 0..MaxBlob, WaitsFor(id, b), ~HoldsM(id),
           NEW fired \in BOOLEAN, CommitHash(id, fired)
    PROVE  HashNext
<1>1. id \in DOMAIN queue /\ queue[id].pref = b
    BY DEF WaitsFor, HoldsM, Holds
<1>2. b # NoRef
    BY PipelineAssumption, RefAssumption
<1>3. Callback(id, fired)
    BY <1>1, <1>2 DEF Callback
<1> QED  BY <1>1, <1>3 DEF HashNext

\* Every step of the pipeline is one the hash index allows, or leaves it alone.
LEMMA PipelineStepIsHashStep ==
    ASSUME PipelineInv, [Next]_vars
    PROVE  [HashNext]_hashVars
<1>0. /\ 0 \in 0..MaxBlob /\ \A s \in Store : air[s].blob \in 0..MaxBlob
      /\ DOMAIN puts \subseteq 0..MaxBlob /\ pass \subseteq DOMAIN puts
    BY BlobIds, ConstantFacts DEF PipelineInv, PipelineTypeOK, BlobsInv
<1>1. ASSUME NEW t \in Thread, NEW h \in Hash, NEW fired \in BOOLEAN, ReserveOk(t, h, fired)
      PROVE  HashNext
    BY <1>1 DEF ReserveOk, HashNext
<1>2. ASSUME NEW t \in Thread, NEW h \in Hash, HashKnown(t, h)
      PROVE  UNCHANGED hashVars
    BY <1>2 DEF HashKnown
<1>3. ASSUME NEW s, NEW who, InAir(s, who)
      PROVE  HashNext
    BY <1>3 DEF InAir, HashNext
<1>4. ASSUME NEW t \in Thread, ThreadStep(t)
      PROVE  [HashNext]_hashVars
    <2>1. ASSUME UpdateAndReturn(t) PROVE HashNext
        <3>1. /\ job[t].id \in DOMAIN queue /\ queue[job[t].id].pref = NoRef
              /\ job[t].ref \in PRef
            BY <2>1 DEF UpdateAndReturn, PipelineInv, PipelineTypeOK, JobsInv
        <3>2. StoreDone(job[t].id, job[t].ref)
            BY <2>1, <3>1 DEF UpdateAndReturn, StoreDone
        <3> QED  BY <3>1, <3>2 DEF HashNext
    <2> QED  BY <1>3, <1>4, <2>1 DEF ThreadStep, Piggyback, StoreEmpty, StoreAppend, StoreFull
<1>5. ASSUME NEW s \in Store, StoreStep(s)
      PROVE  [HashNext]_hashVars
    <2>1. ASSUME NEW fired \in BOOLEAN, CallBack(s, fired) PROVE HashNext
        <3>1. air[s].calls \in Seq(Nat) /\ air[s].calls # <<>>
            BY <2>1 DEF CallBack, PipelineInv, PipelineTypeOK
        <3>2. WaitsFor(Head(air[s].calls), air[s].blob)
            BY <3>1, TailCall DEF PipelineInv, CallsInv
        <3> QED  BY <1>0, <2>1, <3>2, CallbackIsAllowed DEF CallBack
    <2>2. ASSUME CommitDone(s) PROVE HashNext
        BY <2>2 DEF CommitDone, HashNext
    <2> QED  BY <1>5, <2>1, <2>2 DEF StoreStep, PutNow, PutStart, PollPuts
<1>6. ASSUME NEW id \in spawned, NEW fired \in BOOLEAN, SpawnedCallBack(id, fired)
      PROVE  HashNext
    <2>1. WaitsFor(id, 0)
        BY DEF PipelineInv, CallsInv
    <2> QED  BY <1>0, <1>6, <2>1, CallbackIsAllowed DEF SpawnedCallBack
<1>7. ASSUME NEW b \in DOMAIN puts, PutExits(b)
      PROVE  UNCHANGED hashVars
    BY <1>7 DEF PutExits
<1>8. ASSUME NEW b \in pass, PollStep(b)
      PROVE  [HashNext]_hashVars
    <2>1. ASSUME NEW fired \in BOOLEAN, ReapCallBack(b, fired) PROVE HashNext
        <3>1. b \in DOMAIN puts /\ puts[b].calls \in Seq(Nat) /\ puts[b].calls # <<>>
            BY <1>0, <2>1 DEF ReapCallBack, PipelineInv, PipelineTypeOK
        <3>2. WaitsFor(Head(puts[b].calls), b)
            BY <3>1, TailCall DEF PipelineInv, CallsInv
        <3> QED  BY <1>0, <2>1, <3>1, <3>2, CallbackIsAllowed DEF ReapCallBack
    <2> QED  BY <1>8, <2>1 DEF PollStep, PollRunning, ReapDone
<1>9. ASSUME StartDataFlush \/ FlushStore \/ FlushEmptyStore \/ DataFlushReturns \/ PipelineRestart
      PROVE  [HashNext]_hashVars
    BY <1>3, <1>9
       DEF StartDataFlush, FlushStore, FlushEmptyStore, DataFlushReturns, PipelineRestart, HashNext
<1>10. ASSUME UNCHANGED vars
       PROVE  UNCHANGED hashVars
    BY <1>10 DEF vars
<1> QED  BY <1>1, <1>2, <1>4, <1>5, <1>6, <1>7, <1>8, <1>9, <1>10 DEF Next

\* The threads use the hash index as it demands: the reference is set once,
\* between the reservation and the callback, which the mutex m is there for.
THEOREM PipelineRefinesHashIndex == Spec => ImplementsHashIndex
<1>1. Init => HashInit
    BY DEF Init
<1> QED  BY <1>1, PipelineInvariant, PipelineStepIsHashStep, PTL
         DEF Spec, ImplementsHashIndex, HashSpec

\* So the pipeline inherits what is proved of the index: whatever the threads
\* do and whenever a crash comes, no ready hash has a missing child ...
THEOREM PipelineChildsNeverDangle == Spec => []NoDanglingChilds
BY PipelineRefinesHashIndex, ChildsNeverDangle, PTL DEF ImplementsHashIndex

\* ... and the hashes form the abstract durable set.
THEOREM PipelineRefinesDurableHashSet == Spec => ImplementsDurableHashSet
BY PipelineRefinesHashIndex, HashIndexRefines, PTL DEF ImplementsHashIndex

=============================================================================

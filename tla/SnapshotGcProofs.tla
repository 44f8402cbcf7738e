-------------------------- MODULE SnapshotGcProofs --------------------------
(***************************************************************************)
(* Proofs about SnapshotGc: snapshots keep what they need, their counts    *)
(* are exact, and resume leaves nothing unfinished, for any hashes, trees  *)
(* and contents and any number of commits and restarts.                    *)
(*                                                                         *)
(* What holds of the tables in the open transaction holds of the committed *)
(* ones too, so each part of the invariant is a predicate of a database d. *)
(***************************************************************************)
EXTENDS SnapshotGc, FiniteSetTheorems, WellFoundedInduction, TLAPS

-----------------------------------------------------------------------------
\* The invariant, of one database d.

Row == [hash : Hash, tag : Tag, ready : BOOLEAN, blob : Nat]
Snap == [tag : Tag, hash : Root \cup {NoHash}]

\* The tables, with ids up to n, snapshots up to k and blobs up to m.
IsTables(d, n, k, m) ==
    /\ d = [rows |-> d.rows, cnt |-> d.cnt, snaps |-> d.snaps, blobs |-> d.blobs]
    /\ d.rows \in [DOMAIN d.rows -> Row] /\ DOMAIN d.rows \subseteq 1..n
    /\ d.cnt \in [DOMAIN d.cnt -> Int]
    /\ d.snaps \in [DOMAIN d.snaps -> Snap] /\ DOMAIN d.snaps \subseteq 1..k
    /\ d.blobs \in [DOMAIN d.blobs -> Tag] /\ DOMAIN d.blobs \subseteq 1..m

Unique(d) == \A i, j \in DOMAIN d.rows : d.rows[i].hash = d.rows[j].hash => i = j

Open(d) == {s \in DOMAIN d.snaps : d.snaps[s].tag # "Done"}

\* At most one snapshot is being worked on, and one whose commit has not been
\* counted is of the content c.
SnapsInv(d, c) ==
    /\ \A s, t \in Open(d) : s = t
    /\ \A s \in DOMAIN d.snaps :
        /\ d.snaps[s].tag \in {"Done", "Reserved", "Complete", "WillDelete", "ReadyDelete"}
        /\ d.snaps[s].tag = "Reserved" => d.snaps[s].hash \in {NoHash, c}
        /\ d.snaps[s].tag # "Reserved" => d.snaps[s].hash \in Root

\* The tags of rows that resume reads, and the snapshot that they are about.
TagsInv(d) ==
    \A i \in DOMAIN d.rows :
        /\ d.rows[i].tag \in {"Done", "Reserved", "InProgress", "ReadyDelete"}
        /\ d.rows[i].tag = "InProgress" =>
               \E s \in DOMAIN d.snaps : /\ d.snaps[s].hash = d.rows[i].hash
                                         /\ d.snaps[s].tag \in {"Reserved", "Complete"}
        /\ d.rows[i].tag = "ReadyDelete" =>
               /\ d.rows[i].ready
               /\ \E s \in DOMAIN d.snaps : /\ d.snaps[s].hash = d.rows[i].hash
                                            /\ d.snaps[s].tag \in {"WillDelete", "ReadyDelete"}

\* The root of a snapshot that has been counted off stays until its row goes.
RootInv(d) ==
    \A s \in DOMAIN d.snaps :
        d.snaps[s].tag = "ReadyDelete" =>
            \E i \in DOMAIN d.rows : d.rows[i].hash = d.snaps[s].hash /\ d.rows[i].ready

HasTag(d, h, t) == \E i \in DOMAIN d.rows : d.rows[i].hash = h /\ d.rows[i].tag = t

\* The snapshots whose listings the counts stand for.
Counted(d) ==
    {s \in DOMAIN d.snaps :
        \/ d.snaps[s].tag \in {"Done", "Complete"}
        \/ d.snaps[s].tag = "Reserved" /\ HasTag(d, d.snaps[s].hash, "InProgress")
        \/ d.snaps[s].tag = "WillDelete" /\ ~HasTag(d, d.snaps[s].hash, "ReadyDelete")}

Refs(d, h) == {s \in Counted(d) : h \in Listing(d.snaps[s].hash)}

FilesThere(d, L, F) == \A f \in F : \A h \in Tree[f] \ L : Located(d, h)

\* What a counted snapshot needs is there, but for the lost hashes L, and so
\* are the files F that were scanned for a commit that may be run again.
NeedInv(d, L) ==
    \A s \in Counted(d) : \A h \in Need(d.snaps[s].hash) \ L : Located(d, h)

FilesInv(d, L, F) ==
    (\E s \in DOMAIN d.snaps : d.snaps[s].tag = "Reserved") => FilesThere(d, L, F)

\* Counts do not fall below the references; a count is negative only in a row
\* that no restart takes away.
CountInv(d, L) ==
    /\ \A i \in DOMAIN d.rows :
        d.rows[i].hash \notin L => Count(d, i) >= Cardinality(Refs(d, d.rows[i].hash))
    /\ \A i \in DOMAIN d.cnt :
        d.cnt[i] < 0 => i \in DOMAIN d.rows /\ d.rows[i].ready

\* A tree lies below its top, and is ready when the top is.
TreeInv(d) ==
    \A j \in DOMAIN d.rows : \A g \in Tree[d.rows[j].hash] :
        \E i \in DOMAIN d.rows : /\ d.rows[i].hash = g /\ i <= j
                                 /\ d.rows[j].ready => d.rows[i].ready

BlobInv(d, E) == \A i \in DOMAIN d.rows : d.rows[i].ready => d.rows[i].blob \in E

\* Before a loss and a collection: the counts are the references, and the tags
\* of unfinished work are those of the listing being counted.
ExactInv(d) ==
    /\ \A i \in DOMAIN d.rows : Count(d, i) = Cardinality(Refs(d, d.rows[i].hash))
    /\ \A i \in DOMAIN d.cnt \ DOMAIN d.rows : d.cnt[i] = 0

MarksInv(d, c) ==
    \A i \in DOMAIN d.rows :
        d.rows[i].tag = "Reserved" =>
            \E s \in Open(d) : d.snaps[s].tag = "Reserved" => d.rows[i].hash \in Listing(c)

Good(d, n, k, m, L, c, F, E) ==
    /\ IsTables(d, n, k, m)
    /\ Unique(d)
    /\ SnapsInv(d, c)
    /\ TagsInv(d)
    /\ RootInv(d)
    /\ NeedInv(d, L)
    /\ FilesInv(d, L, F)
    /\ CountInv(d, L)
    /\ TreeInv(d)
    /\ BlobInv(d, E)

-----------------------------------------------------------------------------
\* The invariant of the operation under way.

Idle == pc \in {"idle", "reserve", "gc_blobs", "gc_failed"}
Committing == pc \in {"tops", "register"}
Busy == pc \in {"tops", "register", "ready_commit", "register_cleanup", "commit_done",
                "will_delete", "deregister", "deregister_count", "ready_delete",
                "deregister_cleanup", "snapshot_delete"}

\* A top that the commit has been through is tagged, with its tree in the index.
Passed(d, L, t) == HasTag(d, t, "Reserved") /\ \A h \in Tree[t] \ L : Located(d, h)

AllDone(d) == \A i \in DOMAIN d.rows : d.rows[i].tag = "Done"

PhaseInv ==
    /\ pc \in {"resume", "panic"} \/ Idle \/ Busy
    /\ Idle => Open(db) = {}
    /\ Busy => cur \in DOMAIN db.snaps /\ Open(db) \subseteq {cur}
    /\ pc = "panic" => lost # {} \/ MeetsUnscanned \/ ListsPending
    /\ pc = "reserve" => FilesThere(db, lost, scanned)
    /\ pc \in {"tops", "register"} =>
        /\ db.snaps[cur].tag = "Reserved"
        /\ cur \notin Counted(db)
    /\ pc = "tops" =>
        left \subseteq Tops[content] /\ \A t \in Tops[content] \ left : Passed(db, lost, t)
    /\ pc = "register" =>
        /\ db.snaps[cur].hash = content
        /\ \A t \in Tops[content] : Passed(db, lost, t)
        /\ \A h \in Tree[content] : Located(db, h)
    /\ pc = "ready_commit" => db.snaps[cur].tag \in {"Reserved", "Complete"} /\ cur \in Counted(db)
    /\ pc = "register_cleanup" => db.snaps[cur].tag = "Complete"
    /\ pc = "commit_done" => db.snaps[cur].tag = "Complete" /\ AllDone(db)
    /\ pc = "will_delete" => db.snaps[cur].tag \in {"Done", "WillDelete"} /\ cur \in Counted(db)
    /\ pc = "deregister" => db.snaps[cur].tag = "WillDelete" /\ cur \in Counted(db)
    /\ pc = "deregister_count" =>
        /\ db.snaps[cur].tag = "WillDelete"
        /\ cur \in Counted(db)
        /\ \A h \in Listing(db.snaps[cur].hash) : HasTag(db, h, "Reserved")
        /\ \A i \in DOMAIN db.rows :
            db.rows[i].tag = IF db.rows[i].hash \in Listing(db.snaps[cur].hash)
                             THEN "Reserved" ELSE "Done"
    /\ pc = "ready_delete" => /\ db.snaps[cur].tag \in {"WillDelete", "ReadyDelete"}
                              /\ cur \notin Counted(db)
    /\ pc = "deregister_cleanup" => db.snaps[cur].tag = "ReadyDelete"
    /\ pc = "snapshot_delete" => db.snaps[cur].tag = "ReadyDelete" /\ AllDone(db)

\* Rows that wait for their blob are of a file, or of a tree that is counted or
\* about to be.
Held(i) ==
    \/ \E f \in File : db.rows[i].hash \in Tree[f]
    \/ \E j \in DOMAIN db.rows :
        /\ db.rows[i].hash \in Tree[db.rows[j].hash]
        /\ \/ Count(db, j) > 0
           \/ Committing /\ db.rows[j].tag = "Reserved"
           \/ pc = "register" /\ db.rows[j].hash = content

WaitInv ==
    /\ pc # "panic" => \A i \in Pending(db) : Held(i)
    /\ pc \in {"resume", "ready_delete", "deregister_cleanup", "snapshot_delete"} => Pending(db) = {}

SweepInv ==
    /\ pc = "gc_blobs" => \A d \in {db, disk} : \A i \in DOMAIN d.rows :
           d.rows[i].ready => d.rows[i].blob \notin left
    /\ FirstGcIsExact

FirstInv(d) ==
    (~gcRan /\ lost = {}) => ExactInv(d) /\ (pc # "gc_blobs" => MarksInv(d, content))

StateInv ==
    /\ content \in Root /\ scanned \subseteq Tops[content] \cap File
    /\ lost \subseteq Hash /\ \A h \in lost : Tree[h] \subseteq lost
    /\ idCounter \in Nat /\ nextBlob \in Nat /\ commits \in Nat
    /\ pc = "reserve" => commits - 1 \in Nat /\ DOMAIN db.snaps \subseteq 1..(commits - 1)
    /\ disk.snaps = db.snaps
    /\ gcRan \in BOOLEAN

GoodNow(d) == Good(d, idCounter, commits, nextBlob, lost, content, scanned, external)

SnapshotInv ==
    /\ StateInv
    /\ GoodNow(db) /\ GoodNow(disk)
    /\ PhaseInv
    /\ WaitInv
    /\ SweepInv
    /\ FirstInv(db) /\ FirstInv(disk)

-----------------------------------------------------------------------------
\* Finding ids.

\* The highest key of a bounded set bounds the set: what next_id and the
\* refreshed counter are read off.
LEMMA MaxKeyBounds ==
    ASSUME NEW n \in Nat, NEW S, S \subseteq 1..n
    PROVE  MaxKey(S) \in 0..n /\ S \subseteq 1..MaxKey(S)
<1>1. CASE S = {}
    BY <1>1 DEF MaxKey
<1>2. CASE S # {}
    <2> DEFINE U == {u \in Nat : \A j \in S : j <= u}
    <2>1. n \in U /\ U \subseteq Nat
        BY SMT
    <2>2. PICK m \in U : \A u \in U : ~(<<u, m>> \in OpToRel(<, Nat))
        <3> HIDE DEF U
        <3> QED  BY <2>1, NatLessThanWellFounded, WFMin
    <2>3. m \in Nat /\ \A u \in U : m <= u
        <3>1. m \in Nat
            BY <2>1, <2>2
        <3>2. SUFFICES ASSUME NEW u \in U PROVE m <= u
            BY <3>1
        <3>3. u \in Nat /\ ~(u < m)
            BY <2>1, <2>2, <3>1 DEF OpToRel
        <3> QED  BY <3>1, <3>3
    <2>4. m \in S
        <3> SUFFICES ASSUME m \notin S PROVE FALSE
            OBVIOUS
        <3>1. \A j \in S : j \in Nat /\ 1 <= j /\ j < m
            BY <2>3
        <3>2. PICK j0 \in S : j0 \in Nat /\ 1 <= j0 /\ j0 < m
            BY <3>1, <1>2
        <3>3. m - 1 \in Nat /\ \A j \in S : j <= m - 1
            BY <3>1, <3>2, <2>3
        <3>4. m <= m - 1
            BY <2>3, <3>3
        <3> QED  BY <2>3, <3>4
    <2>5. \E i \in S : \A j \in S : j <= i
        BY <2>4
    <2>6. PICK k : k = MaxKey(S) /\ k \in S /\ \A j \in S : j <= k
        BY <1>2, <2>5 DEF MaxKey
    <2>7. \A j \in S : j \in Nat /\ 1 <= j /\ j <= n
        BY SMT
    <2>8. k \in 0..n /\ S \subseteq 1..k
        BY <2>6, <2>7
    <2> QED  BY <2>6, <2>8
<1> QED  BY <1>1, <1>2

\* A hash that is in the index is found under its one id.
LEMMA GetIdFinds ==
    ASSUME NEW d, Unique(d), NEW h, Located(d, h)
    PROVE  /\ GetId(d, h) \in DOMAIN d.rows /\ d.rows[GetId(d, h)].hash = h
           /\ \A i \in DOMAIN d.rows : d.rows[i].hash = h => i = GetId(d, h)
BY DEF Unique, Located, GetId

-----------------------------------------------------------------------------
\* What the operations on the tables leave in each table.

\* The effect of SetTag on the tables.
Retagged(d, e, I, t) ==
    /\ e.cnt = d.cnt /\ e.snaps = d.snaps /\ e.blobs = d.blobs
    /\ DOMAIN e.rows = DOMAIN d.rows
    /\ \A i \in DOMAIN d.rows :
        /\ e.rows[i].hash = d.rows[i].hash
        /\ e.rows[i].ready = d.rows[i].ready
        /\ e.rows[i].blob = d.rows[i].blob
        /\ e.rows[i].tag = IF i \in I THEN t ELSE d.rows[i].tag

\* Tagging hashes changes only their tags.
LEMMA SetTagEffect ==
    ASSUME NEW d, NEW n, NEW k, NEW m, IsTables(d, n, k, m), NEW I, NEW t \in Tag
    PROVE  IsTables(SetTag(d, I, t), n, k, m) /\ Retagged(d, SetTag(d, I, t), I, t)
<1>1. PICK R : R = [i \in DOMAIN d.rows |->
                       IF i \in I THEN [d.rows[i] EXCEPT !.tag = t] ELSE d.rows[i]]
    OBVIOUS
<1>2. PICK e : e = SetTag(d, I, t)
    OBVIOUS
<1>3. e = [d EXCEPT !.rows = R]
    BY <1>1, <1>2 DEF SetTag
<1>4. e = [rows |-> R, cnt |-> d.cnt, snaps |-> d.snaps, blobs |-> d.blobs]
    BY <1>3 DEF IsTables
<1>5. DOMAIN R = DOMAIN d.rows /\ \A i \in DOMAIN d.rows : d.rows[i] \in Row
    BY <1>1 DEF IsTables
<1>6. ASSUME NEW i \in DOMAIN d.rows
      PROVE  /\ R[i] \in Row
             /\ R[i].hash = d.rows[i].hash /\ R[i].ready = d.rows[i].ready
             /\ R[i].blob = d.rows[i].blob
             /\ R[i].tag = IF i \in I THEN t ELSE d.rows[i].tag
    BY <1>1, <1>5 DEF Row
<1>7. R \in [DOMAIN d.rows -> Row]
    BY <1>1, <1>6
<1>8. IsTables(e, n, k, m)
    BY <1>4, <1>5, <1>7 DEF IsTables
<1>9. Retagged(d, e, I, t)
    BY <1>4, <1>5, <1>6 DEF Retagged
<1> QED  BY <1>2, <1>8, <1>9

\* The counts of the rows in I change by n, all else stays.
LEMMA AddCountEffect ==
    ASSUME NEW d, NEW n, NEW k, NEW m, IsTables(d, n, k, m), NEW I, NEW a \in Int
    PROVE  LET e == AddCount(d, I, a)
           IN  /\ IsTables(e, n, k, m)
               /\ e.rows = d.rows /\ e.snaps = d.snaps /\ e.blobs = d.blobs
               /\ DOMAIN e.cnt = DOMAIN d.cnt \cup I
               /\ \A i : Count(d, i) \in Int
               /\ \A i : Count(e, i) = Count(d, i) + (IF i \in I THEN a ELSE 0)
<1>1. PICK C : C = [i \in DOMAIN d.cnt \cup I |-> Count(d, i) + (IF i \in I THEN a ELSE 0)]
    OBVIOUS
<1>2. PICK e : e = AddCount(d, I, a)
    OBVIOUS
<1>3. e = [d EXCEPT !.cnt = C]
    BY <1>1, <1>2 DEF AddCount
<1>4. e = [rows |-> d.rows, cnt |-> C, snaps |-> d.snaps, blobs |-> d.blobs]
    BY <1>3 DEF IsTables
<1>5. ASSUME NEW i PROVE Count(d, i) \in Int
    BY DEF Count, IsTables
<1>6. DOMAIN C = DOMAIN d.cnt \cup I /\ C \in [DOMAIN C -> Int]
    BY <1>1, <1>5
<1>7. IsTables(e, n, k, m)
    BY <1>4, <1>6 DEF IsTables
<1>8. ASSUME NEW i
      PROVE  Count(e, i) = Count(d, i) + (IF i \in I THEN a ELSE 0)
    <2>1. Count(e, i) = IF i \in DOMAIN C THEN C[i] ELSE 0
        BY <1>4 DEF Count
    <2>2. i \notin DOMAIN d.cnt => Count(d, i) = 0
        BY DEF Count
    <2> QED  BY <1>1, <1>5, <1>6, <2>1, <2>2
<1>9. e.rows = d.rows /\ e.snaps = d.snaps /\ e.blobs = d.blobs /\ DOMAIN e.cnt = DOMAIN d.cnt \cup I
    BY <1>4, <1>6
<1> QED  BY <1>2, <1>5, <1>7, <1>8, <1>9

\* Replacing the table of snapshots leaves the other tables alone.
LEMMA SnapsEffect ==
    ASSUME NEW d, NEW n, NEW k, NEW m, IsTables(d, n, k, m), NEW q, NEW S,
           S \in [DOMAIN S -> Snap], DOMAIN S \subseteq 1..q
    PROVE  LET e == [d EXCEPT !.snaps = S]
           IN  /\ IsTables(e, n, q, m)
               /\ e.rows = d.rows /\ e.cnt = d.cnt /\ e.blobs = d.blobs /\ e.snaps = S
<1>1. PICK e : e = [d EXCEPT !.snaps = S]
    OBVIOUS
<1>2. e = [rows |-> d.rows, cnt |-> d.cnt, snaps |-> S, blobs |-> d.blobs]
    BY <1>1 DEF IsTables
<1>3. IsTables(e, n, q, m)
    BY <1>2 DEF IsTables
<1> QED  BY <1>1, <1>2, <1>3

\* SnapshotSetTag changes one tag of one snapshot.
LEMMA SnapshotSetTagEffect ==
    ASSUME NEW d, NEW n, NEW k, NEW m, IsTables(d, n, k, m), NEW s \in DOMAIN d.snaps,
           NEW t \in Tag
    PROVE  LET e == SnapshotSetTag(d, s, t)
           IN  /\ IsTables(e, n, k, m)
               /\ e.rows = d.rows /\ e.cnt = d.cnt /\ e.blobs = d.blobs
               /\ DOMAIN e.snaps = DOMAIN d.snaps
               /\ \A r \in DOMAIN d.snaps :
                   /\ e.snaps[r].hash = d.snaps[r].hash
                   /\ e.snaps[r].tag = IF r = s THEN t ELSE d.snaps[r].tag
<1>1. PICK S : S = [d.snaps EXCEPT ![s] = [d.snaps[s] EXCEPT !.tag = t]]
    OBVIOUS
<1>2. PICK e : e = SnapshotSetTag(d, s, t)
    OBVIOUS
<1>3. e = [d EXCEPT !.snaps = S]
    BY <1>1, <1>2 DEF SnapshotSetTag
<1>4. d.snaps \in [DOMAIN d.snaps -> Snap] /\ DOMAIN d.snaps \subseteq 1..k
    BY DEF IsTables
<1>5. PICK v : v = [d.snaps[s] EXCEPT !.tag = t]
    OBVIOUS
<1>6. d.snaps[s] \in Snap
    BY <1>4
<1>7. v \in Snap /\ v.tag = t /\ v.hash = d.snaps[s].hash
    BY <1>5, <1>6 DEF Snap
<1>8. S = [d.snaps EXCEPT ![s] = v]
    BY <1>1, <1>5
<1>9. DOMAIN S = DOMAIN d.snaps /\ S \in [DOMAIN d.snaps -> Snap]
    BY <1>4, <1>7, <1>8
<1>10. \A r \in DOMAIN d.snaps : /\ S[r].hash = d.snaps[r].hash
                                 /\ S[r].tag = IF r = s THEN t ELSE d.snaps[r].tag
    BY <1>4, <1>7, <1>8
<1>11. /\ IsTables(e, n, k, m)
       /\ e.rows = d.rows /\ e.cnt = d.cnt /\ e.blobs = d.blobs /\ e.snaps = S
    BY <1>3, <1>4, <1>9, SnapsEffect
<1> QED  BY <1>2, <1>9, <1>10, <1>11

\* A blob with the chunks of the rows in I makes them ready.
StoredIn(d, e, I, b) ==
    /\ e.cnt = d.cnt /\ e.snaps = d.snaps
    /\ DOMAIN e.rows = DOMAIN d.rows
    /\ \A i \in DOMAIN d.rows :
        /\ e.rows[i].hash = d.rows[i].hash
        /\ e.rows[i].tag = d.rows[i].tag
        /\ e.rows[i].ready = IF i \in I THEN TRUE ELSE d.rows[i].ready
        /\ e.rows[i].blob = IF i \in I THEN b ELSE d.rows[i].blob

\* The effect of Stored.
LEMMA StoredEffect ==
    ASSUME NEW d, NEW n, NEW k, NEW m \in Nat, IsTables(d, n, k, m), NEW I
    PROVE  LET e == Stored(d, I, m + 1)
           IN  IsTables(e, n, k, m + 1) /\ StoredIn(d, e, I, m + 1)
<1>1. PICK b : b = m + 1
    OBVIOUS
<1>2. PICK R : R = [i \in DOMAIN d.rows |->
                       IF i \in I THEN [d.rows[i] EXCEPT !.ready = TRUE, !.blob = b] ELSE d.rows[i]]
    OBVIOUS
<1>3. PICK B : B = [c \in DOMAIN d.blobs \cup {b} |-> IF c = b THEN "Done" ELSE d.blobs[c]]
    OBVIOUS
<1>4. PICK e : e = Stored(d, I, b)
    OBVIOUS
<1>5. e = [d EXCEPT !.rows = R, !.blobs = B]
    BY <1>2, <1>3, <1>4 DEF Stored
<1>6. e = [rows |-> R, cnt |-> d.cnt, snaps |-> d.snaps, blobs |-> B]
    BY <1>5 DEF IsTables
<1>7. DOMAIN R = DOMAIN d.rows /\ \A i \in DOMAIN d.rows : d.rows[i] \in Row
    BY <1>2 DEF IsTables
<1>8. b \in Nat
    BY <1>1
<1>9. ASSUME NEW i \in DOMAIN d.rows
      PROVE  /\ R[i] \in Row
             /\ R[i].hash = d.rows[i].hash /\ R[i].tag = d.rows[i].tag
             /\ R[i].ready = IF i \in I THEN TRUE ELSE d.rows[i].ready
             /\ R[i].blob = IF i \in I THEN b ELSE d.rows[i].blob
    <2>1. PICK r : r = d.rows[i]
        OBVIOUS
    <2>2. r \in Row
        BY <1>7, <2>1
    <2>3. PICK r2 : r2 = [r EXCEPT !.ready = TRUE, !.blob = b]
        OBVIOUS
    <2>4. r2 \in Row /\ r2.hash = r.hash /\ r2.tag = r.tag /\ r2.ready = TRUE /\ r2.blob = b
        BY <1>8, <2>2, <2>3 DEF Row
    <2>5. R[i] = IF i \in I THEN r2 ELSE r
        BY <1>2, <2>1, <2>3
    <2>6. CASE i \in I
        BY <2>1, <2>4, <2>5, <2>6
    <2>7. CASE i \notin I
        BY <2>1, <2>2, <2>5, <2>7
    <2> QED  BY <2>6, <2>7
<1>10. R \in [DOMAIN d.rows -> Row]
    BY <1>2, <1>9
<1>11. DOMAIN B = DOMAIN d.blobs \cup {b} /\ DOMAIN B \subseteq 1..b
    BY <1>1, <1>3 DEF IsTables
<1>12. B \in [DOMAIN B -> Tag]
    BY <1>3 DEF IsTables, Tag
<1>13. IsTables(e, n, k, b)
    BY <1>6, <1>7, <1>10, <1>11, <1>12 DEF IsTables
<1>14. StoredIn(d, e, I, b)
    BY <1>6, <1>7, <1>9 DEF StoredIn
<1> QED  BY <1>1, <1>4, <1>13, <1>14

-----------------------------------------------------------------------------
\* Insertion of the hashes that are missing.

\* New hashes get ids above n, one each, and in the order of Rank.
LEMMA RankIds ==
    ASSUME NEW N \in SUBSET Hash, NEW n \in Nat, NEW id,
           id = [h \in N |-> n + Cardinality({g \in N : Rank[g] <= Rank[h]})]
    PROVE  /\ n + Cardinality(N) \in Nat /\ n <= n + Cardinality(N)
           /\ \A h \in N : id[h] \in (n + 1)..(n + Cardinality(N))
           /\ \A g, h \in N : Rank[g] <= Rank[h] => id[g] <= id[h]
           /\ \A g, h \in N : id[g] = id[h] => g = h
<1>1. IsFiniteSet(N) /\ Cardinality(N) \in Nat
    BY SnapshotAssumption, FS_Subset, FS_CardinalityType
<1>2. \A h \in N : Rank[h] \in Nat
    BY SnapshotAssumption
<1>3. PICK low : low = [h \in N |-> {g \in N : Rank[g] <= Rank[h]}]
    OBVIOUS
<1>4. PICK c : c = [h \in N |-> Cardinality(low[h])]
    OBVIOUS
<1>5. \A h \in N : id[h] = n + c[h]
    BY <1>3, <1>4
<1>6. \A h \in N : low[h] \in SUBSET N /\ \A g \in N : g \in low[h] <=> Rank[g] <= Rank[h]
    BY <1>3
<1>7. PICK w : w = Cardinality(N)
    OBVIOUS
<1>8. ASSUME NEW h \in N
      PROVE  IsFiniteSet(low[h]) /\ c[h] = Cardinality(low[h]) /\ c[h] \in 1..w
    <2>1. h \in low[h]
        BY <1>2, <1>6
    <2>2. PICK S : S = low[h]
        OBVIOUS
    <2>3. S \in SUBSET N
        BY <1>6, <2>2
    <2>4. IsFiniteSet(S) /\ Cardinality(S) \in Nat /\ Cardinality(S) <= Cardinality(N)
        BY <1>1, <2>3, FS_Subset, FS_CardinalityType
    <2>5. Cardinality(S) # 0
        BY <2>1, <2>2, <2>4, FS_EmptySet
    <2>6. c[h] = Cardinality(S)
        BY <1>4, <2>2
    <2> QED  BY <1>1, <1>7, <2>2, <2>4, <2>5, <2>6
<1>9. ASSUME NEW g \in N, NEW h \in N, Rank[g] <= Rank[h]
      PROVE  c[g] <= c[h] /\ (c[g] = c[h] => low[g] = low[h])
    <2>1. low[g] \in SUBSET low[h]
        <3> SUFFICES ASSUME NEW f \in low[g] PROVE f \in low[h]
            OBVIOUS
        <3>1. f \in N /\ Rank[f] <= Rank[g]
            BY <1>6
        <3>2. Rank[f] <= Rank[h]
            BY <1>2, <1>9, <3>1
        <3> QED  BY <1>6, <3>1, <3>2
    <2>2. PICK S : S = low[h]
        OBVIOUS
    <2>3. PICK T : T = low[g]
        OBVIOUS
    <2>4. Cardinality(T) <= Cardinality(S) /\ (Cardinality(S) = Cardinality(T) => S = T)
        BY <1>8, <2>1, <2>2, <2>3, FS_Subset
    <2> QED  BY <1>8, <2>2, <2>3, <2>4
<1>10. ASSUME NEW g \in N, NEW h \in N, Rank[g] < Rank[h], c[g] = c[h]
       PROVE  FALSE
    <2>1. low[g] = low[h]
        BY <1>2, <1>9, <1>10
    <2>2. h \in low[h] /\ h \notin low[g]
        BY <1>2, <1>6, <1>10
    <2> QED  BY <2>1, <2>2
<1>11. w \in Nat /\ n + w \in Nat /\ n <= n + w
    BY <1>1, <1>7
<1>12. ASSUME NEW h \in N PROVE id[h] \in (n + 1)..(n + w)
    <2>1. PICK a : a = c[h]
        OBVIOUS
    <2>2. a \in 1..w /\ id[h] = n + a
        BY <1>5, <1>8, <2>1
    <2>3. n + a \in (n + 1)..(n + w)
        BY <1>11, <2>2
    <2> QED  BY <2>2, <2>3
<1>13. ASSUME NEW g \in N, NEW h \in N, Rank[g] <= Rank[h] PROVE id[g] <= id[h]
    <2>1. c[g] \in Nat /\ c[h] \in Nat
        BY <1>8, <1>11
    <2>2. PICK a : a = c[g]
        OBVIOUS
    <2>3. PICK b : b = c[h]
        OBVIOUS
    <2>4. id[g] = n + a /\ id[h] = n + b /\ a <= b /\ a \in Nat /\ b \in Nat
        BY <1>5, <1>9, <1>13, <2>1, <2>2, <2>3
    <2>5. n + a <= n + b
        BY <2>4
    <2> QED  BY <2>4, <2>5
<1>14. ASSUME NEW g \in N, NEW h \in N, id[g] = id[h] PROVE g = h
    <2>1. c[g] \in Nat /\ c[h] \in Nat
        BY <1>8, <1>11
    <2>2. n + c[g] = n + c[h]
        BY <1>5, <1>14
    <2>3. c[g] = c[h]
        BY <2>1, <2>2
    <2>4. Rank[g] = Rank[h]
        BY <1>2, <1>10, <2>3
    <2> QED  BY <2>4, SnapshotAssumption
<1>15. PICK x : x = n + w
    OBVIOUS
<1>16. x \in Nat /\ n <= x /\ \A h \in N : id[h] \in (n + 1)..x
    BY <1>11, <1>12, <1>15
<1>17. n + Cardinality(N) = x
    BY <1>7, <1>15
<1> QED  BY <1>13, <1>14, <1>16, <1>17

\* The effect of Insert: new rows, not ready, for the hashes of H that had none.
Inserted(d, e, H) ==
    /\ e.cnt = d.cnt /\ e.snaps = d.snaps /\ e.blobs = d.blobs
    /\ DOMAIN d.rows \subseteq DOMAIN e.rows
    /\ \A i \in DOMAIN d.rows : e.rows[i] = d.rows[i]
    /\ \A i \in DOMAIN e.rows \ DOMAIN d.rows :
        /\ e.rows[i].hash \in H /\ ~Located(d, e.rows[i].hash)
        /\ e.rows[i].tag = "Done" /\ ~e.rows[i].ready
    /\ \A h \in H : Located(e, h)

\* Inserting whole trees keeps rows unique and trees below their tops.
LEMMA InsertEffect ==
    ASSUME NEW d, idCounter \in Nat, NEW k, NEW m, IsTables(d, idCounter, k, m),
           Unique(d), TreeInv(d), NEW H \in SUBSET Hash, \A h \in H : Tree[h] \subseteq H
    PROVE  LET e == Insert(d, H)
           IN  /\ CountAfter(d, H) \in Nat /\ idCounter <= CountAfter(d, H)
               /\ IsTables(e, CountAfter(d, H), k, m)
               /\ Inserted(d, e, H)
               /\ Unique(e)
               /\ TreeInv(e)
<1>1. PICK n : n = idCounter
    OBVIOUS
<1>2. PICK N : N = Fresh(d, H)
    OBVIOUS
<1>3. PICK q : q = n + Cardinality(N)
    OBVIOUS
<1>4. PICK id : id = [h \in N |-> n + Cardinality({g \in N : Rank[g] <= Rank[h]})]
    OBVIOUS
<1>5. N \in SUBSET Hash /\ \A h \in N : h \in H /\ ~Located(d, h)
    BY <1>2 DEF Fresh
<1>6. /\ q \in Nat /\ n \in Nat /\ n <= q
      /\ \A h \in N : id[h] \in (n + 1)..q
      /\ \A g, h \in N : Rank[g] <= Rank[h] => id[g] <= id[h]
      /\ \A g, h \in N : id[g] = id[h] => g = h
    BY <1>1, <1>3, <1>4, <1>5, RankIds
<1>7. CountAfter(d, H) = q
    BY <1>1, <1>2, <1>3 DEF CountAfter
<1>8. PICK J : J = {id[h] : h \in N}
    OBVIOUS
<1>9. \A i \in DOMAIN d.rows : i \in 1..n /\ d.rows[i] \in Row
    BY <1>1 DEF IsTables
<1>10. \A i \in J : i \notin DOMAIN d.rows /\ i \in 1..q
    BY <1>6, <1>8, <1>9
<1>11. PICK R : R = [i \in DOMAIN d.rows \cup J |->
                       IF i \in DOMAIN d.rows THEN d.rows[i]
                       ELSE [hash |-> CHOOSE h \in N : id[h] = i,
                             tag |-> "Done", ready |-> FALSE, blob |-> 0]]
    OBVIOUS
<1>12. PICK e : e = Insert(d, H)
    OBVIOUS
<1>13. e = [d EXCEPT !.rows = R]
    <2>1. \A h \in N : id[h] = idCounter + Cardinality({g \in Fresh(d, H) : Rank[g] <= Rank[h]})
        BY <1>1, <1>2, <1>4
    <2>2. J = {idCounter + Cardinality({g \in Fresh(d, H) : Rank[g] <= Rank[h]}) : h \in Fresh(d, H)}
        BY <1>2, <1>8, <2>1
    <2>3. ASSUME NEW i
          PROVE  (CHOOSE h \in N : id[h] = i)
                   = CHOOSE h \in Fresh(d, H) :
                        idCounter + Cardinality({g \in Fresh(d, H) : Rank[g] <= Rank[h]}) = i
        BY <1>2, <2>1
    <2>4. PICK X : X =
            [i \in DOMAIN d.rows \cup
                   {idCounter + Cardinality({g \in Fresh(d, H) : Rank[g] <= Rank[h]}) : h \in Fresh(d, H)} |->
                IF i \in DOMAIN d.rows THEN d.rows[i]
                ELSE [hash |-> CHOOSE h \in Fresh(d, H) :
                                  idCounter + Cardinality({g \in Fresh(d, H) : Rank[g] <= Rank[h]}) = i,
                      tag |-> "Done", ready |-> FALSE, blob |-> 0]]
        OBVIOUS
    <2>5. X = [i \in DOMAIN X |-> X[i]] /\ DOMAIN X = DOMAIN d.rows \cup J
        BY <2>2, <2>4
    <2>6. ASSUME NEW i \in DOMAIN d.rows \cup J PROVE X[i] = R[i]
        <3>1. CASE i \in DOMAIN d.rows
            BY <1>11, <2>4, <3>1
        <3>2. CASE i \notin DOMAIN d.rows
            <4>1. X[i] = [hash |-> CHOOSE h \in Fresh(d, H) :
                                  idCounter + Cardinality({g \in Fresh(d, H) : Rank[g] <= Rank[h]}) = i,
                          tag |-> "Done", ready |-> FALSE, blob |-> 0]
                BY <2>2, <2>4, <3>2
            <4>2. R[i] = [hash |-> CHOOSE h \in N : id[h] = i,
                          tag |-> "Done", ready |-> FALSE, blob |-> 0]
                BY <1>11, <3>2
            <4> QED  BY <2>3, <4>1, <4>2
        <3> QED  BY <3>1, <3>2
    <2>7. R = [i \in DOMAIN R |-> R[i]] /\ DOMAIN R = DOMAIN d.rows \cup J
        BY <1>11
    <2>8. X = R
        BY <2>5, <2>6, <2>7
    <2> QED  BY <1>12, <2>4, <2>8 DEF Insert
<1>14. e = [rows |-> R, cnt |-> d.cnt, snaps |-> d.snaps, blobs |-> d.blobs]
    BY <1>13 DEF IsTables
<1>15. DOMAIN R = DOMAIN d.rows \cup J /\ \A i \in DOMAIN d.rows : R[i] = d.rows[i]
    BY <1>11
<1>16. ASSUME NEW i \in J
       PROVE  /\ R[i].hash \in N /\ id[R[i].hash] = i /\ R[i].tag = "Done"
              /\ R[i].ready = FALSE /\ R[i] \in Row
    <2>1. PICK h : h = CHOOSE g \in N : id[g] = i
        OBVIOUS
    <2>2. h \in N /\ id[h] = i
        BY <1>8, <2>1
    <2>3. R[i] = [hash |-> h, tag |-> "Done", ready |-> FALSE, blob |-> 0]
        BY <1>10, <1>11, <2>1
    <2> QED  BY <1>5, <2>2, <2>3 DEF Row, Tag
<1>17. ASSUME NEW h \in N PROVE id[h] \in J /\ R[id[h]].hash = h
    <2>1. PICK i : i = id[h]
        OBVIOUS
    <2>2. i \in J
        BY <1>8, <2>1
    <2>3. R[i].hash \in N /\ id[R[i].hash] = id[h]
        BY <1>16, <2>1, <2>2
    <2> QED  BY <1>6, <2>1, <2>2, <2>3
<1>18. IsTables(e, q, k, m)
    <2>1. R \in [DOMAIN R -> Row]
        BY <1>9, <1>11, <1>15, <1>16
    <2>2. DOMAIN R \subseteq 1..q
        BY <1>6, <1>9, <1>10, <1>15
    <2> QED  BY <1>14, <2>1, <2>2 DEF IsTables
<1>19. Inserted(d, e, H)
    <2>1. ASSUME NEW h \in H PROVE \E i \in DOMAIN R : R[i].hash = h
        <3>1. CASE h \in N
            BY <1>15, <1>17, <3>1
        <3>2. CASE h \notin N
            BY <1>2, <1>15, <3>2 DEF Fresh, Located
        <3> QED  BY <3>1, <3>2
    <2>2. \A h \in H : Located(e, h)
        BY <1>14, <2>1 DEF Located
    <2>3. \A i \in DOMAIN R \ DOMAIN d.rows :
            /\ R[i].hash \in H /\ ~Located(d, R[i].hash)
            /\ R[i].tag = "Done" /\ ~R[i].ready
        BY <1>5, <1>15, <1>16
    <2> QED  BY <1>14, <1>15, <2>2, <2>3 DEF Inserted
<1>20. Unique(e)
    <2>1. SUFFICES ASSUME NEW i \in DOMAIN R, NEW j \in DOMAIN R, R[i].hash = R[j].hash
                   PROVE  i = j
        BY <1>14 DEF Unique
    <2>2. CASE i \in J /\ j \in J
        BY <1>16, <2>1, <2>2
    <2>3. CASE i \notin J /\ j \notin J
        BY <1>15, <2>1, <2>3 DEF Unique
    <2>4. ASSUME NEW a \in J, NEW b \in DOMAIN d.rows, R[a].hash = R[b].hash PROVE FALSE
        BY <1>5, <1>15, <1>16, <2>4 DEF Located
    <2> QED  BY <1>15, <2>1, <2>2, <2>3, <2>4
<1>21. TreeInv(e)
    <2>1. SUFFICES ASSUME NEW j \in DOMAIN R, NEW g \in Tree[R[j].hash]
                   PROVE  \E i \in DOMAIN R : /\ R[i].hash = g /\ i <= j
                                              /\ R[j].ready => R[i].ready
        BY <1>14 DEF TreeInv
    <2>2. CASE j \in DOMAIN d.rows
        <3>1. PICK i \in DOMAIN d.rows : /\ d.rows[i].hash = g /\ i <= j
                                         /\ d.rows[j].ready => d.rows[i].ready
            BY <1>15, <2>1, <2>2 DEF TreeInv
        <3> QED  BY <1>15, <2>2, <3>1
    <2>3. CASE j \in J
        <3>1. PICK h : h = R[j].hash
            OBVIOUS
        <3>2. h \in N /\ id[h] = j /\ R[j].ready = FALSE
            BY <1>16, <2>3, <3>1
        <3>3. g \in H /\ h \in Hash /\ Rank[g] <= Rank[h]
            BY <1>5, <2>1, <3>1, <3>2, SnapshotAssumption
        <3>4. CASE g \in N
            <4>1. id[g] \in J /\ R[id[g]].hash = g /\ id[g] <= j
                BY <1>6, <1>17, <3>2, <3>3, <3>4
            <4> QED  BY <1>15, <3>2, <4>1
        <3>5. CASE g \notin N
            <4>1. PICK i \in DOMAIN d.rows : d.rows[i].hash = g
                BY <1>2, <3>3, <3>5 DEF Fresh, Located
            <4>2. i <= j
                BY <1>6, <1>9, <3>2
            <4> QED  BY <1>15, <3>2, <4>1, <4>2
        <3> QED  BY <3>4, <3>5
    <2> QED  BY <1>15, <2>2, <2>3
<1> QED  BY <1>1, <1>6, <1>7, <1>12, <1>18, <1>19, <1>20, <1>21

-----------------------------------------------------------------------------
\* How the parts of the invariant survive such changes.

\* Rows, counts and counted snapshots are the same, tags may differ.
Alike(d, e) ==
    /\ DOMAIN e.rows = DOMAIN d.rows
    /\ \A i \in DOMAIN d.rows : /\ e.rows[i].hash = d.rows[i].hash
                                /\ e.rows[i].ready = d.rows[i].ready
                                /\ e.rows[i].blob = d.rows[i].blob
    /\ e.cnt = d.cnt
    /\ Counted(e) = Counted(d)
    /\ \A s \in Counted(d) : e.snaps[s].hash = d.snaps[s].hash

\* Changes of tags and snapshots that leave the counted snapshots as they are.
LEMMA AlikeKeeps ==
    ASSUME NEW d, NEW e, Alike(d, e), NEW L, NEW E
    PROVE  /\ Unique(d) => Unique(e)
           /\ NeedInv(d, L) => NeedInv(e, L)
           /\ CountInv(d, L) => CountInv(e, L)
           /\ TreeInv(d) => TreeInv(e)
           /\ BlobInv(d, E) => BlobInv(e, E)
           /\ ExactInv(d) => ExactInv(e)
           /\ Pending(e) = Pending(d)
           /\ \A h : Located(e, h) <=> Located(d, h)
           /\ \A i : Count(e, i) = Count(d, i)
<1>1. \A h : Located(e, h) <=> Located(d, h)
    BY DEF Alike, Located
<1>2. \A h : Refs(e, h) = Refs(d, h)
    BY DEF Alike, Refs
<1>3. \A i : Count(e, i) = Count(d, i)
    BY DEF Alike, Count
<1>4. Unique(d) => Unique(e)
    BY DEF Alike, Unique
<1>5. NeedInv(d, L) => NeedInv(e, L)
    BY <1>1 DEF Alike, NeedInv
<1>6. CountInv(d, L) => CountInv(e, L)
    BY <1>2, <1>3 DEF Alike, CountInv
<1>7. TreeInv(d) => TreeInv(e)
    BY DEF Alike, TreeInv
<1>8. BlobInv(d, E) => BlobInv(e, E)
    BY DEF Alike, BlobInv
<1>9. ExactInv(d) => ExactInv(e)
    BY <1>2, <1>3 DEF Alike, ExactInv
<1>10. Pending(e) = Pending(d)
    BY DEF Alike, Pending
<1> QED  BY <1>1, <1>3, <1>4, <1>5, <1>6, <1>7, <1>8, <1>9, <1>10

\* The references to a hash are among finitely many snapshots.
LEMMA RefsFinite ==
    ASSUME NEW d, NEW n, NEW k \in Nat, NEW m, IsTables(d, n, k, m), NEW h
    PROVE  IsFiniteSet(Refs(d, h)) /\ Cardinality(Refs(d, h)) \in Nat
<1>1. Refs(d, h) \in SUBSET (1..k)
    BY DEF IsTables, Refs, Counted
<1>2. IsFiniteSet(1..k)
    BY FS_Interval
<1> QED  BY <1>1, <1>2, FS_Subset, FS_CardinalityType

\* A hash that is listed by no counted snapshot has no references.
LEMMA NoRefs ==
    ASSUME NEW d, NEW L, NEW n, NEW k, NEW m, IsTables(d, n, k, m), NEW c, SnapsInv(d, c),
           TagsInv(d), NeedInv(d, L), NEW h \in Hash \ L, ~Located(d, h)
    PROVE  Refs(d, h) = {}
<1> SUFFICES ASSUME NEW s \in Refs(d, h) PROVE FALSE
    OBVIOUS
<1>1. s \in Counted(d) /\ h \in Listing(d.snaps[s].hash)
    BY DEF Refs
<1>2. h \in Tree[h]
    BY SnapshotAssumption
<1>3. h \in Need(d.snaps[s].hash)
    BY <1>1, <1>2 DEF Need
<1> QED  BY <1>1, <1>3 DEF NeedInv

\* Insertion keeps everything; it adds rows that nothing refers to.
LEMMA InsertedKeeps ==
    ASSUME NEW d, NEW n, NEW k \in Nat, NEW m, IsTables(d, n, k, m),
           NEW e, NEW q, IsTables(e, q, k, m), NEW H, Inserted(d, e, H),
           NEW L, NEW c, NEW F, NEW E,
           SnapsInv(d, c), TagsInv(d), RootInv(d), NeedInv(d, L), FilesInv(d, L, F),
           CountInv(d, L), BlobInv(d, E)
    PROVE  /\ SnapsInv(e, c)
           /\ TagsInv(e)
           /\ RootInv(e)
           /\ NeedInv(e, L)
           /\ FilesInv(e, L, F)
           /\ CountInv(e, L)
           /\ BlobInv(e, E)
           /\ (L = {} /\ ExactInv(d)) => ExactInv(e)
           /\ MarksInv(d, c) => MarksInv(e, c)
           /\ Counted(e) = Counted(d)
           /\ \A h : Located(d, h) => Located(e, h)
           /\ \A h, t : t # "Done" => (HasTag(e, h, t) <=> HasTag(d, h, t))
           /\ \A i : Count(e, i) = Count(d, i) /\ Count(d, i) \in Int
<1>1. /\ e.snaps = d.snaps /\ e.cnt = d.cnt /\ DOMAIN d.rows \subseteq DOMAIN e.rows
      /\ \A i \in DOMAIN d.rows : e.rows[i] = d.rows[i]
    BY DEF Inserted
<1>2. \A i \in DOMAIN e.rows \ DOMAIN d.rows :
        /\ ~Located(d, e.rows[i].hash) /\ e.rows[i].hash \in Hash
        /\ e.rows[i].tag = "Done" /\ ~e.rows[i].ready
    BY DEF Inserted, IsTables, Row
<1>3. \A h : Located(d, h) => Located(e, h)
    BY <1>1 DEF Located
<1>4. \A h, t : t # "Done" => (HasTag(e, h, t) <=> HasTag(d, h, t))
    BY <1>1, <1>2 DEF HasTag
<1>5. Counted(e) = Counted(d)
    BY <1>1, <1>4 DEF Counted
<1>6. \A h : Refs(e, h) = Refs(d, h)
    BY <1>1, <1>5 DEF Refs
<1>7. \A i : Count(e, i) = Count(d, i) /\ Count(d, i) \in Int
    BY <1>1 DEF Count, IsTables
<1>8. SnapsInv(e, c)
    BY <1>1 DEF SnapsInv, Open
<1>9. TagsInv(e)
    BY <1>1, <1>2 DEF TagsInv
<1>10. NeedInv(e, L)
    BY <1>1, <1>3, <1>5 DEF NeedInv
<1>11. FilesInv(e, L, F)
    BY <1>1, <1>3 DEF FilesInv, FilesThere
<1>12. ASSUME NEW i \in DOMAIN e.rows \ DOMAIN d.rows, e.rows[i].hash \notin L
       PROVE  Cardinality(Refs(e, e.rows[i].hash)) = 0
    <2>1. Refs(d, e.rows[i].hash) = {}
        BY <1>2, <1>12, NoRefs
    <2> QED  BY <1>6, <2>1, FS_EmptySet
<1>13. CountInv(e, L)
    <2>1. ASSUME NEW i \in DOMAIN e.rows, e.rows[i].hash \notin L
          PROVE  Count(e, i) >= Cardinality(Refs(e, e.rows[i].hash))
        <3>1. CASE i \in DOMAIN d.rows
            BY <1>1, <1>6, <1>7, <2>1, <3>1 DEF CountInv
        <3>2. CASE i \notin DOMAIN d.rows
            <4>1. Count(d, i) >= 0
                BY <3>2 DEF CountInv, Count, IsTables
            <4> QED  BY <1>7, <1>12, <2>1, <3>2, <4>1
        <3> QED  BY <3>1, <3>2
    <2>2. \A i \in DOMAIN e.cnt : e.cnt[i] < 0 => i \in DOMAIN e.rows /\ e.rows[i].ready
        BY <1>1 DEF CountInv
    <2> QED  BY <2>1, <2>2 DEF CountInv
<1>14. BlobInv(e, E)
    BY <1>1, <1>2 DEF BlobInv
<1>15. ASSUME L = {}, ExactInv(d) PROVE ExactInv(e)
    <2>1. ASSUME NEW i \in DOMAIN e.rows
          PROVE  Count(e, i) = Cardinality(Refs(e, e.rows[i].hash))
        <3>1. CASE i \in DOMAIN d.rows
            BY <1>1, <1>6, <1>7, <1>15, <3>1 DEF ExactInv
        <3>2. CASE i \notin DOMAIN d.rows
            <4>1. Count(d, i) = 0
                BY <1>15, <3>2 DEF ExactInv, Count
            <4> QED  BY <1>7, <1>12, <1>15, <3>2, <4>1
        <3> QED  BY <3>1, <3>2
    <2>2. \A i \in DOMAIN e.cnt \ DOMAIN e.rows : e.cnt[i] = 0
        BY <1>1, <1>15 DEF ExactInv
    <2> QED  BY <2>1, <2>2 DEF ExactInv
<1>16. MarksInv(d, c) => MarksInv(e, c)
    BY <1>1, <1>2 DEF MarksInv, Open
<1>17. RootInv(e)
    BY <1>1 DEF RootInv
<1> QED  BY <1>3, <1>4, <1>5, <1>7, <1>8, <1>9, <1>10, <1>11, <1>13, <1>14, <1>15, <1>16, <1>17

\* Storing a blob with all that waits below its last row keeps everything.
LEMMA StoredKeeps ==
    ASSUME NEW d, NEW e, NEW I, NEW b, StoredIn(d, e, I, b), NEW L, NEW c, NEW F, NEW E,
           \A j \in I, i \in DOMAIN d.rows : i <= j /\ ~d.rows[i].ready => i \in I,
           Unique(d), SnapsInv(d, c), TagsInv(d), RootInv(d), NeedInv(d, L), FilesInv(d, L, F),
           CountInv(d, L), TreeInv(d), BlobInv(d, E)
    PROVE  /\ Unique(e)
           /\ SnapsInv(e, c)
           /\ TagsInv(e)
           /\ RootInv(e)
           /\ NeedInv(e, L)
           /\ FilesInv(e, L, F)
           /\ CountInv(e, L)
           /\ TreeInv(e)
           /\ BlobInv(e, E \cup {b})
           /\ ExactInv(d) => ExactInv(e)
           /\ MarksInv(d, c) => MarksInv(e, c)
           /\ Counted(e) = Counted(d)
           /\ Pending(e) = Pending(d) \ I
           /\ \A h : Located(d, h) <=> Located(e, h)
           /\ \A h, t : HasTag(e, h, t) <=> HasTag(d, h, t)
           /\ \A i : Count(e, i) = Count(d, i)
<1>1. e.cnt = d.cnt /\ e.snaps = d.snaps /\ DOMAIN e.rows = DOMAIN d.rows
    BY DEF StoredIn
<1>2. \A i \in DOMAIN d.rows : e.rows[i].hash = d.rows[i].hash /\ e.rows[i].tag = d.rows[i].tag
    BY DEF StoredIn
<1>3. \A i \in DOMAIN d.rows : e.rows[i].ready <=> (d.rows[i].ready \/ i \in I)
    BY DEF StoredIn
<1>4. \A h : Located(d, h) <=> Located(e, h)
    BY <1>1, <1>2 DEF Located
<1>5. \A h, t : HasTag(e, h, t) <=> HasTag(d, h, t)
    BY <1>1, <1>2 DEF HasTag
<1>6. Counted(e) = Counted(d)
    BY <1>1, <1>5 DEF Counted
<1>7. \A h : Refs(e, h) = Refs(d, h)
    BY <1>1, <1>6 DEF Refs
<1>8. \A i : Count(e, i) = Count(d, i)
    BY <1>1 DEF Count
<1>9. Unique(e)
    BY <1>1, <1>2 DEF Unique
<1>10. SnapsInv(e, c)
    BY <1>1 DEF SnapsInv, Open
<1>11. TagsInv(e)
    BY <1>1, <1>2, <1>3 DEF TagsInv
<1>12. NeedInv(e, L)
    BY <1>1, <1>4, <1>6 DEF NeedInv
<1>13. FilesInv(e, L, F)
    BY <1>1, <1>4 DEF FilesInv, FilesThere
<1>14. CountInv(e, L)
    BY <1>1, <1>2, <1>3, <1>7, <1>8 DEF CountInv
<1>15. TreeInv(e)
    <2>1. SUFFICES ASSUME NEW j \in DOMAIN d.rows, NEW g \in Tree[d.rows[j].hash]
                   PROVE  \E i \in DOMAIN d.rows : /\ d.rows[i].hash = g /\ i <= j
                                                   /\ e.rows[j].ready => e.rows[i].ready
        BY <1>1, <1>2 DEF TreeInv
    <2>2. PICK i \in DOMAIN d.rows : /\ d.rows[i].hash = g /\ i <= j
                                     /\ d.rows[j].ready => d.rows[i].ready
        BY DEF TreeInv
    <2>3. e.rows[j].ready => e.rows[i].ready
        BY <1>3, <2>2
    <2> QED  BY <2>2, <2>3
<1>16. BlobInv(e, E \cup {b})
    BY <1>1, <1>3 DEF BlobInv, StoredIn
<1>17. ExactInv(d) => ExactInv(e)
    BY <1>1, <1>2, <1>7, <1>8 DEF ExactInv
<1>18. MarksInv(d, c) => MarksInv(e, c)
    BY <1>1, <1>2 DEF MarksInv, Open
<1>19. Pending(e) = Pending(d) \ I
    BY <1>1, <1>3 DEF Pending
<1>20. RootInv(e)
    BY <1>1, <1>2, <1>3 DEF RootInv
<1> QED  BY <1>4, <1>5, <1>6, <1>8, <1>9, <1>10, <1>11, <1>12, <1>13, <1>14, <1>15, <1>16,
            <1>17, <1>18, <1>19, <1>20

\* A counted snapshot has a root.
LEMMA CountedHasRoot ==
    ASSUME NEW d, NEW n, NEW k, NEW m, IsTables(d, n, k, m), NEW c \in Root, SnapsInv(d, c),
           NEW s \in Counted(d)
    PROVE  d.snaps[s].hash \in Root
<1>1. s \in DOMAIN d.snaps
    BY DEF Counted
<1>2. CASE d.snaps[s].tag # "Reserved"
    BY <1>1, <1>2 DEF SnapsInv
<1>3. CASE d.snaps[s].tag = "Reserved"
    <2>1. PICK i \in DOMAIN d.rows : d.rows[i].hash = d.snaps[s].hash
        BY <1>3 DEF Counted, HasTag
    <2>2. d.rows[i].hash \in Hash
        BY DEF IsTables, Row
    <2>3. d.snaps[s].hash # NoHash
        BY <2>1, <2>2, SnapshotAssumption
    <2> QED  BY <1>1, <1>3, <2>3 DEF SnapsInv
<1> QED  BY <1>2, <1>3

\* A new tag t of the snapshot s that is being worked on, when it does not
\* change whether s is counted.
LEMMA SnapshotTagKeeps ==
    ASSUME NEW d, NEW n, NEW k, NEW m, IsTables(d, n, k, m), NEW c \in Root, SnapsInv(d, c),
           TagsInv(d), NEW s \in DOMAIN d.snaps, Open(d) \subseteq {s}, d.snaps[s].hash \in Root,
           NEW t \in {"Done", "Complete", "WillDelete", "ReadyDelete"},
           NEW e, e = SnapshotSetTag(d, s, t),
           s \in Counted(e) <=> s \in Counted(d),
           t = "Done" => AllDone(d),
           d.snaps[s].tag \in {"Reserved", "Complete"} => t = "Complete" \/ AllDone(d),
           d.snaps[s].tag \in {"WillDelete", "ReadyDelete"} => t \in {"WillDelete", "ReadyDelete"},
           t = "ReadyDelete" =>
               \E i \in DOMAIN d.rows : d.rows[i].hash = d.snaps[s].hash /\ d.rows[i].ready
    PROVE  /\ IsTables(e, n, k, m)
           /\ Alike(d, e)
           /\ SnapsInv(e, c)
           /\ TagsInv(e)
           /\ RootInv(e)
           /\ \A L, F : FilesInv(e, L, F)
           /\ MarksInv(e, c)
           /\ s \in DOMAIN e.snaps /\ Open(e) \subseteq {s}
           /\ e.snaps[s].tag = t /\ e.rows = d.rows
           /\ t = "Done" => Open(e) = {}
<1>1. t \in Tag
    BY DEF Tag
<1>2. /\ IsTables(e, n, k, m)
      /\ e.rows = d.rows /\ e.cnt = d.cnt /\ e.blobs = d.blobs
      /\ DOMAIN e.snaps = DOMAIN d.snaps
      /\ \A r \in DOMAIN d.snaps : /\ e.snaps[r].hash = d.snaps[r].hash
                                   /\ e.snaps[r].tag = IF r = s THEN t ELSE d.snaps[r].tag
    BY <1>1, SnapshotSetTagEffect
<1>3. \A h, u : HasTag(e, h, u) <=> HasTag(d, h, u)
    BY <1>2 DEF HasTag
<1>4. ASSUME NEW r \in DOMAIN d.snaps PROVE r \in Counted(e) <=> r \in Counted(d)
    <2>1. CASE r = s
        BY <2>1
    <2>2. CASE r # s
        BY <1>2, <1>3, <2>2 DEF Counted
    <2> QED  BY <2>1, <2>2
<1>5. Counted(e) = Counted(d)
    <2>1. Counted(e) \subseteq DOMAIN d.snaps /\ Counted(d) \subseteq DOMAIN d.snaps
        BY <1>2 DEF Counted
    <2> QED  BY <1>4, <2>1
<1>6. Alike(d, e)
    <2>1. Counted(d) \subseteq DOMAIN d.snaps
        BY DEF Counted
    <2> QED  BY <1>2, <1>5, <2>1 DEF Alike
<1>7. \A r \in DOMAIN d.snaps : r # s => d.snaps[r].tag = "Done"
    BY DEF Open
<1>8. Open(e) \subseteq {s} /\ (t = "Done" => Open(e) = {})
    BY <1>2, <1>7 DEF Open
<1>9. SnapsInv(e, c)
    BY <1>2, <1>8 DEF SnapsInv
<1>10. TagsInv(e)
    <2>1. SUFFICES ASSUME NEW i \in DOMAIN d.rows
          PROVE /\ d.rows[i].tag = "InProgress" =>
                     \E r \in DOMAIN d.snaps : /\ e.snaps[r].hash = d.rows[i].hash
                                               /\ e.snaps[r].tag \in {"Reserved", "Complete"}
                /\ d.rows[i].tag = "ReadyDelete" =>
                     \E r \in DOMAIN d.snaps : /\ e.snaps[r].hash = d.rows[i].hash
                                               /\ e.snaps[r].tag \in {"WillDelete", "ReadyDelete"}
        BY <1>2 DEF TagsInv
    <2>2. ASSUME d.rows[i].tag = "InProgress"
          PROVE  e.snaps[s].hash = d.rows[i].hash /\ e.snaps[s].tag \in {"Reserved", "Complete"}
        <3>1. PICK r \in DOMAIN d.snaps : /\ d.snaps[r].hash = d.rows[i].hash
                                          /\ d.snaps[r].tag \in {"Reserved", "Complete"}
            BY <2>2 DEF TagsInv
        <3>2. r = s /\ ~AllDone(d)
            BY <1>7, <2>2, <3>1 DEF AllDone
        <3> QED  BY <1>2, <3>1, <3>2
    <2>3. ASSUME d.rows[i].tag = "ReadyDelete"
          PROVE  e.snaps[s].hash = d.rows[i].hash /\ e.snaps[s].tag \in {"WillDelete", "ReadyDelete"}
        <3>1. PICK r \in DOMAIN d.snaps : /\ d.snaps[r].hash = d.rows[i].hash
                                          /\ d.snaps[r].tag \in {"WillDelete", "ReadyDelete"}
            BY <2>3 DEF TagsInv
        <3>2. r = s
            BY <1>7, <3>1
        <3> QED  BY <1>2, <3>1, <3>2
    <2> QED  BY <2>2, <2>3
<1>11. ASSUME NEW L, NEW F PROVE FilesInv(e, L, F)
    BY <1>2, <1>7 DEF FilesInv
<1>12. MarksInv(e, c)
    <2>1. CASE t = "Done"
        BY <1>2, <2>1 DEF MarksInv, AllDone
    <2>2. CASE t # "Done"
        <3>1. s \in Open(e) /\ e.snaps[s].tag # "Reserved"
            BY <1>2, <2>2 DEF Open
        <3> QED  BY <3>1 DEF MarksInv
    <2> QED  BY <2>1, <2>2
<1>13. RootInv(e)
    BY <1>2, <1>7 DEF RootInv
<1> QED  BY <1>2, <1>6, <1>8, <1>9, <1>10, <1>11, <1>12, <1>13

\* Clearing the tags does not change what is counted once the snapshot's own
\* tag says it.
LEMMA ClearKeeps ==
    ASSUME NEW d, NEW n, NEW k, NEW m, IsTables(d, n, k, m), NEW c, SnapsInv(d, c),
           NEW s, Open(d) \subseteq {s},
           \/ d.snaps[s].tag \in {"Done", "Complete", "ReadyDelete"}
           \/ d.snaps[s].tag = "WillDelete" /\ s \in Counted(d),
           NEW e, e = SetAllTags(d, "Done")
    PROVE  /\ IsTables(e, n, k, m)
           /\ Alike(d, e)
           /\ TagsInv(e)
           /\ RootInv(d) => RootInv(e)
           /\ AllDone(e)
           /\ e.snaps = d.snaps /\ e.blobs = d.blobs
<1>1. IsTables(e, n, k, m) /\ Retagged(d, e, DOMAIN d.rows, "Done")
    BY SetTagEffect DEF SetAllTags, Tag
<1>2. AllDone(e) /\ e.snaps = d.snaps /\ e.blobs = d.blobs
    BY <1>1 DEF Retagged, AllDone
<1>3. TagsInv(e)
    BY <1>2 DEF TagsInv, AllDone
<1>4. \A h, t : t # "Done" => ~HasTag(e, h, t)
    BY <1>2 DEF HasTag, AllDone
<1>5. ASSUME NEW r \in DOMAIN d.snaps PROVE r \in Counted(e) <=> r \in Counted(d)
    <2>1. CASE r = s
        BY <1>2, <1>4, <1>5, <2>1 DEF Counted
    <2>2. CASE r # s
        BY <1>2, <1>5, <2>2 DEF Counted, Open
    <2> QED  BY <2>1, <2>2
<1>6. Counted(e) = Counted(d)
    <2>1. Counted(e) \subseteq DOMAIN d.snaps /\ Counted(d) \subseteq DOMAIN d.snaps
        BY <1>2 DEF Counted
    <2> QED  BY <1>5, <2>1
<1>7. Alike(d, e)
    BY <1>1, <1>6 DEF Alike, Retagged
<1>8. RootInv(d) => RootInv(e)
    BY <1>2, <1>7 DEF RootInv, Alike
<1> QED  BY <1>1, <1>2, <1>3, <1>7, <1>8

-----------------------------------------------------------------------------
\* The steps of an operation that save a change of tags and snapshots.

\* Such a step keeps the invariant if it keeps the parts that are about tags.
LEMMA AlikeStep ==
    ASSUME SnapshotInv, NEW e, db' = e, disk' = e,
           IsTables(e, idCounter, commits, nextBlob), Alike(db, e),
           SnapsInv(e, content), TagsInv(e), RootInv(e), FilesInv(e, lost, scanned),
           ~gcRan /\ lost = {} => MarksInv(e, content),
           UNCHANGED <<external, content, scanned, idCounter, nextBlob, commits, gcRan, lost>>,
           pc \notin {"tops", "register", "panic", "gc_blobs"},
           pc' \notin {"reserve", "gc_blobs"},
           pc' \in {"resume", "ready_delete", "deregister_cleanup", "snapshot_delete"}
               => Pending(db) = {},
           PhaseInv'
    PROVE  SnapshotInv'
<1>1. GoodNow(db)
    BY DEF SnapshotInv
<1>2. /\ Unique(e) /\ NeedInv(e, lost) /\ CountInv(e, lost) /\ TreeInv(e) /\ BlobInv(e, external)
      /\ Pending(e) = Pending(db) /\ \A i : Count(e, i) = Count(db, i)
      /\ ExactInv(db) => ExactInv(e)
    BY <1>1, AlikeKeeps DEF GoodNow, Good
<1>3. Good(e, idCounter, commits, nextBlob, lost, content, scanned, external)
    BY <1>2 DEF Good
<1>4. GoodNow(db)' /\ GoodNow(disk)'
    BY <1>3 DEF GoodNow
<1>5. StateInv'
    BY DEF SnapshotInv, StateInv
<1>6. WaitInv'
    <2>1. Pending(db)' = Pending(db) /\ (pc' \in {"resume", "ready_delete", "deregister_cleanup", "snapshot_delete"}
                                            => Pending(db)' = {})
        BY <1>2 DEF Pending
    <2>2. ASSUME NEW i \in Pending(db) PROVE Held(i)'
        <3>1. Held(i) /\ ~Committing
            BY DEF SnapshotInv, WaitInv, Committing
        <3>2. i \in DOMAIN db.rows
            BY DEF Pending
        <3>3. CASE \E f \in File : db.rows[i].hash \in Tree[f]
            BY <3>2, <3>3 DEF Held, Alike
        <3>4. CASE \E j \in DOMAIN db.rows : /\ db.rows[i].hash \in Tree[db.rows[j].hash]
                                             /\ Count(db, j) > 0
            <4>1. PICK j \in DOMAIN db.rows : /\ db.rows[i].hash \in Tree[db.rows[j].hash]
                                              /\ Count(db, j) > 0
                BY <3>4
            <4>2. Count(db', j) > 0
                BY <1>2, <4>1
            <4> QED  BY <3>2, <4>1, <4>2 DEF Held, Alike
        <3> QED  BY <3>1, <3>3, <3>4 DEF Held, Committing
    <2> QED  BY <2>1, <2>2 DEF WaitInv
<1>7. SweepInv'
    BY DEF SweepInv, FirstGcIsExact
<1>8. FirstInv(db)' /\ FirstInv(disk)'
    <2>1. ~gcRan /\ lost = {} => ExactInv(e)
        BY <1>2 DEF SnapshotInv, FirstInv
    <2> QED  BY <2>1 DEF FirstInv
<1> QED  BY <1>4, <1>5, <1>6, <1>7, <1>8 DEF SnapshotInv

\* ready_commit tags the counted snapshot Complete.
LEMMA ReadyCommitStep == SnapshotInv /\ ReadyCommit => SnapshotInv'
<1> SUFFICES ASSUME SnapshotInv, ReadyCommit PROVE SnapshotInv'
    OBVIOUS
<1>1. PICK e : e = SnapshotSetTag(db, cur, "Complete")
    OBVIOUS
<1>2. /\ IsTables(db, idCounter, commits, nextBlob) /\ SnapsInv(db, content) /\ TagsInv(db)
      /\ content \in Root
    BY DEF SnapshotInv, GoodNow, Good, StateInv
<1>3. /\ cur \in DOMAIN db.snaps /\ Open(db) \subseteq {cur}
      /\ db.snaps[cur].tag \in {"Reserved", "Complete"} /\ cur \in Counted(db)
    BY DEF SnapshotInv, PhaseInv, Busy, ReadyCommit
<1>4. db.snaps[cur].hash \in Root
    BY <1>2, <1>3, CountedHasRoot
<1>5. cur \in Counted(e)
    <2>1. cur \in DOMAIN e.snaps /\ e.snaps[cur].tag = "Complete"
        BY <1>1, <1>2, <1>3, SnapshotSetTagEffect DEF Tag
    <2> QED  BY <2>1 DEF Counted
<1>6. /\ IsTables(e, idCounter, commits, nextBlob) /\ Alike(db, e)
      /\ SnapsInv(e, content) /\ TagsInv(e) /\ RootInv(e)
      /\ FilesInv(e, lost, scanned) /\ MarksInv(e, content)
      /\ cur \in DOMAIN e.snaps /\ Open(e) \subseteq {cur} /\ e.snaps[cur].tag = "Complete"
    <2>1. "Complete" \in {"Done", "Complete", "WillDelete", "ReadyDelete"}
        OBVIOUS
    <2> QED  BY <1>1, <1>2, <1>3, <1>4, <1>5, <2>1, SnapshotTagKeeps
<1>7. db' = e /\ disk' = e /\ pc' = "register_cleanup" /\ cur' = cur
    BY <1>1 DEF ReadyCommit, Save
<1>8. PhaseInv'
    BY <1>6, <1>7 DEF PhaseInv, Busy, Idle
<1> QED  BY <1>6, <1>7, <1>8, AlikeStep DEF ReadyCommit, keys, history

\* What every action may use of the tables in the transaction.
LEMMA DbFacts ==
    ASSUME SnapshotInv
    PROVE  /\ IsTables(db, idCounter, commits, nextBlob) /\ Unique(db)
           /\ SnapsInv(db, content) /\ TagsInv(db) /\ RootInv(db) /\ NeedInv(db, lost)
           /\ FilesInv(db, lost, scanned) /\ CountInv(db, lost) /\ TreeInv(db)
           /\ BlobInv(db, external)
           /\ content \in Root /\ idCounter \in Nat /\ commits \in Nat /\ nextBlob \in Nat
BY DEF SnapshotInv, GoodNow, Good, StateInv

\* register_cleanup clears the tags of rows.
LEMMA RegisterCleanupStep == SnapshotInv /\ RegisterCleanup => SnapshotInv'
<1> SUFFICES ASSUME SnapshotInv, RegisterCleanup PROVE SnapshotInv'
    OBVIOUS
<1>1. PICK e : e = SetAllTags(db, "Done")
    OBVIOUS
<1>2. /\ cur \in DOMAIN db.snaps /\ Open(db) \subseteq {cur} /\ db.snaps[cur].tag = "Complete"
    BY DEF SnapshotInv, PhaseInv, Busy, RegisterCleanup
<1>3. /\ IsTables(e, idCounter, commits, nextBlob) /\ Alike(db, e) /\ TagsInv(e)
      /\ RootInv(e) /\ AllDone(e) /\ e.snaps = db.snaps
    BY <1>1, <1>2, DbFacts, ClearKeeps
<1>4. SnapsInv(e, content) /\ FilesInv(e, lost, scanned) /\ Open(e) = Open(db)
    BY <1>2, <1>3, DbFacts DEF SnapsInv, Open, FilesInv
<1>5. MarksInv(e, content)
    BY <1>3 DEF MarksInv, AllDone
<1>6. db' = e /\ disk' = e /\ pc' = "commit_done" /\ cur' = cur
    BY <1>1 DEF RegisterCleanup, Save
<1>7. PhaseInv'
    BY <1>2, <1>3, <1>4, <1>6 DEF PhaseInv, Busy, Idle
<1> QED  BY <1>3, <1>4, <1>5, <1>6, <1>7, AlikeStep DEF RegisterCleanup, keys, history

\* commit_done: the snapshot is done.
LEMMA CommitDoneStep == SnapshotInv /\ CommitDone => SnapshotInv'
<1> SUFFICES ASSUME SnapshotInv, CommitDone PROVE SnapshotInv'
    OBVIOUS
<1>1. PICK e : e = SnapshotSetTag(db, cur, "Done")
    OBVIOUS
<1>2. /\ cur \in DOMAIN db.snaps /\ Open(db) \subseteq {cur}
      /\ db.snaps[cur].tag = "Complete" /\ AllDone(db)
    BY DEF SnapshotInv, PhaseInv, Busy, CommitDone
<1>3. cur \in Counted(db) /\ db.snaps[cur].hash \in Root
    BY <1>2, DbFacts DEF Counted, SnapsInv
<1>4. cur \in Counted(e)
    <2>1. cur \in DOMAIN e.snaps /\ e.snaps[cur].tag = "Done"
        BY <1>1, <1>2, DbFacts, SnapshotSetTagEffect DEF Tag
    <2> QED  BY <2>1 DEF Counted
<1>5. /\ IsTables(e, idCounter, commits, nextBlob) /\ Alike(db, e)
      /\ SnapsInv(e, content) /\ TagsInv(e) /\ RootInv(e)
      /\ FilesInv(e, lost, scanned) /\ MarksInv(e, content)
      /\ Open(e) = {}
    <2>1. "Done" \in {"Done", "Complete", "WillDelete", "ReadyDelete"}
        OBVIOUS
    <2> QED  BY <1>1, <1>2, <1>3, <1>4, <2>1, DbFacts, SnapshotTagKeeps
<1>6. db' = e /\ disk' = e /\ pc' = "idle"
    BY <1>1 DEF CommitDone, Save
<1>7. PhaseInv'
    BY <1>5, <1>6 DEF PhaseInv, Busy, Idle
<1> QED  BY <1>5, <1>6, <1>7, AlikeStep DEF CommitDone, keys, history

\* will_delete keeps the snapshot counted.
LEMMA WillDeleteStep == SnapshotInv /\ WillDelete => SnapshotInv'
<1> SUFFICES ASSUME SnapshotInv, WillDelete PROVE SnapshotInv'
    OBVIOUS
<1>1. PICK e : e = SnapshotSetTag(db, cur, "WillDelete")
    OBVIOUS
<1>2. /\ cur \in DOMAIN db.snaps /\ Open(db) \subseteq {cur}
      /\ db.snaps[cur].tag \in {"Done", "WillDelete"} /\ cur \in Counted(db)
    BY DEF SnapshotInv, PhaseInv, Busy, WillDelete
<1>3. db.snaps[cur].hash \in Root
    BY <1>2, DbFacts DEF SnapsInv
<1>4. cur \in Counted(e)
    <2>1. /\ cur \in DOMAIN e.snaps /\ e.snaps[cur].tag = "WillDelete"
          /\ e.snaps[cur].hash = db.snaps[cur].hash /\ e.rows = db.rows
        BY <1>1, <1>2, DbFacts, SnapshotSetTagEffect DEF Tag
    <2>2. ~HasTag(db, db.snaps[cur].hash, "ReadyDelete")
        <3>1. CASE db.snaps[cur].tag = "WillDelete"
            BY <1>2, <3>1 DEF Counted
        <3>2. CASE db.snaps[cur].tag = "Done"
            <4>1. \A s \in DOMAIN db.snaps : db.snaps[s].tag = "Done"
                BY <1>2, <3>2 DEF Open
            <4> QED  BY <4>1, DbFacts DEF HasTag, TagsInv
        <3> QED  BY <1>2, <3>1, <3>2
    <2> QED  BY <2>1, <2>2 DEF Counted, HasTag
<1>5. /\ IsTables(e, idCounter, commits, nextBlob) /\ Alike(db, e)
      /\ SnapsInv(e, content) /\ TagsInv(e) /\ RootInv(e)
      /\ FilesInv(e, lost, scanned) /\ MarksInv(e, content)
      /\ cur \in DOMAIN e.snaps /\ Open(e) \subseteq {cur} /\ e.snaps[cur].tag = "WillDelete"
    <2>1. "WillDelete" \in {"Done", "Complete", "WillDelete", "ReadyDelete"}
        OBVIOUS
    <2> QED  BY <1>1, <1>2, <1>3, <1>4, <2>1, DbFacts, SnapshotTagKeeps
<1>6. db' = e /\ disk' = e /\ pc' = "deregister" /\ cur' = cur
    BY <1>1 DEF WillDelete, Save
<1>7. PhaseInv'
    BY <1>4, <1>5, <1>6 DEF PhaseInv, Busy, Idle
<1> QED  BY <1>5, <1>6, <1>7, AlikeStep DEF WillDelete, keys, history

\* ready_delete: the snapshot's own tag says that it is counted off.
LEMMA ReadyDeleteStep == SnapshotInv /\ ReadyDelete => SnapshotInv'
<1> SUFFICES ASSUME SnapshotInv, ReadyDelete PROVE SnapshotInv'
    OBVIOUS
<1>1. PICK e : e = SnapshotSetTag(db, cur, "ReadyDelete")
    OBVIOUS
<1>2. /\ cur \in DOMAIN db.snaps /\ Open(db) \subseteq {cur}
      /\ db.snaps[cur].tag \in {"WillDelete", "ReadyDelete"} /\ cur \notin Counted(db)
      /\ Pending(db) = {}
    BY DEF SnapshotInv, PhaseInv, WaitInv, Busy, ReadyDelete
<1>3. db.snaps[cur].hash \in Root
    BY <1>2, DbFacts DEF SnapsInv
<1>4. cur \notin Counted(e)
    <2>1. e.snaps[cur].tag = "ReadyDelete"
        BY <1>1, <1>2, DbFacts, SnapshotSetTagEffect DEF Tag
    <2> QED  BY <2>1 DEF Counted
<1>5. /\ IsTables(e, idCounter, commits, nextBlob) /\ Alike(db, e)
      /\ SnapsInv(e, content) /\ TagsInv(e) /\ RootInv(e)
      /\ FilesInv(e, lost, scanned) /\ MarksInv(e, content)
      /\ cur \in DOMAIN e.snaps /\ Open(e) \subseteq {cur} /\ e.snaps[cur].tag = "ReadyDelete"
    <2>1. "ReadyDelete" \in {"Done", "Complete", "WillDelete", "ReadyDelete"}
        OBVIOUS
    <2>2. \E i \in DOMAIN db.rows : db.rows[i].hash = db.snaps[cur].hash /\ db.rows[i].ready
        <3>1. CASE db.snaps[cur].tag = "ReadyDelete"
            BY <1>2, <3>1, DbFacts DEF RootInv
        <3>2. CASE db.snaps[cur].tag = "WillDelete"
            BY <1>2, <3>2, DbFacts DEF Counted, HasTag, TagsInv
        <3> QED  BY <1>2, <3>1, <3>2
    <2> QED  BY <1>1, <1>2, <1>3, <1>4, <2>1, <2>2, DbFacts, SnapshotTagKeeps
<1>6. db' = e /\ disk' = e /\ pc' = "deregister_cleanup" /\ cur' = cur
    BY <1>1 DEF ReadyDelete, Save
<1>7. PhaseInv'
    BY <1>5, <1>6 DEF PhaseInv, Busy, Idle
<1> QED  BY <1>2, <1>5, <1>6, <1>7, AlikeStep DEF ReadyDelete, keys, history

\* The cleanup of a deletion clears the tags; nothing is left to flush.
LEMMA DeregisterCleanupStep == SnapshotInv /\ DeregisterCleanup => SnapshotInv'
<1> SUFFICES ASSUME SnapshotInv, DeregisterCleanup PROVE SnapshotInv'
    OBVIOUS
<1>1. PICK e : e = SetAllTags(db, "Done")
    OBVIOUS
<1>2. /\ cur \in DOMAIN db.snaps /\ Open(db) \subseteq {cur} /\ db.snaps[cur].tag = "ReadyDelete"
      /\ Pending(db) = {}
    BY DEF SnapshotInv, PhaseInv, WaitInv, Busy, DeregisterCleanup
<1>3. /\ IsTables(e, idCounter, commits, nextBlob) /\ Alike(db, e) /\ TagsInv(e)
      /\ RootInv(e) /\ AllDone(e) /\ e.snaps = db.snaps
    BY <1>1, <1>2, DbFacts, ClearKeeps
<1>4. SnapsInv(e, content) /\ FilesInv(e, lost, scanned) /\ Open(e) = Open(db)
    BY <1>2, <1>3, DbFacts DEF SnapsInv, Open, FilesInv
<1>5. MarksInv(e, content)
    BY <1>3 DEF MarksInv, AllDone
<1>6. Pending(e) = {}
    BY <1>2, <1>3, AlikeKeeps
<1>7. /\ db' = e /\ disk' = e /\ pc' = "snapshot_delete" /\ cur' = cur
      /\ UNCHANGED <<external, nextBlob>>
    BY <1>1, <1>6 DEF DeregisterCleanup, FlushStores, Save
<1>8. PhaseInv'
    BY <1>2, <1>3, <1>4, <1>7 DEF PhaseInv, Busy, Idle
<1> QED  BY <1>2, <1>3, <1>4, <1>5, <1>7, <1>8, AlikeStep DEF DeregisterCleanup, keys, history

\* The row of the deleted snapshot goes last, when it counts for nothing.
LEMMA SnapshotDeleteStep == SnapshotInv /\ SnapshotDelete => SnapshotInv'
<1> SUFFICES ASSUME SnapshotInv, SnapshotDelete PROVE SnapshotInv'
    OBVIOUS
<1>1. PICK S : S = [s \in DOMAIN db.snaps \ {cur} |-> db.snaps[s]]
    OBVIOUS
<1>2. PICK e : e = [db EXCEPT !.snaps = S]
    OBVIOUS
<1>3. /\ cur \in DOMAIN db.snaps /\ Open(db) \subseteq {cur} /\ db.snaps[cur].tag = "ReadyDelete"
      /\ AllDone(db) /\ Pending(db) = {}
    BY DEF SnapshotInv, PhaseInv, WaitInv, Busy, SnapshotDelete
<1>4. /\ DOMAIN S = DOMAIN db.snaps \ {cur} /\ \A s \in DOMAIN S : S[s] = db.snaps[s]
      /\ S \in [DOMAIN S -> Snap] /\ DOMAIN S \subseteq 1..commits
    BY <1>1, DbFacts DEF IsTables
<1>5. /\ IsTables(e, idCounter, commits, nextBlob)
      /\ e.rows = db.rows /\ e.cnt = db.cnt /\ e.snaps = S
    BY <1>2, <1>4, DbFacts, SnapsEffect
<1>6. Counted(e) = Counted(db)
    BY <1>3, <1>4, <1>5 DEF Counted, HasTag
<1>7. Alike(db, e)
    <2>1. Counted(e) \subseteq DOMAIN S
        BY <1>5 DEF Counted
    <2> QED  BY <1>4, <1>5, <1>6, <2>1 DEF Alike
<1>8. Open(e) = {}
    BY <1>3, <1>4, <1>5 DEF Open
<1>9. SnapsInv(e, content) /\ FilesInv(e, lost, scanned) /\ RootInv(e)
    <2>1. \A s \in DOMAIN S : S[s].tag = "Done"
        BY <1>5, <1>8 DEF Open
    <2> QED  BY <1>4, <1>5, <1>8, <2>1, DbFacts DEF SnapsInv, FilesInv, RootInv
<1>10. TagsInv(e) /\ MarksInv(e, content)
    BY <1>3, <1>5 DEF TagsInv, MarksInv, AllDone
<1>11. db' = e /\ disk' = e /\ pc' = "idle"
    BY <1>1, <1>2 DEF SnapshotDelete, Save
<1>12. PhaseInv'
    BY <1>8, <1>11 DEF PhaseInv, Busy, Idle
<1> QED  BY <1>5, <1>7, <1>9, <1>10, <1>11, <1>12, AlikeStep DEF SnapshotDelete, keys, history

\* The rows of the listing, and only they, are tagged to be counted off.
LEMMA DeregisterTagStep == SnapshotInv /\ DeregisterTag => SnapshotInv'
<1> SUFFICES ASSUME SnapshotInv, DeregisterTag PROVE SnapshotInv'
    OBVIOUS
<1>1. PICK f : f = SetAllTags(db, "Done")
    OBVIOUS
<1>2. PICK H : H = Listing(db.snaps[cur].hash)
    OBVIOUS
<1>3. PICK e : e = SetTag(f, IdsOf(db, H), "Reserved")
    OBVIOUS
<1>4. /\ cur \in DOMAIN db.snaps /\ Open(db) \subseteq {cur}
      /\ db.snaps[cur].tag = "WillDelete" /\ cur \in Counted(db)
    BY DEF SnapshotInv, PhaseInv, Busy, DeregisterTag
<1>5. /\ IsTables(f, idCounter, commits, nextBlob) /\ Alike(db, f)
      /\ AllDone(f) /\ f.snaps = db.snaps
    BY <1>1, <1>4, DbFacts, ClearKeeps
<1>6. IsTables(e, idCounter, commits, nextBlob) /\ Retagged(f, e, IdsOf(db, H), "Reserved")
    BY <1>3, <1>5, SetTagEffect DEF Tag
<1>7. e.snaps = db.snaps /\ e.cnt = db.cnt /\ DOMAIN e.rows = DOMAIN db.rows
    BY <1>5, <1>6 DEF Retagged, Alike
<1>8. \A i \in DOMAIN db.rows :
        /\ e.rows[i].hash = db.rows[i].hash
        /\ e.rows[i].ready = db.rows[i].ready /\ e.rows[i].blob = db.rows[i].blob
        /\ e.rows[i].tag = IF db.rows[i].hash \in H THEN "Reserved" ELSE "Done"
    BY <1>5, <1>6 DEF Retagged, Alike, AllDone, IdsOf
<1>9. \A h : ~HasTag(e, h, "ReadyDelete") /\ ~HasTag(e, h, "InProgress")
    BY <1>7, <1>8 DEF HasTag
<1>10. Counted(e) = Counted(db)
    <2>1. ASSUME NEW s \in DOMAIN db.snaps PROVE s \in Counted(e) <=> s \in Counted(db)
        <3>1. CASE s = cur
            BY <1>4, <1>7, <1>9, <3>1 DEF Counted
        <3>2. CASE s # cur
            BY <1>4, <1>7, <2>1, <3>2 DEF Counted, Open
        <3> QED  BY <3>1, <3>2
    <2> QED  BY <1>7, <2>1 DEF Counted
<1>11. Alike(db, e)
    BY <1>7, <1>8, <1>10 DEF Alike
<1>12. /\ SnapsInv(e, content) /\ FilesInv(e, lost, scanned) /\ Open(e) = Open(db)
       /\ RootInv(e)
    BY <1>4, <1>7, DbFacts DEF SnapsInv, Open, FilesInv, RootInv
<1>13. TagsInv(e)
    BY <1>7, <1>8 DEF TagsInv
<1>14. MarksInv(e, content)
    <2>1. cur \in Open(e) /\ e.snaps[cur].tag # "Reserved"
        BY <1>4, <1>7 DEF Open
    <2> QED  BY <2>1 DEF MarksInv
<1>15. db' = e /\ disk' = e /\ pc' = "deregister_count" /\ cur' = cur
    BY <1>1, <1>2, <1>3 DEF DeregisterTag, Save
<1>16. \A h \in H : HasTag(e, h, "Reserved")
    <2> SUFFICES ASSUME NEW h \in H PROVE HasTag(e, h, "Reserved")
        OBVIOUS
    <2>1. PICK i \in DOMAIN db.rows : db.rows[i].hash = h
        BY <1>2 DEF DeregisterTag, Located
    <2> QED  BY <1>7, <1>8, <2>1 DEF HasTag
<1>17. PhaseInv'
    <2>1. Listing(db.snaps[cur].hash)' = H
        BY <1>2, <1>7, <1>15 DEF Listing
    <2>2. cur \in Counted(e)
        BY <1>4, <1>10
    <2>3. \A i \in DOMAIN e.rows : e.rows[i].tag = IF e.rows[i].hash \in H THEN "Reserved" ELSE "Done"
        BY <1>7, <1>8
    <2> QED  BY <1>4, <1>7, <1>12, <1>15, <1>16, <2>1, <2>2, <2>3 DEF PhaseInv, Busy, Idle
<1> QED  BY <1>6, <1>11, <1>12, <1>13, <1>14, <1>15, <1>17, AlikeStep DEF DeregisterTag, keys, history

\* A snapshot is reserved under a new id, and counts for nothing yet.
LEMMA CommitReserveStep == SnapshotInv /\ CommitReserve => SnapshotInv'
<1> SUFFICES ASSUME SnapshotInv, CommitReserve PROVE SnapshotInv'
    OBVIOUS
<1>1. PICK s : s = 1 + MaxKey(DOMAIN db.snaps)
    OBVIOUS
<1>2. PICK S : S = [t \in DOMAIN db.snaps \cup {s} |->
                    IF t = s THEN [tag |-> "Reserved", hash |-> NoHash] ELSE db.snaps[t]]
    OBVIOUS
<1>3. PICK e : e = [db EXCEPT !.snaps = S]
    OBVIOUS
<1>4. /\ Open(db) = {} /\ FilesThere(db, lost, scanned)
      /\ commits - 1 \in Nat /\ DOMAIN db.snaps \subseteq 1..(commits - 1)
    BY DEF SnapshotInv, PhaseInv, StateInv, Idle, CommitReserve
<1>5. MaxKey(DOMAIN db.snaps) \in 0..(commits - 1) /\ DOMAIN db.snaps \subseteq 1..MaxKey(DOMAIN db.snaps)
    BY <1>4, MaxKeyBounds
<1>6. s \in 1..commits /\ s \notin DOMAIN db.snaps
    BY <1>1, <1>4, <1>5, DbFacts
<1>7. /\ DOMAIN S = DOMAIN db.snaps \cup {s} /\ S[s] = [tag |-> "Reserved", hash |-> NoHash]
      /\ \A t \in DOMAIN db.snaps : S[t] = db.snaps[t]
    BY <1>2, <1>6
<1>8. S \in [DOMAIN S -> Snap] /\ DOMAIN S \subseteq 1..commits
    <2>1. [tag |-> "Reserved", hash |-> NoHash] \in Snap
        BY DEF Snap, Tag
    <2>2. \A t \in DOMAIN db.snaps : db.snaps[t] \in Snap /\ t \in 1..commits
        BY DbFacts DEF IsTables
    <2> QED  BY <1>2, <1>6, <1>7, <2>1, <2>2
<1>9. /\ IsTables(e, idCounter, commits, nextBlob)
      /\ e.rows = db.rows /\ e.cnt = db.cnt /\ e.snaps = S
    BY <1>3, <1>8, DbFacts, SnapsEffect
<1>10. ~HasTag(e, NoHash, "InProgress")
    BY <1>9, DbFacts, SnapshotAssumption DEF HasTag, IsTables, Row
<1>11. s \notin Counted(e) /\ Counted(e) = Counted(db)
    <2>1. s \notin Counted(e)
        BY <1>7, <1>9, <1>10 DEF Counted
    <2>2. \A t \in DOMAIN db.snaps : t \in Counted(e) <=> t \in Counted(db)
        BY <1>7, <1>9 DEF Counted, HasTag
    <2> QED  BY <1>7, <1>9, <2>1, <2>2 DEF Counted
<1>12. Alike(db, e)
    BY <1>7, <1>9, <1>11 DEF Alike, Counted
<1>13. Open(e) \subseteq {s}
    BY <1>4, <1>7, <1>9 DEF Open
<1>14. SnapsInv(e, content)
    BY <1>7, <1>9, <1>13, DbFacts DEF SnapsInv
<1>15. TagsInv(e) /\ RootInv(e)
    BY <1>7, <1>9, DbFacts DEF TagsInv, RootInv
<1>16. FilesInv(e, lost, scanned)
    BY <1>4, <1>9 DEF FilesInv, FilesThere, Located
<1>17. ASSUME ~gcRan, lost = {} PROVE MarksInv(e, content)
    <2>1. MarksInv(db, content)
        BY <1>17 DEF SnapshotInv, FirstInv, CommitReserve
    <2> QED  BY <1>4, <1>9, <2>1 DEF MarksInv
<1>18. db' = e /\ disk' = e /\ pc' = "tops" /\ cur' = s /\ left' = Tops[content]
       /\ content' = content /\ scanned' = scanned
    BY <1>1, <1>2, <1>3 DEF CommitReserve, Save, keys
<1>19. PhaseInv'
    BY <1>7, <1>9, <1>11, <1>13, <1>18 DEF PhaseInv, Busy, Idle
<1>20. pc = "reserve" /\ UNCHANGED <<external, idCounter, nextBlob, commits, gcRan, lost>>
    BY DEF CommitReserve, keys, history
<1> QED  BY <1>9, <1>12, <1>14, <1>15, <1>16, <1>17, <1>18, <1>19, <1>20, AlikeStep

-----------------------------------------------------------------------------
\* The steps that leave the tables in the transaction alone.

\* Such a step keeps the invariant if what it enters next is as it should be.
LEMMA StillStep ==
    ASSUME SnapshotInv, db' = db, disk' = disk \/ disk' = db,
           UNCHANGED <<external, content, scanned, idCounter, nextBlob, commits, gcRan, lost>>,
           pc' = "reserve" => pc' = pc,
           pc' # pc => pc \notin {"tops", "register", "panic", "gc_blobs"} \/ pc' = "panic",
           pc # "gc_blobs", pc' # "gc_blobs",
           pc' \in {"resume", "ready_delete", "deregister_cleanup", "snapshot_delete"}
               => Pending(db) = {},
           PhaseInv'
    PROVE  SnapshotInv'
<1>1. GoodNow(db)' /\ GoodNow(disk)'
    BY DEF SnapshotInv, GoodNow
<1>2. StateInv'
    BY DEF SnapshotInv, StateInv
<1>3. WaitInv'
    <2>1. Pending(db)' = Pending(db)
        BY DEF Pending
    <2>2. ASSUME pc' # "panic", NEW i \in Pending(db) PROVE Held(i)'
        <3>1. Held(i)
            BY <2>2 DEF SnapshotInv, WaitInv
        <3>2. CASE pc' = pc
            BY <3>1, <3>2 DEF Held, Committing
        <3>3. CASE pc' # pc
            BY <2>2, <3>1, <3>3 DEF Held, Committing
        <3> QED  BY <3>2, <3>3
    <2> QED  BY <2>1, <2>2 DEF WaitInv
<1>4. SweepInv'
    BY DEF SweepInv, FirstGcIsExact
<1>5. FirstInv(db)' /\ FirstInv(disk)'
    BY DEF SnapshotInv, FirstInv
<1> QED  BY <1>1, <1>2, <1>3, <1>4, <1>5 DEF SnapshotInv

\* The timer makes the open transaction durable.
LEMMA PeriodicFlushStep == SnapshotInv /\ PeriodicFlush => SnapshotInv'
<1> SUFFICES ASSUME SnapshotInv, PeriodicFlush PROVE SnapshotInv'
    OBVIOUS
<1>1. /\ db' = db /\ disk' = db /\ pc \in {"reserve", "tops"}
      /\ UNCHANGED <<external, content, scanned, idCounter, nextBlob, commits, gcRan, lost, pc, cur, left>>
    BY DEF PeriodicFlush, Inserting, keys, history
<1>2. PhaseInv'
    BY <1>1 DEF SnapshotInv, PhaseInv, Idle, Busy
<1> QED  BY <1>1, <1>2, StillStep

\* A deletion starts with a finished snapshot.
LEMMA DeleteStep == ASSUME NEW s PROVE SnapshotInv /\ Delete(s) => SnapshotInv'
<1> SUFFICES ASSUME SnapshotInv, Delete(s) PROVE SnapshotInv'
    OBVIOUS
<1>1. /\ db' = db /\ disk' = disk /\ pc = "idle" /\ pc' = "will_delete" /\ cur' = s
      /\ s \in DOMAIN db.snaps
      /\ UNCHANGED <<external, content, scanned, idCounter, nextBlob, commits, gcRan, lost>>
    BY DEF Delete, Ready, keys, history
<1>2. Open(db) = {}
    BY <1>1 DEF SnapshotInv, PhaseInv, Idle
<1>3. db.snaps[s].tag = "Done" /\ s \in Counted(db)
    BY <1>1, <1>2 DEF Open, Counted
<1>4. PhaseInv'
    BY <1>1, <1>2, <1>3 DEF PhaseInv, Idle, Busy
<1> QED  BY <1>1, <1>4, StillStep

\* What the status of a root says: it is counted, it is counted off, or neither.
LEMMA GcStatusSays ==
    ASSUME SnapshotInv, NEW h
    PROVE  /\ GcStatus(h) = "Complete" <=> HasTag(db, h, "ReadyDelete")
           /\ GcStatus(h) = "InProgress" <=> HasTag(db, h, "InProgress")
           /\ GcStatus(h) \in {"None", "Complete", "InProgress"}
<1>1. CASE ~Located(db, h)
    BY <1>1 DEF GcStatus, Located, HasTag
<1>2. CASE Located(db, h)
    <2>1. PICK i : i = GetId(db, h)
        OBVIOUS
    <2>2. /\ i \in DOMAIN db.rows /\ db.rows[i].hash = h
          /\ \A j \in DOMAIN db.rows : db.rows[j].hash = h => j = i
        BY <1>2, <2>1, DbFacts, GetIdFinds
    <2>3. \A t : HasTag(db, h, t) <=> db.rows[i].tag = t
        BY <2>2 DEF HasTag
    <2>4. db.rows[i].tag \in {"Done", "Reserved", "InProgress", "ReadyDelete"}
        BY <2>2, DbFacts DEF TagsInv
    <2>5. GcStatus(h) = CASE db.rows[i].tag \in {"Complete", "ReadyDelete"} -> "Complete"
                          [] db.rows[i].tag = "InProgress" -> "InProgress"
                          [] OTHER -> "None"
        BY <1>2, <2>1 DEF GcStatus
    <2> QED  BY <2>3, <2>4, <2>5
<1> QED  BY <1>1, <1>2

\* resume enters the operation where the tags say that it stopped.
LEMMA ResumeStep == ASSUME NEW s PROVE SnapshotInv /\ Resume(s) => SnapshotInv'
<1> SUFFICES ASSUME SnapshotInv, Resume(s) PROVE SnapshotInv'
    OBVIOUS
<1>1. /\ db' = db /\ pc = "resume" /\ pc' = ResumeAt(s) /\ cur' = s /\ s \in Open(db)
      /\ left' = IF pc' = "tops" THEN Tops[content] ELSE {}
      /\ disk' = disk \/ disk' = db
      /\ UNCHANGED <<external, content, scanned, idCounter, nextBlob, commits, gcRan, lost>>
    BY DEF Resume, NotDone, Open, keys, history
<1>2. s \in DOMAIN db.snaps /\ db.snaps[s].tag # "Done" /\ Open(db) \subseteq {s}
    BY <1>1, DbFacts DEF Open, SnapsInv
<1>3. Pending(db) = {}
    BY <1>1 DEF SnapshotInv, WaitInv
<1>4. PICK h : h = db.snaps[s].hash
    OBVIOUS
<1>5. /\ GcStatus(h) = "Complete" <=> HasTag(db, h, "ReadyDelete")
      /\ GcStatus(h) = "InProgress" <=> HasTag(db, h, "InProgress")
      /\ GcStatus(h) \in {"None", "Complete", "InProgress"}
    BY GcStatusSays
<1>6. CASE db.snaps[s].tag = "Reserved"
    <2>1. ~HasTag(db, h, "ReadyDelete")
        <3>1. \A r \in DOMAIN db.snaps : db.snaps[r].tag \notin {"WillDelete", "ReadyDelete"}
            BY <1>2, <1>6 DEF Open
        <3> QED  BY <3>1, DbFacts DEF HasTag, TagsInv
    <2>2. ~HasTag(db, NoHash, "InProgress")
        BY DbFacts, SnapshotAssumption DEF HasTag, IsTables, Row
    <2>3. s \in Counted(db) <=> HasTag(db, h, "InProgress")
        BY <1>2, <1>4, <1>6 DEF Counted
    <2>4. pc' = IF h # NoHash /\ GcStatus(h) # "None" THEN "ready_commit" ELSE "tops"
        BY <1>1, <1>4, <1>6 DEF ResumeAt
    <2>5. pc' = IF s \in Counted(db) THEN "ready_commit" ELSE "tops"
        BY <1>5, <2>1, <2>2, <2>3, <2>4
    <2>6. PhaseInv'
        BY <1>1, <1>2, <1>6, <2>5 DEF PhaseInv, Busy, Idle
    <2> QED  BY <1>1, <1>3, <2>5, <2>6, StillStep
<1>7. CASE db.snaps[s].tag = "Complete"
    <2>1. pc' = "ready_commit"
        BY <1>1, <1>7 DEF ResumeAt
    <2>2. s \in Counted(db)
        BY <1>2, <1>7 DEF Counted
    <2>3. PhaseInv'
        BY <1>1, <1>2, <1>7, <2>1, <2>2 DEF PhaseInv, Busy, Idle
    <2> QED  BY <1>1, <1>3, <2>1, <2>3, StillStep
<1>8. CASE db.snaps[s].tag = "WillDelete"
    <2>1. s \in Counted(db) <=> ~HasTag(db, h, "ReadyDelete")
        BY <1>2, <1>4, <1>8 DEF Counted
    <2>2. pc' = IF GcStatus(h) = "Complete" THEN "ready_delete" ELSE "will_delete"
        BY <1>1, <1>4, <1>8 DEF ResumeAt
    <2>3. pc' = IF s \in Counted(db) THEN "will_delete" ELSE "ready_delete"
        BY <1>5, <2>1, <2>2
    <2>4. PhaseInv'
        BY <1>1, <1>2, <1>8, <2>3 DEF PhaseInv, Busy, Idle
    <2> QED  BY <1>1, <1>3, <2>3, <2>4, StillStep
<1>9. CASE db.snaps[s].tag = "ReadyDelete"
    <2>1. pc' = "ready_delete"
        BY <1>1, <1>9 DEF ResumeAt
    <2>2. s \notin Counted(db)
        BY <1>2, <1>9 DEF Counted
    <2>3. PhaseInv'
        BY <1>1, <1>2, <1>9, <2>1, <2>2 DEF PhaseInv, Busy, Idle
    <2> QED  BY <1>1, <1>3, <2>1, <2>3, StillStep
<1> QED  BY <1>2, <1>6, <1>7, <1>8, <1>9, DbFacts DEF SnapsInv

\* resume ends when no work is left.
LEMMA ResumeNothingStep == SnapshotInv /\ ResumeNothing => SnapshotInv'
<1> SUFFICES ASSUME SnapshotInv, ResumeNothing PROVE SnapshotInv'
    OBVIOUS
<1>1. /\ db' = db /\ disk' = disk /\ pc = "resume" /\ pc' = "idle" /\ Open(db) = {}
      /\ UNCHANGED <<external, content, scanned, idCounter, nextBlob, commits, gcRan, lost>>
    BY DEF ResumeNothing, NotDone, Open, keys, history
<1>2. PhaseInv'
    BY <1>1 DEF PhaseInv, Idle, Busy
<1> QED  BY <1>1, <1>2, StillStep

\* A hash that is listed by a counted snapshot and not lost is found.
LEMMA ListedIsLocated ==
    ASSUME SnapshotInv, lost = {}, NEW s \in Counted(db), NEW h \in Listing(db.snaps[s].hash)
    PROVE  Located(db, h)
<1>1. db.snaps[s].hash \in Root
    BY DbFacts, CountedHasRoot
<1>2. h \in Hash
    BY <1>1, SnapshotAssumption DEF Listing
<1>3. h \in Need(db.snaps[s].hash)
    BY <1>2, SnapshotAssumption DEF Need
<1> QED  BY <1>3, DbFacts DEF NeedInv

\* Without a loss, a listing fails only on a directory that is not stored yet.
LEMMA ListingNeedsStores ==
    ASSUME SnapshotInv, lost = {}, pc = "deregister", ListingFails(db.snaps[cur].hash)
    PROVE  ListsPending
<1>1. cur \in Counted(db) /\ cur \in DOMAIN db.snaps /\ db.snaps[cur].tag = "WillDelete"
    BY DEF SnapshotInv, PhaseInv, Busy
<1>2. \A h \in Listing(db.snaps[cur].hash) : Located(db, h)
    BY <1>1, ListedIsLocated
<1>3. PICK g \in DirectoryTrees(db.snaps[cur].hash) : g \notin ReadyHashes(db)
    BY <1>2 DEF ListingFails, Readable
<1>4. g \in Need(db.snaps[cur].hash)
    BY DEF DirectoryTrees, Need
<1>5. PICK i \in DOMAIN db.rows : db.rows[i].hash = g
    BY <1>1, <1>4, DbFacts DEF NeedInv, Located
<1>6. i \in Pending(db)
    BY <1>3, <1>5 DEF Pending, ReadyHashes
<1> QED  BY <1>1, <1>3, <1>5, <1>6 DEF ListsPending

\* No expect() fails but for a lost hash, a file that was not scanned, or a
\* directory that is not stored yet.
LEMMA ExpectHasCause ==
    ASSUME SnapshotInv, ExpectFails PROVE lost # {} \/ MeetsUnscanned \/ ListsPending
<1> SUFFICES ASSUME lost = {}, ~MeetsUnscanned, ~ListsPending PROVE FALSE
    OBVIOUS
<1>1. ASSUME pc = "tops", NEW h \in left \cap File, NextTop(h), ~Located(db, h) PROVE FALSE
    <2>1. cur \in DOMAIN db.snaps /\ db.snaps[cur].tag = "Reserved"
        BY <1>1 DEF SnapshotInv, PhaseInv, Busy
    <2>2. FilesThere(db, lost, scanned)
        BY <2>1, DbFacts DEF FilesInv
    <2>3. h \in Tree[h]
        BY <1>1, SnapshotAssumption
    <2>4. h \notin scanned
        BY <1>1, <2>2, <2>3 DEF FilesThere
    <2> QED  BY <1>1, <2>4 DEF MeetsUnscanned
<1>2. ASSUME pc = "register_cleanup", ~Located(db, db.snaps[cur].hash) PROVE FALSE
    <2>1. cur \in Counted(db)
        BY <1>2 DEF SnapshotInv, PhaseInv, Busy, Counted
    <2> QED  BY <1>2, <2>1, ListedIsLocated DEF Listing
<1>3. ASSUME pc = "deregister", ListingFails(db.snaps[cur].hash) PROVE FALSE
    BY <1>3, ListingNeedsStores
<1>4. ASSUME pc = "resume", NEW s \in NotDone, Deleting(s), ~Located(db, db.snaps[s].hash)
      PROVE  FALSE
    <2>1. s \in DOMAIN db.snaps /\ db.snaps[s].tag \in {"WillDelete", "ReadyDelete"}
        BY <1>4 DEF NotDone, Deleting
    <2>2. db.snaps[s].tag # "ReadyDelete"
        BY <1>4, <2>1, DbFacts DEF RootInv, Located
    <2>3. s \in Counted(db)
        BY <1>4, <2>1, <2>2 DEF Counted, HasTag, Located
    <2> QED  BY <1>4, <2>3, ListedIsLocated DEF Listing
<1>5. ASSUME NEW i \in DOMAIN db.rows, Count(db, i) < 0 PROVE FALSE
    <2>1. Cardinality(Refs(db, db.rows[i].hash)) \in Nat
        BY DbFacts, RefsFinite
    <2>2. Count(db, i) >= Cardinality(Refs(db, db.rows[i].hash))
        BY DbFacts DEF CountInv
    <2>3. Count(db, i) \in Int
        BY DbFacts DEF Count, IsTables
    <2> QED  BY <1>5, <2>1, <2>2, <2>3
<1> QED  BY <1>1, <1>2, <1>3, <1>4, <1>5 DEF ExpectFails

\* The program stops; only a restart goes on from here.
LEMMA ExpectFailsStep == SnapshotInv /\ ExpectFails => SnapshotInv'
<1> SUFFICES ASSUME SnapshotInv, ExpectFails PROVE SnapshotInv'
    OBVIOUS
<1>1. /\ db' = db /\ disk' = disk /\ pc' = "panic" /\ pc # "gc_blobs"
      /\ cur' = cur /\ left' = left
      /\ UNCHANGED <<external, content, scanned, idCounter, nextBlob, commits, gcRan, lost>>
    BY DEF ExpectFails, Ready, keys, history
<1>2. lost # {} \/ MeetsUnscanned \/ ListsPending
    BY ExpectHasCause
<1>3. /\ lost' = lost /\ MeetsUnscanned' = MeetsUnscanned
      /\ ListsPending' = ListsPending
    BY <1>1 DEF MeetsUnscanned, ListsPending, NextTop
<1>4. PhaseInv'
    BY <1>1, <1>2, <1>3 DEF PhaseInv, Idle, Busy
<1> QED  BY <1>1, <1>4, StillStep

-----------------------------------------------------------------------------
\* The steps that insert hashes.

\* Tables stay good when counters grow, and when a scan changes the content
\* while no snapshot is being worked on.
LEMMA GoodWider ==
    ASSUME NEW d, NEW n \in Nat, NEW k \in Nat, NEW m, NEW L, NEW c, NEW F, NEW E,
           Good(d, n, k, m, L, c, F, E),
           NEW q \in Nat, n <= q, NEW r \in Nat, k <= r, NEW b, NEW G,
           (b = c /\ G = F) \/ Open(d) = {}
    PROVE  Good(d, q, r, m, L, b, G, E) /\ (MarksInv(d, c) => MarksInv(d, b))
<1>1. IsTables(d, q, r, m)
    <2>1. \A i \in DOMAIN d.rows : i \in 1..q
        BY DEF Good, IsTables
    <2>2. \A s \in DOMAIN d.snaps : s \in 1..r
        BY DEF Good, IsTables
    <2> QED  BY <2>1, <2>2 DEF Good, IsTables
<1>2. CASE b = c /\ G = F
    BY <1>1, <1>2 DEF Good
<1>3. CASE Open(d) = {}
    <2>1. \A s \in DOMAIN d.snaps : d.snaps[s].tag = "Done"
        BY <1>3 DEF Open
    <2>2. SnapsInv(d, b)
        BY <1>3, <2>1 DEF Good, SnapsInv
    <2>3. FilesInv(d, L, G)
        BY <2>1 DEF FilesInv
    <2>4. MarksInv(d, c) => MarksInv(d, b)
        BY <1>3 DEF MarksInv
    <2> QED  BY <1>1, <2>2, <2>3, <2>4 DEF Good
<1> QED  BY <1>2, <1>3

\* The tables after an insertion of whole trees.
LEMMA InsertGood ==
    ASSUME SnapshotInv, NEW H \in SUBSET Hash, \A h \in H : Tree[h] \subseteq H,
           NEW e, e = Insert(db, H), NEW q, q = CountAfter(db, H)
    PROVE  /\ q \in Nat /\ idCounter <= q
           /\ Good(e, q, commits, nextBlob, lost, content, scanned, external)
           /\ Inserted(db, e, H)
           /\ (lost = {} /\ ExactInv(db)) => ExactInv(e)
           /\ MarksInv(db, content) => MarksInv(e, content)
           /\ Counted(e) = Counted(db)
           /\ \A h : Located(db, h) => Located(e, h)
           /\ \A h, t : t # "Done" => (HasTag(e, h, t) <=> HasTag(db, h, t))
           /\ \A i : Count(e, i) = Count(db, i)
<1>1. /\ q \in Nat /\ idCounter <= q /\ IsTables(e, q, commits, nextBlob)
      /\ Inserted(db, e, H) /\ Unique(e) /\ TreeInv(e)
    BY DbFacts, InsertEffect
<1>2. PICK d, n, k, m, L, c, F, E :
        /\ d = db /\ n = idCounter /\ k = commits /\ m = nextBlob
        /\ L = lost /\ c = content /\ F = scanned /\ E = external
    OBVIOUS
<1>3. /\ k \in Nat /\ IsTables(d, n, k, m) /\ IsTables(e, q, k, m) /\ Inserted(d, e, H)
      /\ SnapsInv(d, c) /\ TagsInv(d) /\ RootInv(d) /\ NeedInv(d, L) /\ FilesInv(d, L, F)
      /\ CountInv(d, L) /\ BlobInv(d, E)
    BY <1>1, <1>2, DbFacts
<1>4. /\ SnapsInv(e, c) /\ TagsInv(e) /\ RootInv(e) /\ NeedInv(e, L)
      /\ FilesInv(e, L, F) /\ CountInv(e, L) /\ BlobInv(e, E)
      /\ (L = {} /\ ExactInv(d)) => ExactInv(e)
      /\ MarksInv(d, c) => MarksInv(e, c)
      /\ Counted(e) = Counted(d)
      /\ \A h : Located(d, h) => Located(e, h)
      /\ \A h, t : t # "Done" => (HasTag(e, h, t) <=> HasTag(d, h, t))
      /\ \A i : Count(e, i) = Count(d, i)
    BY <1>3, InsertedKeeps
<1> QED  BY <1>1, <1>2, <1>4 DEF Good

\* A tree is a set of hashes that contains the trees of its members.
LEMMA TreesAreClosed ==
    /\ \A h \in Hash : h \in Tree[h] /\ Tree[h] \in SUBSET Hash /\ \A g \in Tree[h] : Tree[g] \subseteq Tree[h]
    /\ \A r \in Root : r \in Hash /\ Tops[r] \in SUBSET Hash /\ r \notin Tops[r]
    /\ \A f \in File : f \in Hash
BY SnapshotAssumption

\* A scan inserts the files that it visits.
LEMMA ScanStep ==
    ASSUME NEW r \in Root, NEW F \in SUBSET (Tops[r] \cap File)
    PROVE  SnapshotInv /\ Scan(r, F) => SnapshotInv'
<1> SUFFICES ASSUME SnapshotInv, Scan(r, F) PROVE SnapshotInv'
    OBVIOUS
<1>1. PICK H : H = UNION {Tree[f] : f \in F}
    OBVIOUS
<1>2. H \in SUBSET Hash /\ \A h \in H : Tree[h] \subseteq H
    BY <1>1, TreesAreClosed
<1>3. PICK e : e = Insert(db, H)
    OBVIOUS
<1>4. PICK q : q = CountAfter(db, H)
    OBVIOUS
<1>5. /\ pc = "idle" /\ pc' = "reserve" /\ db' = e /\ disk' = disk /\ idCounter' = q
      /\ content' = r /\ scanned' = F /\ commits' = commits + 1
      /\ UNCHANGED <<external, nextBlob, gcRan, lost>>
    BY <1>1, <1>3, <1>4 DEF Scan, Rescan, Ready, history
<1>6. /\ q \in Nat /\ idCounter <= q
      /\ Good(e, q, commits, nextBlob, lost, content, scanned, external)
      /\ Inserted(db, e, H)
      /\ (lost = {} /\ ExactInv(db)) => ExactInv(e)
      /\ MarksInv(db, content) => MarksInv(e, content)
      /\ \A i : Count(e, i) = Count(db, i)
    BY <1>2, <1>3, <1>4, InsertGood
<1>7. Open(db) = {} /\ Open(disk) = {} /\ Open(e) = {} /\ e.snaps = db.snaps /\ disk.snaps = db.snaps
    BY <1>5, <1>6 DEF SnapshotInv, PhaseInv, StateInv, Idle, Open, Inserted
<1>8. commits' \in Nat /\ commits <= commits' /\ q <= q
    BY <1>5, <1>6, DbFacts
<1>9. /\ Good(e, q, commits', nextBlob, lost, r, F, external)
      /\ MarksInv(e, content) => MarksInv(e, r)
    BY <1>6, <1>7, <1>8, DbFacts, GoodWider
<1>10. /\ Good(disk, q, commits', nextBlob, lost, r, F, external)
       /\ MarksInv(disk, content) => MarksInv(disk, r)
    <2>1. Good(disk, idCounter, commits, nextBlob, lost, content, scanned, external)
        BY DEF SnapshotInv, GoodNow
    <2> QED  BY <1>6, <1>7, <1>8, <2>1, DbFacts, GoodWider
<1>11. GoodNow(db)' /\ GoodNow(disk)'
    BY <1>5, <1>9, <1>10 DEF GoodNow
<1>12. StateInv'
    <2>1. commits' - 1 = commits /\ DOMAIN db.snaps \subseteq 1..commits
        BY <1>5, DbFacts DEF IsTables
    <2> QED  BY <1>5, <1>6, <1>7, <1>8, <2>1 DEF SnapshotInv, StateInv
<1>13. PhaseInv'
    <2>1. FilesThere(e, lost, F)
        BY <1>1, <1>6 DEF FilesThere, Inserted
    <2> QED  BY <1>5, <1>7, <2>1 DEF PhaseInv, Idle, Busy
<1>14. WaitInv'
    <2>1. ASSUME NEW i \in Pending(e) PROVE Held(i)'
        <3>1. CASE i \in DOMAIN db.rows
            <4>1. e.rows[i] = db.rows[i] /\ i \in Pending(db)
                BY <1>6, <2>1, <3>1 DEF Inserted, Pending
            <4>2. Held(i)
                BY <1>5, <4>1 DEF SnapshotInv, WaitInv
            <4>3. CASE \E f \in File : db.rows[i].hash \in Tree[f]
                BY <1>5, <4>1, <4>3 DEF Held
            <4>4. CASE \E j \in DOMAIN db.rows : /\ db.rows[i].hash \in Tree[db.rows[j].hash]
                                                 /\ Count(db, j) > 0
                BY <1>5, <1>6, <4>1, <4>4 DEF Held, Inserted
            <4> QED  BY <1>5, <4>2, <4>3, <4>4 DEF Held, Committing
        <3>2. CASE i \notin DOMAIN db.rows
            <4>1. e.rows[i].hash \in H
                BY <1>6, <2>1, <3>2 DEF Inserted, Pending
            <4> QED  BY <1>1, <1>5, <4>1 DEF Held
        <3> QED  BY <3>1, <3>2
    <2> QED  BY <1>5, <2>1 DEF WaitInv
<1>15. SweepInv'
    BY <1>5 DEF SweepInv, FirstGcIsExact
<1>16. FirstInv(db)' /\ FirstInv(disk)'
    BY <1>5, <1>6, <1>9, <1>10 DEF SnapshotInv, FirstInv
<1> QED  BY <1>11, <1>12, <1>13, <1>14, <1>15, <1>16 DEF SnapshotInv

\* The tables in which top_hash_fn finds the top h, inserted before unless it
\* is a file's.
Visited(e, q, h) ==
    /\ q \in Nat /\ idCounter <= q
    /\ Good(e, q, commits, nextBlob, lost, content, scanned, external)
    /\ Inserted(db, e, Tree[h]) \/ e = db
    /\ (lost = {} /\ ExactInv(db)) => ExactInv(e)
    /\ MarksInv(db, content) => MarksInv(e, content)
    /\ Counted(e) = Counted(db)
    /\ \A g : Located(db, g) => Located(e, g)
    /\ \A g, t : t # "Done" => (HasTag(e, g, t) <=> HasTag(db, g, t))
    /\ \A i : Count(e, i) = Count(db, i)
    /\ \A g \in Tree[h] \ lost : Located(e, g)

\* A file that is known has its tree below it, a directory's tree is inserted.
LEMMA TopIsVisited ==
    ASSUME SnapshotInv, NEW h \in Tops[content], h \in File => Located(db, h),
           NEW e, e = IF h \in File THEN db ELSE Insert(db, Tree[h]),
           NEW q, q = IF h \in File THEN idCounter ELSE CountAfter(db, Tree[h])
    PROVE  Visited(e, q, h)
<1>1. h \in Hash /\ Tree[h] \in SUBSET Hash /\ \A g \in Tree[h] : Tree[g] \subseteq Tree[h]
    BY DbFacts, TreesAreClosed
<1>2. CASE h \in File
    <2>1. Good(e, q, commits, nextBlob, lost, content, scanned, external) /\ q \in Nat /\ idCounter <= q
        BY <1>2, DbFacts DEF SnapshotInv, GoodNow
    <2>2. e = db
        BY <1>2
    <2>3. PICK j \in DOMAIN db.rows : db.rows[j].hash = h
        BY <1>2 DEF Located
    <2>4. \A g \in Tree[h] : Located(db, g)
        BY <2>3, DbFacts DEF TreeInv, Located
    <2> QED  BY <2>1, <2>2, <2>4 DEF Visited
<1>3. CASE h \notin File
    <2>1. e = Insert(db, Tree[h]) /\ q = CountAfter(db, Tree[h])
        BY <1>3
    <2>2. PICK H : H = Tree[h]
        OBVIOUS
    <2>3. /\ q \in Nat /\ idCounter <= q
          /\ Good(e, q, commits, nextBlob, lost, content, scanned, external)
          /\ Inserted(db, e, H)
          /\ (lost = {} /\ ExactInv(db)) => ExactInv(e)
          /\ MarksInv(db, content) => MarksInv(e, content)
          /\ Counted(e) = Counted(db)
          /\ \A g : Located(db, g) => Located(e, g)
          /\ \A g, t : t # "Done" => (HasTag(e, g, t) <=> HasTag(db, g, t))
          /\ \A i : Count(e, i) = Count(db, i)
        BY <1>1, <2>1, <2>2, InsertGood
    <2>4. \A g \in H : Located(e, g)
        BY <2>3 DEF Inserted
    <2> QED  BY <2>2, <2>3, <2>4 DEF Visited
<1> QED  BY <1>2, <1>3

\* One entry of commit_to_tree: its top is tagged to be counted.
LEMMA TopHashStep == ASSUME NEW h \in left PROVE SnapshotInv /\ TopHash(h) => SnapshotInv'
<1> SUFFICES ASSUME SnapshotInv, TopHash(h) PROVE SnapshotInv'
    OBVIOUS
<1>1. PICK f : f = IF h \in File THEN db ELSE Insert(db, Tree[h])
    OBVIOUS
<1>2. PICK q : q = IF h \in File THEN idCounter ELSE CountAfter(db, Tree[h])
    OBVIOUS
<1>3. PICK i : i = GetId(f, h)
    OBVIOUS
<1>4. PICK e : e = SetTag(f, {i}, "Reserved")
    OBVIOUS
<1>5. /\ pc = "tops" /\ pc' = "tops" /\ db' = e /\ disk' = disk /\ idCounter' = q
      /\ left' = left \ {h} /\ cur' = cur /\ Located(f, h)
      /\ UNCHANGED <<external, content, scanned, nextBlob, commits, gcRan, lost>>
    BY <1>1, <1>2, <1>3, <1>4 DEF TopHash, keys, history
<1>6. /\ cur \in DOMAIN db.snaps /\ Open(db) \subseteq {cur} /\ db.snaps[cur].tag = "Reserved"
      /\ cur \notin Counted(db) /\ left \subseteq Tops[content]
      /\ \A t \in Tops[content] \ left : Passed(db, lost, t)
    BY <1>5 DEF SnapshotInv, PhaseInv, Busy
<1>7. h \in Tops[content] /\ h \in Hash /\ h # content /\ h \in Tree[h]
    BY <1>6, DbFacts, TreesAreClosed
<1>8. Visited(f, q, h)
    BY <1>1, <1>2, <1>5, <1>7, TopIsVisited
<1>9. Good(f, q, commits, nextBlob, lost, content, scanned, external) /\ f.snaps = db.snaps
    BY <1>8 DEF Visited, Inserted
<1>10. /\ i \in DOMAIN f.rows /\ f.rows[i].hash = h
       /\ \A j \in DOMAIN f.rows : f.rows[j].hash = h => j = i
    BY <1>3, <1>5, <1>9, GetIdFinds DEF Good
<1>11. IsTables(e, q, commits, nextBlob) /\ Retagged(f, e, {i}, "Reserved")
    BY <1>4, <1>9, SetTagEffect DEF Tag, Good
<1>12. \A g, t : t # "Reserved" /\ g # h => (HasTag(e, g, t) <=> HasTag(f, g, t))
    BY <1>10, <1>11 DEF HasTag, Retagged
<1>13. \A g : HasTag(f, g, "Reserved") => HasTag(e, g, "Reserved")
    BY <1>11 DEF HasTag, Retagged
<1>14. Counted(e) = Counted(f) /\ e.snaps = db.snaps
    <2>1. e.snaps = f.snaps /\ f.snaps = db.snaps
        BY <1>9, <1>11 DEF Retagged
    <2>2. ASSUME NEW s \in DOMAIN f.snaps PROVE s \in Counted(e) <=> s \in Counted(f)
        <3>1. CASE s = cur
            <4>1. f.snaps[s].tag = "Reserved" /\ f.snaps[s].hash \in {NoHash, content}
                BY <1>6, <1>9, <3>1 DEF Good, SnapsInv
            <4>2. f.snaps[s].hash # h
                BY <1>7, <4>1, SnapshotAssumption
            <4>3. HasTag(e, f.snaps[s].hash, "InProgress") <=> HasTag(f, f.snaps[s].hash, "InProgress")
                BY <1>12, <4>2
            <4> QED  BY <2>1, <2>2, <4>1, <4>3 DEF Counted
        <3>2. CASE s # cur
            <4>1. f.snaps[s].tag = "Done"
                BY <1>6, <2>1, <2>2, <3>2 DEF Open
            <4> QED  BY <2>1, <2>2, <4>1 DEF Counted
        <3> QED  BY <3>1, <3>2
    <2> QED  BY <2>1, <2>2 DEF Counted
<1>15. Alike(f, e)
    BY <1>9, <1>11, <1>14 DEF Alike, Retagged
<1>16. /\ Unique(e) /\ NeedInv(e, lost) /\ CountInv(e, lost) /\ TreeInv(e) /\ BlobInv(e, external)
       /\ ExactInv(f) => ExactInv(e)
       /\ Pending(e) = Pending(f) /\ \A g : Located(e, g) <=> Located(f, g)
       /\ \A j : Count(e, j) = Count(f, j)
    BY <1>9, <1>15, AlikeKeeps DEF Good
<1>17. SnapsInv(e, content) /\ FilesInv(e, lost, scanned) /\ Open(e) \subseteq {cur}
    <2>1. SnapsInv(f, content) /\ FilesInv(f, lost, scanned)
        BY <1>9 DEF Good
    <2> QED  BY <1>6, <1>9, <1>14, <1>16, <2>1 DEF SnapsInv, FilesInv, FilesThere, Open
<1>18. TagsInv(e) /\ RootInv(e)
    <2>1. TagsInv(f) /\ RootInv(f)
        BY <1>9 DEF Good
    <2> QED  BY <1>9, <1>11, <1>14, <2>1 DEF TagsInv, RootInv, Retagged
<1>19. MarksInv(db, content) => MarksInv(e, content)
    <2>1. cur \in Open(e) /\ h \in Listing(content)
        BY <1>6, <1>7, <1>14 DEF Open, Listing
    <2>2. Open(e) = Open(f)
        BY <1>9, <1>14 DEF Open
    <2>3. SUFFICES ASSUME MarksInv(f, content) PROVE MarksInv(e, content)
        BY <1>8 DEF Visited
    <2>4. SUFFICES ASSUME NEW j \in DOMAIN f.rows, e.rows[j].tag = "Reserved"
                   PROVE  \E s \in Open(e) : e.snaps[s].tag = "Reserved" => f.rows[j].hash \in Listing(content)
        BY <1>11 DEF MarksInv, Retagged
    <2>5. CASE j = i
        BY <1>10, <2>1, <2>5
    <2>6. CASE j # i
        <3>1. f.rows[j].tag = "Reserved"
            BY <1>11, <2>4, <2>6 DEF Retagged
        <3> QED  BY <1>9, <1>14, <2>2, <2>3, <3>1 DEF MarksInv
    <2> QED  BY <2>5, <2>6
<1>20. GoodNow(db)'
    BY <1>5, <1>11, <1>16, <1>17, <1>18 DEF GoodNow, Good
<1>21. GoodNow(disk)'
    <2>1. q \in Nat /\ idCounter <= q /\ commits <= commits
        BY <1>8, DbFacts DEF Visited
    <2>2. Good(disk, idCounter, commits, nextBlob, lost, content, scanned, external)
        BY DEF SnapshotInv, GoodNow
    <2>3. Good(disk, q, commits, nextBlob, lost, content, scanned, external)
        BY <2>1, <2>2, DbFacts, GoodWider
    <2> QED  BY <1>5, <2>3 DEF GoodNow
<1>22. StateInv'
    BY <1>5, <1>8, <1>14 DEF SnapshotInv, StateInv, Visited
<1>23. PhaseInv'
    <2>1. ASSUME NEW t \in Tops[content] \ (left \ {h}) PROVE Passed(e, lost, t)
        <3>1. CASE t = h
            <4>1. HasTag(e, h, "Reserved")
                BY <1>10, <1>11 DEF HasTag, Retagged
            <4> QED  BY <1>8, <1>16, <3>1, <4>1 DEF Passed, Visited
        <3>2. CASE t # h
            <4>1. Passed(db, lost, t)
                BY <1>6, <2>1, <3>2
            <4>2. HasTag(e, t, "Reserved")
                BY <1>8, <1>13, <4>1 DEF Passed, Visited
            <4> QED  BY <1>8, <1>16, <4>1, <4>2 DEF Passed, Visited
        <3> QED  BY <3>1, <3>2
    <2>2. cur \notin Counted(e)
        BY <1>6, <1>8, <1>14 DEF Visited
    <2> QED  BY <1>5, <1>6, <1>14, <1>17, <2>1, <2>2 DEF PhaseInv, Busy, Idle
<1>24. WaitInv'
    <2>1. ASSUME NEW j \in Pending(f) PROVE Held(j)'
        <3>1. j \in DOMAIN f.rows /\ ~f.rows[j].ready
            BY <2>1 DEF Pending
        <3>2. CASE f.rows[j].hash \in Tree[h]
            <4>1. e.rows[i].tag = "Reserved" /\ e.rows[i].hash = h /\ i \in DOMAIN e.rows
                BY <1>10, <1>11 DEF Retagged
            <4>2. e.rows[j].hash \in Tree[h]
                BY <1>11, <3>1, <3>2 DEF Retagged
            <4> QED  BY <1>5, <4>1, <4>2 DEF Held, Committing
        <3>3. CASE f.rows[j].hash \notin Tree[h]
            <4>1. j \in DOMAIN db.rows /\ f.rows[j] = db.rows[j]
                BY <1>8, <3>1, <3>3 DEF Visited, Inserted
            <4>2. Held(j)
                BY <1>5, <3>1, <4>1 DEF SnapshotInv, WaitInv, Pending
            <4>3. e.rows[j].hash = db.rows[j].hash
                BY <1>11, <3>1, <4>1 DEF Retagged
            <4>4. CASE \E g \in File : db.rows[j].hash \in Tree[g]
                BY <1>5, <4>3, <4>4 DEF Held
            <4>5. CASE \E p \in DOMAIN db.rows :
                        /\ db.rows[j].hash \in Tree[db.rows[p].hash]
                        /\ Count(db, p) > 0 \/ db.rows[p].tag = "Reserved"
                <5>1. PICK p \in DOMAIN db.rows :
                        /\ db.rows[j].hash \in Tree[db.rows[p].hash]
                        /\ Count(db, p) > 0 \/ db.rows[p].tag = "Reserved"
                    BY <4>5
                <5>2. p \in DOMAIN f.rows /\ f.rows[p] = db.rows[p]
                    BY <1>8, <5>1 DEF Visited, Inserted
                <5>3. p \in DOMAIN e.rows /\ e.rows[p].hash = db.rows[p].hash
                    BY <1>11, <5>2 DEF Retagged
                <5>4. db.rows[p].tag = "Reserved" => e.rows[p].tag = "Reserved"
                    BY <1>11, <5>2 DEF Retagged
                <5>5. Count(e, p) = Count(db, p)
                    BY <1>8, <1>16 DEF Visited
                <5> QED  BY <1>5, <4>3, <5>1, <5>3, <5>4, <5>5 DEF Held, Committing
            <4> QED  BY <1>5, <4>2, <4>4, <4>5 DEF Held
        <3> QED  BY <3>2, <3>3
    <2> QED  BY <1>5, <1>16, <2>1 DEF WaitInv
<1>25. SweepInv'
    BY <1>5 DEF SweepInv, FirstGcIsExact
<1>26. FirstInv(db)' /\ FirstInv(disk)'
    BY <1>5, <1>8, <1>16, <1>19 DEF SnapshotInv, FirstInv, Visited
<1> QED  BY <1>20, <1>21, <1>22, <1>23, <1>24, <1>25, <1>26 DEF SnapshotInv

\* The top tree is inserted and the snapshot learns its root.
LEMMA CommitUpdateStep == SnapshotInv /\ CommitUpdate => SnapshotInv'
<1> SUFFICES ASSUME SnapshotInv, CommitUpdate PROVE SnapshotInv'
    OBVIOUS
<1>1. PICK H : H = Tree[content]
    OBVIOUS
<1>2. PICK f : f = Insert(db, H)
    OBVIOUS
<1>3. PICK q : q = CountAfter(db, H)
    OBVIOUS
<1>4. PICK v : v = [f.snaps[cur] EXCEPT !.hash = content]
    OBVIOUS
<1>5. PICK S : S = [f.snaps EXCEPT ![cur] = v]
    OBVIOUS
<1>6. PICK e : e = [f EXCEPT !.snaps = S]
    OBVIOUS
<1>7. /\ pc = "tops" /\ pc' = "register" /\ db' = e /\ disk' = e /\ idCounter' = q
      /\ cur' = cur /\ left = {}
      /\ UNCHANGED <<external, content, scanned, nextBlob, commits, gcRan, lost>>
    BY <1>1, <1>2, <1>3, <1>4, <1>5, <1>6 DEF CommitUpdate, Save, keys, history
<1>8. /\ cur \in DOMAIN db.snaps /\ Open(db) \subseteq {cur} /\ db.snaps[cur].tag = "Reserved"
      /\ cur \notin Counted(db) /\ \A t \in Tops[content] : Passed(db, lost, t)
    BY <1>7 DEF SnapshotInv, PhaseInv, Busy
<1>9. content \in Root /\ content \in Hash /\ content \in H
    BY <1>1, DbFacts, TreesAreClosed
<1>10. H \in SUBSET Hash /\ \A h \in H : Tree[h] \subseteq H
    BY <1>1, <1>9, TreesAreClosed
<1>11. /\ q \in Nat /\ idCounter <= q
       /\ Good(f, q, commits, nextBlob, lost, content, scanned, external)
       /\ Inserted(db, f, H)
       /\ (lost = {} /\ ExactInv(db)) => ExactInv(f)
       /\ MarksInv(db, content) => MarksInv(f, content)
       /\ Counted(f) = Counted(db)
       /\ \A h : Located(db, h) => Located(f, h)
       /\ \A h, t : t # "Done" => (HasTag(f, h, t) <=> HasTag(db, h, t))
       /\ \A i : Count(f, i) = Count(db, i)
    BY <1>2, <1>3, <1>10, InsertGood
<1>12. f.snaps = db.snaps /\ f.snaps \in [DOMAIN f.snaps -> Snap] /\ DOMAIN f.snaps \subseteq 1..commits
    BY <1>11 DEF Inserted, Good, IsTables
<1>13. v \in Snap /\ v.hash = content /\ v.tag = "Reserved"
    <2>1. f.snaps[cur] \in Snap /\ f.snaps[cur].tag = "Reserved"
        BY <1>8, <1>12
    <2> QED  BY <1>4, <1>9, <2>1 DEF Snap
<1>14. /\ DOMAIN S = DOMAIN f.snaps /\ S \in [DOMAIN S -> Snap] /\ S[cur] = v
       /\ \A s \in DOMAIN S : s # cur => S[s] = f.snaps[s]
    BY <1>5, <1>8, <1>12, <1>13
<1>15. /\ IsTables(e, q, commits, nextBlob)
       /\ e.rows = f.rows /\ e.cnt = f.cnt /\ e.snaps = S
    BY <1>6, <1>11, <1>12, <1>14, SnapsEffect DEF Good
<1>16. Open(f) \subseteq {cur} /\ Open(e) \subseteq {cur} /\ cur \in Open(e)
    BY <1>8, <1>12, <1>13, <1>14, <1>15 DEF Open
<1>17. \A h : ~HasTag(f, h, "InProgress") /\ ~HasTag(f, h, "ReadyDelete")
    <2>1. ASSUME NEW i \in DOMAIN f.rows, f.rows[i].tag = "InProgress" PROVE FALSE
        <3>1. PICK s \in DOMAIN f.snaps : /\ f.snaps[s].hash = f.rows[i].hash
                                          /\ f.snaps[s].tag \in {"Reserved", "Complete"}
            BY <1>11, <2>1 DEF Good, TagsInv
        <3>2. s \in Counted(f) /\ s = cur
            BY <1>16, <2>1, <3>1 DEF Counted, HasTag, Open
        <3> QED  BY <1>8, <1>11, <3>2
    <2>2. ASSUME NEW i \in DOMAIN f.rows, f.rows[i].tag = "ReadyDelete" PROVE FALSE
        <3>1. PICK s \in DOMAIN f.snaps : f.snaps[s].tag \in {"WillDelete", "ReadyDelete"}
            BY <1>11, <2>2 DEF Good, TagsInv
        <3> QED  BY <1>8, <1>12, <3>1 DEF Open
    <2> QED  BY <2>1, <2>2 DEF HasTag
<1>18. Counted(e) = Counted(f) /\ cur \notin Counted(e)
    <2>1. cur \notin Counted(e)
        BY <1>13, <1>14, <1>15, <1>17 DEF Counted, HasTag
    <2>2. \A s \in DOMAIN f.snaps : s # cur => (s \in Counted(e) <=> s \in Counted(f))
        BY <1>14, <1>15 DEF Counted, HasTag
    <2>3. cur \notin Counted(f)
        BY <1>8, <1>11
    <2> QED  BY <1>14, <1>15, <2>1, <2>2, <2>3 DEF Counted
<1>19. Alike(f, e)
    BY <1>14, <1>15, <1>18 DEF Alike, Counted
<1>20. /\ Unique(e) /\ NeedInv(e, lost) /\ CountInv(e, lost) /\ TreeInv(e) /\ BlobInv(e, external)
       /\ ExactInv(f) => ExactInv(e)
       /\ Pending(e) = Pending(f) /\ \A g : Located(e, g) <=> Located(f, g)
       /\ \A j : Count(e, j) = Count(f, j)
    BY <1>11, <1>19, AlikeKeeps DEF Good
<1>21. SnapsInv(e, content)
    <2>1. SnapsInv(f, content)
        BY <1>11 DEF Good
    <2> QED  BY <1>13, <1>14, <1>15, <1>16, <2>1 DEF SnapsInv
<1>22. FilesInv(e, lost, scanned)
    <2>1. FilesThere(db, lost, scanned)
        BY <1>8, DbFacts DEF FilesInv
    <2> QED  BY <1>11, <1>20, <2>1 DEF FilesInv, FilesThere
<1>23. TagsInv(e) /\ RootInv(e)
    <2>1. TagsInv(f) /\ RootInv(f)
        BY <1>11 DEF Good
    <2>2. TagsInv(e)
        BY <1>15, <1>17, <2>1 DEF TagsInv, HasTag
    <2>3. RootInv(e)
        BY <1>13, <1>14, <1>15, <2>1 DEF RootInv
    <2> QED  BY <2>2, <2>3
<1>24. MarksInv(f, content) => MarksInv(e, content)
    <2>1. SUFFICES ASSUME MarksInv(f, content), NEW i \in DOMAIN f.rows, f.rows[i].tag = "Reserved"
                   PROVE  f.rows[i].hash \in Listing(content)
        BY <1>15, <1>16 DEF MarksInv
    <2>2. PICK s \in Open(f) : f.snaps[s].tag = "Reserved" => f.rows[i].hash \in Listing(content)
        BY <2>1 DEF MarksInv
    <2> QED  BY <1>8, <1>12, <1>16, <2>2
<1>25. GoodNow(db)' /\ GoodNow(disk)'
    BY <1>7, <1>15, <1>20, <1>21, <1>22, <1>23 DEF GoodNow, Good
<1>26. StateInv'
    BY <1>7, <1>11 DEF SnapshotInv, StateInv
<1>27. PhaseInv'
    <2>1. ASSUME NEW t \in Tops[content] PROVE Passed(e, lost, t)
        <3>1. Passed(db, lost, t)
            BY <1>8
        <3>2. HasTag(e, t, "Reserved")
            BY <1>11, <1>15, <3>1 DEF Passed, HasTag
        <3> QED  BY <1>11, <1>20, <3>1, <3>2 DEF Passed
    <2>2. \A h \in Tree[content] : Located(e, h)
        BY <1>1, <1>11, <1>20 DEF Inserted
    <2>3. e.snaps[cur].hash = content /\ e.snaps[cur].tag = "Reserved" /\ cur \in DOMAIN e.snaps
        BY <1>8, <1>12, <1>13, <1>14, <1>15
    <2> QED  BY <1>7, <1>16, <1>18, <2>1, <2>2, <2>3 DEF PhaseInv, Busy, Idle
<1>28. WaitInv'
    <2>1. ASSUME NEW j \in Pending(f) PROVE Held(j)'
        <3>1. j \in DOMAIN f.rows /\ ~f.rows[j].ready
            BY <2>1 DEF Pending
        <3>2. CASE f.rows[j].hash \in H
            <4>1. PICK i \in DOMAIN f.rows : f.rows[i].hash = content
                BY <1>9, <1>11 DEF Inserted, Located
            <4> QED  BY <1>1, <1>7, <1>15, <3>2, <4>1 DEF Held
        <3>3. CASE f.rows[j].hash \notin H
            <4>1. j \in DOMAIN db.rows /\ f.rows[j] = db.rows[j]
                BY <1>11, <3>1, <3>3 DEF Inserted
            <4>2. Held(j)
                BY <1>7, <3>1, <4>1 DEF SnapshotInv, WaitInv, Pending
            <4>3. CASE \E g \in File : db.rows[j].hash \in Tree[g]
                BY <1>7, <1>15, <4>1, <4>3 DEF Held
            <4>4. CASE \E p \in DOMAIN db.rows :
                        /\ db.rows[j].hash \in Tree[db.rows[p].hash]
                        /\ Count(db, p) > 0 \/ db.rows[p].tag = "Reserved"
                <5>1. PICK p \in DOMAIN db.rows :
                        /\ db.rows[j].hash \in Tree[db.rows[p].hash]
                        /\ Count(db, p) > 0 \/ db.rows[p].tag = "Reserved"
                    BY <4>4
                <5>2. p \in DOMAIN e.rows /\ e.rows[p] = db.rows[p]
                    BY <1>11, <1>15, <5>1 DEF Inserted
                <5>3. Count(e, p) = Count(db, p)
                    BY <1>11, <1>20
                <5> QED  BY <1>7, <1>15, <4>1, <5>1, <5>2, <5>3 DEF Held, Committing
            <4> QED  BY <1>7, <4>2, <4>3, <4>4 DEF Held
        <3> QED  BY <3>2, <3>3
    <2> QED  BY <1>7, <1>20, <2>1 DEF WaitInv
<1>29. SweepInv'
    BY <1>7 DEF SweepInv, FirstGcIsExact
<1>30. FirstInv(db)' /\ FirstInv(disk)'
    BY <1>7, <1>11, <1>20, <1>24 DEF SnapshotInv, FirstInv
<1> QED  BY <1>25, <1>26, <1>27, <1>28, <1>29, <1>30 DEF SnapshotInv

-----------------------------------------------------------------------------
\* Counting a snapshot.

\* register_final adds one to the count of every hash that the snapshot lists,
\* and from then on the snapshot counts.
LEMMA RegisterFinalStep == SnapshotInv /\ RegisterFinal => SnapshotInv'
<1> SUFFICES ASSUME SnapshotInv, RegisterFinal PROVE SnapshotInv'
    OBVIOUS
<1>1. /\ cur \in DOMAIN db.snaps /\ Open(db) \subseteq {cur} /\ db.snaps[cur].tag = "Reserved"
      /\ cur \notin Counted(db) /\ db.snaps[cur].hash = content
      /\ \A t \in Tops[content] : Passed(db, lost, t)
      /\ \A h \in Tree[content] : Located(db, h)
    BY DEF SnapshotInv, PhaseInv, Busy, RegisterFinal
<1>2. content \in Root /\ content \in Hash /\ content \in Tree[content]
    BY DbFacts, TreesAreClosed
<1>3. PICK root : root = GetId(db, content)
    OBVIOUS
<1>4. /\ root \in DOMAIN db.rows /\ db.rows[root].hash = content
      /\ \A i \in DOMAIN db.rows : db.rows[i].hash = content => i = root
    BY <1>1, <1>2, <1>3, DbFacts, GetIdFinds
<1>5. PICK f : f = SetTag(db, {root}, "Reserved")
    OBVIOUS
<1>6. PICK I : I = IdsByTag(f, "Reserved")
    OBVIOUS
<1>7. PICK g : g = AddCount(f, I, 1)
    OBVIOUS
<1>8. PICK e : e = SetTag(g, {root}, "InProgress")
    OBVIOUS
<1>9. IsTables(f, idCounter, commits, nextBlob) /\ Retagged(db, f, {root}, "Reserved")
    BY <1>5, DbFacts, SetTagEffect DEF Tag
<1>10. /\ IsTables(g, idCounter, commits, nextBlob)
       /\ g.rows = f.rows /\ g.snaps = f.snaps /\ g.blobs = f.blobs
       /\ DOMAIN g.cnt = DOMAIN f.cnt \cup I
       /\ \A i : Count(f, i) \in Int
       /\ \A i : Count(g, i) = Count(f, i) + (IF i \in I THEN 1 ELSE 0)
    <2>1. 1 \in Int
        OBVIOUS
    <2> QED  BY <1>7, <1>9, <2>1, AddCountEffect
<1>11. IsTables(e, idCounter, commits, nextBlob) /\ Retagged(g, e, {root}, "InProgress")
    BY <1>8, <1>10, SetTagEffect DEF Tag
<1>12. /\ e.snaps = db.snaps /\ DOMAIN e.rows = DOMAIN db.rows
       /\ \A i \in DOMAIN db.rows :
            /\ e.rows[i].hash = db.rows[i].hash
            /\ e.rows[i].ready = db.rows[i].ready /\ e.rows[i].blob = db.rows[i].blob
            /\ e.rows[i].tag = IF i = root THEN "InProgress" ELSE db.rows[i].tag
    BY <1>9, <1>10, <1>11 DEF Retagged
<1>13. I = {i \in DOMAIN db.rows : i = root \/ db.rows[i].tag = "Reserved"}
    BY <1>4, <1>6, <1>9 DEF IdsByTag, Retagged
<1>14. /\ \A i : Count(db, i) \in Int /\ Count(e, i) = Count(db, i) + (IF i \in I THEN 1 ELSE 0)
       /\ DOMAIN e.cnt = DOMAIN db.cnt \cup I
    BY <1>9, <1>10, <1>11 DEF Retagged, Count
<1>15. \A h : Located(e, h) <=> Located(db, h)
    BY <1>12 DEF Located
<1>16. Counted(e) = Counted(db) \cup {cur}
    <2>1. cur \in Counted(e)
        BY <1>1, <1>4, <1>12 DEF Counted, HasTag
    <2>2. \A s \in DOMAIN db.snaps : s # cur => (s \in Counted(e) <=> s \in Counted(db))
        BY <1>1, <1>12 DEF Counted, Open
    <2> QED  BY <1>12, <2>1, <2>2 DEF Counted
<1>17. \A h : Refs(e, h) = IF h \in Listing(content) THEN Refs(db, h) \cup {cur} ELSE Refs(db, h)
    BY <1>1, <1>12, <1>16 DEF Refs
<1>18. ASSUME NEW h
       PROVE  /\ Cardinality(Refs(db, h)) \in Nat
              /\ Cardinality(Refs(e, h)) = Cardinality(Refs(db, h)) + (IF h \in Listing(content) THEN 1 ELSE 0)
    <2>1. PICK R : R = Refs(db, h)
        OBVIOUS
    <2>2. IsFiniteSet(R) /\ Cardinality(R) \in Nat
        BY <2>1, DbFacts, RefsFinite
    <2>3. cur \notin R
        BY <1>1, <2>1 DEF Refs
    <2>4. Cardinality(R \cup {cur}) = Cardinality(R) + 1
        BY <2>2, <2>3, FS_AddElement
    <2> QED  BY <1>17, <2>1, <2>2, <2>4
<1>19. ASSUME NEW i \in DOMAIN db.rows, db.rows[i].hash \in Listing(content) PROVE i \in I
    <2>1. CASE db.rows[i].hash = content
        BY <1>4, <1>13, <2>1
    <2>2. CASE db.rows[i].hash # content
        <3>1. HasTag(db, db.rows[i].hash, "Reserved")
            BY <1>1, <1>19, <2>2 DEF Listing, Passed
        <3>2. db.rows[i].tag = "Reserved"
            BY <3>1, DbFacts DEF HasTag, Unique
        <3> QED  BY <1>13, <3>2
    <2> QED  BY <2>1, <2>2
<1>20. NeedInv(e, lost)
    <2>1. SUFFICES ASSUME NEW s \in Counted(e), NEW h \in Need(db.snaps[s].hash) \ lost
                   PROVE  Located(db, h)
        BY <1>12, <1>15 DEF NeedInv
    <2>2. CASE s \in Counted(db)
        BY <2>1, <2>2, DbFacts DEF NeedInv
    <2>3. CASE s = cur
        <3>1. PICK t \in Listing(content) : h \in Tree[t]
            BY <1>1, <2>1, <2>3 DEF Need
        <3>2. CASE t = content
            BY <1>1, <3>1, <3>2
        <3>3. CASE t \in Tops[content]
            BY <1>1, <2>1, <3>1, <3>3 DEF Passed
        <3> QED  BY <3>1, <3>2, <3>3 DEF Listing
    <2> QED  BY <1>16, <2>1, <2>2, <2>3
<1>21. CountInv(e, lost)
    <2>1. ASSUME NEW i \in DOMAIN db.rows, db.rows[i].hash \notin lost
          PROVE  Count(e, i) >= Cardinality(Refs(e, db.rows[i].hash))
        <3>1. PICK h : h = db.rows[i].hash
            OBVIOUS
        <3>2. Count(db, i) >= Cardinality(Refs(db, h)) /\ (h \in Listing(content) => i \in I)
            BY <1>19, <2>1, <3>1, DbFacts DEF CountInv
        <3>3. PICK a, b, x, y : /\ a = Count(db, i) /\ b = Count(e, i)
                                /\ x = Cardinality(Refs(db, h)) /\ y = Cardinality(Refs(e, h))
            OBVIOUS
        <3>4. /\ a \in Int /\ x \in Nat /\ a >= x
              /\ b = a + (IF i \in I THEN 1 ELSE 0)
              /\ y = x + (IF h \in Listing(content) THEN 1 ELSE 0)
            BY <1>14, <1>18, <3>2, <3>3
        <3>5. b >= y
            BY <3>2, <3>4
        <3> QED  BY <3>1, <3>3, <3>5
    <2>2. ASSUME NEW i \in DOMAIN e.cnt, e.cnt[i] < 0
          PROVE  i \in DOMAIN db.rows /\ db.rows[i].ready
        <3>1. e.cnt[i] = Count(e, i)
            BY <2>2 DEF Count
        <3>2. Count(db, i) < 0
            BY <1>14, <2>2, <3>1
        <3>3. i \in DOMAIN db.cnt /\ db.cnt[i] < 0
            BY <3>2 DEF Count
        <3> QED  BY <3>3, DbFacts DEF CountInv
    <2> QED  BY <1>12, <2>1, <2>2 DEF CountInv
<1>22. ASSUME ExactInv(db), MarksInv(db, content) PROVE ExactInv(e)
    <2>1. ASSUME NEW i \in I PROVE db.rows[i].hash \in Listing(content)
        <3>1. CASE i = root
            BY <1>4, <3>1 DEF Listing
        <3>2. CASE i # root
            <4>1. i \in DOMAIN db.rows /\ db.rows[i].tag = "Reserved"
                BY <1>13, <2>1, <3>2
            <4>2. PICK s \in Open(db) : db.snaps[s].tag = "Reserved" => db.rows[i].hash \in Listing(content)
                BY <1>22, <4>1 DEF MarksInv
            <4> QED  BY <1>1, <4>2
        <3> QED  BY <3>1, <3>2
    <2>2. ASSUME NEW i \in DOMAIN db.rows
          PROVE  Count(e, i) = Cardinality(Refs(e, db.rows[i].hash))
        <3>1. PICK h : h = db.rows[i].hash
            OBVIOUS
        <3>2. i \in I <=> h \in Listing(content)
            BY <1>19, <2>1, <2>2, <3>1
        <3>3. Count(db, i) = Cardinality(Refs(db, h))
            BY <1>22, <3>1 DEF ExactInv
        <3>4. /\ Count(e, i) = Count(db, i) + (IF i \in I THEN 1 ELSE 0)
              /\ Cardinality(Refs(e, h)) = Cardinality(Refs(db, h)) + (IF h \in Listing(content) THEN 1 ELSE 0)
            BY <1>14, <1>18
        <3>5. Count(e, i) = Cardinality(Refs(e, h))
            BY <3>2, <3>3, <3>4
        <3> QED  BY <3>1, <3>5
    <2>3. ASSUME NEW i \in DOMAIN e.cnt \ DOMAIN db.rows PROVE e.cnt[i] = 0
        <3>1. i \notin I /\ i \in DOMAIN db.cnt
            BY <1>13, <1>14
        <3>2. e.cnt[i] = Count(e, i) /\ Count(db, i) = 0
            BY <1>22, <3>1 DEF Count, ExactInv
        <3> QED  BY <1>14, <3>1, <3>2
    <2> QED  BY <1>12, <2>2, <2>3 DEF ExactInv
<1>23. Unique(e) /\ TreeInv(e) /\ BlobInv(e, external)
    <2>1. Unique(e) /\ BlobInv(e, external)
        BY <1>12, DbFacts DEF Unique, BlobInv
    <2>2. ASSUME NEW j \in DOMAIN db.rows, NEW t \in Tree[db.rows[j].hash]
          PROVE  \E i \in DOMAIN db.rows : /\ db.rows[i].hash = t /\ i <= j
                                           /\ db.rows[j].ready => db.rows[i].ready
        BY DbFacts DEF TreeInv
    <2>3. TreeInv(e)
        BY <1>12, <2>2 DEF TreeInv
    <2> QED  BY <2>1, <2>3
<1>24. SnapsInv(e, content) /\ FilesInv(e, lost, scanned) /\ RootInv(e) /\ Open(e) = Open(db)
    BY <1>12, <1>15, DbFacts DEF SnapsInv, FilesInv, FilesThere, RootInv, Open
<1>25. TagsInv(e)
    BY <1>1, <1>4, <1>12, DbFacts DEF TagsInv
<1>26. MarksInv(db, content) => MarksInv(e, content)
    BY <1>12, <1>24 DEF MarksInv
<1>27. /\ db' = e /\ disk' = e /\ pc = "register" /\ pc' = "ready_commit" /\ cur' = cur
       /\ UNCHANGED <<external, content, scanned, idCounter, nextBlob, commits, gcRan, lost>>
    BY <1>1, <1>3, <1>5, <1>6, <1>7, <1>8 DEF RegisterFinal, Save, keys, history
<1>28. GoodNow(db)' /\ GoodNow(disk)'
    BY <1>11, <1>20, <1>21, <1>23, <1>24, <1>25, <1>27 DEF GoodNow, Good
<1>29. StateInv'
    BY <1>27 DEF SnapshotInv, StateInv
<1>30. PhaseInv'
    BY <1>1, <1>12, <1>16, <1>24, <1>27 DEF PhaseInv, Busy, Idle
<1>31. WaitInv'
    <2>1. ASSUME NEW i \in Pending(db) PROVE Held(i)'
        <3>1. i \in DOMAIN db.rows /\ ~db.rows[i].ready /\ Held(i)
            BY <1>27 DEF SnapshotInv, WaitInv, Pending
        <3>2. CASE \E h \in File : db.rows[i].hash \in Tree[h]
            BY <1>12, <1>27, <3>1, <3>2 DEF Held
        <3>3. CASE \E j \in DOMAIN db.rows : /\ db.rows[i].hash \in Tree[db.rows[j].hash]
                                             /\ Count(db, j) > 0 \/ j \in I
            <4>1. PICK j \in DOMAIN db.rows : /\ db.rows[i].hash \in Tree[db.rows[j].hash]
                                              /\ Count(db, j) > 0 \/ j \in I
                BY <3>3
            <4>2. ~db.rows[j].ready
                <5>1. PICK p \in DOMAIN db.rows : /\ db.rows[p].hash = db.rows[i].hash
                                                  /\ db.rows[j].ready => db.rows[p].ready
                    BY <4>1, DbFacts DEF TreeInv
                <5>2. p = i
                    BY <3>1, <5>1, DbFacts DEF Unique
                <5> QED  BY <3>1, <5>1, <5>2
            <4>3. Count(db, j) >= 0
                BY <4>2, DbFacts DEF CountInv, Count, IsTables
            <4>4. Count(e, j) > 0
                BY <1>14, <4>1, <4>3
            <4> QED  BY <1>12, <1>27, <3>1, <4>1, <4>4 DEF Held
        <3> QED  BY <1>4, <1>13, <3>1, <3>2, <3>3 DEF Held
    <2>2. Pending(e) = Pending(db)
        BY <1>12 DEF Pending
    <2> QED  BY <1>27, <2>1, <2>2 DEF WaitInv
<1>32. SweepInv'
    BY <1>27 DEF SweepInv, FirstGcIsExact
<1>33. FirstInv(db)' /\ FirstInv(disk)'
    BY <1>22, <1>26, <1>27 DEF SnapshotInv, FirstInv
<1> QED  BY <1>28, <1>29, <1>30, <1>31, <1>32, <1>33 DEF SnapshotInv

-----------------------------------------------------------------------------
\* Storing what is pending.

\* A flush of the stores leaves nothing pending, in both databases.
LEMMA FlushEffect ==
    ASSUME NEW f, FlushStores(f), nextBlob \in Nat, NEW n, NEW k, IsTables(f, n, k, nextBlob)
    PROVE  /\ disk' = db' /\ nextBlob' \in Nat
           /\ IsTables(db', n, k, nextBlob')
           /\ StoredIn(f, db', Pending(f), nextBlob + 1)
           /\ BlobInv(f, external) => BlobInv(db', external')
<1>1. CASE Pending(f) = {}
    <2>1. db' = f /\ disk' = f /\ external' = external /\ nextBlob' = nextBlob
        BY <1>1 DEF FlushStores, Save
    <2>2. StoredIn(f, f, Pending(f), nextBlob + 1)
        BY <1>1 DEF StoredIn
    <2> QED  BY <2>1, <2>2
<1>2. CASE Pending(f) # {}
    <2>1. PICK b : b = nextBlob + 1
        OBVIOUS
    <2>2. PICK e : e = Stored(f, Pending(f), b)
        OBVIOUS
    <2>3. db' = e /\ disk' = e /\ external' = external \cup {b} /\ nextBlob' = b
        BY <1>2, <2>1, <2>2 DEF FlushStores, Save
    <2>4. IsTables(e, n, k, b) /\ StoredIn(f, e, Pending(f), b)
        BY <2>1, <2>2, StoredEffect
    <2>5. BlobInv(f, external) => BlobInv(e, external \cup {b})
        BY <2>4 DEF StoredIn, BlobInv, Pending
    <2> QED  BY <2>1, <2>3, <2>4, <2>5
<1> QED  BY <1>1, <1>2

\* A step that does nothing but store rows, in the order of their ids, keeps
\* the invariant.
LEMMA StoreStep ==
    ASSUME SnapshotInv, NEW e, NEW I, NEW b, StoredIn(db, e, I, b), db' = e, disk' = e,
           \A j \in I, i \in DOMAIN db.rows : i <= j /\ ~db.rows[i].ready => i \in I,
           IsTables(e, idCounter, commits, nextBlob'), nextBlob' \in Nat,
           BlobInv(db, external) => BlobInv(e, external'),
           UNCHANGED <<content, scanned, idCounter, pc, cur, left, commits, gcRan, lost>>,
           pc \in {"idle", "reserve", "tops"}
    PROVE  SnapshotInv'
<1>1. /\ Unique(e) /\ SnapsInv(e, content) /\ TagsInv(e) /\ RootInv(e) /\ NeedInv(e, lost)
      /\ FilesInv(e, lost, scanned) /\ CountInv(e, lost) /\ TreeInv(e)
      /\ ExactInv(db) => ExactInv(e)
      /\ MarksInv(db, content) => MarksInv(e, content)
      /\ Counted(e) = Counted(db)
      /\ Pending(e) = Pending(db) \ I
    BY DbFacts, StoredKeeps
<1>2. /\ \A h : Located(db, h) <=> Located(e, h)
      /\ \A h, t : HasTag(e, h, t) <=> HasTag(db, h, t)
      /\ \A i : Count(e, i) = Count(db, i)
    BY DbFacts, StoredKeeps
<1>3. /\ e.snaps = db.snaps /\ DOMAIN e.rows = DOMAIN db.rows
      /\ \A i \in DOMAIN db.rows : e.rows[i].hash = db.rows[i].hash /\ e.rows[i].tag = db.rows[i].tag
    BY DEF StoredIn
<1>4. GoodNow(db)' /\ GoodNow(disk)'
    BY <1>1, DbFacts DEF GoodNow, Good
<1>5. StateInv'
    BY <1>3 DEF SnapshotInv, StateInv
<1>6. PhaseInv'
    <2>1. Open(e) = Open(db)
        BY <1>3 DEF Open
    <2>2. FilesThere(db, lost, scanned) => FilesThere(e, lost, scanned)
        BY <1>2 DEF FilesThere
    <2>3. \A t : Passed(db, lost, t) => Passed(e, lost, t)
        BY <1>2 DEF Passed
    <2>4. PhaseInv
        BY DEF SnapshotInv
    <2> QED  BY <1>1, <1>3, <2>1, <2>2, <2>3, <2>4 DEF PhaseInv, Idle, Busy
<1>7. WaitInv'
    <2>1. ASSUME NEW i \in Pending(e) PROVE Held(i)'
        <3>1. i \in DOMAIN db.rows /\ Held(i)
            BY <1>1 DEF SnapshotInv, WaitInv, Pending
        <3> QED  BY <1>2, <1>3, <3>1 DEF Held, Committing
    <2> QED  BY <2>1 DEF WaitInv
<1>8. SweepInv'
    BY DEF SweepInv, FirstGcIsExact
<1>9. FirstInv(db)' /\ FirstInv(disk)'
    BY <1>1 DEF SnapshotInv, FirstInv
<1> QED  BY <1>4, <1>5, <1>6, <1>7, <1>8, <1>9 DEF SnapshotInv

\* A full blob is stored.
LEMMA BlobFullStep == ASSUME NEW k PROVE SnapshotInv /\ BlobFull(k) => SnapshotInv'
<1> SUFFICES ASSUME SnapshotInv, BlobFull(k) PROVE SnapshotInv'
    OBVIOUS
<1>1. PICK I : I = {i \in Pending(db) : i <= k}
    OBVIOUS
<1>2. PICK b : b = nextBlob + 1
    OBVIOUS
<1>3. PICK e : e = Stored(db, I, b)
    OBVIOUS
<1>4. /\ db' = e /\ disk' = e /\ nextBlob' = b /\ external' = external \cup {b}
      /\ pc \in {"reserve", "tops"} /\ k \in Pending(db)
      /\ UNCHANGED <<content, scanned, idCounter, pc, cur, left, commits, gcRan, lost>>
    BY <1>1, <1>2, <1>3 DEF BlobFull, Save, Inserting, keys, history
<1>5. IsTables(e, idCounter, commits, b) /\ StoredIn(db, e, I, b) /\ b \in Nat
    BY <1>2, <1>3, DbFacts, StoredEffect
<1>6. \A i \in DOMAIN db.rows : i \in Nat
    BY DbFacts DEF IsTables
<1>7. \A j \in I, i \in DOMAIN db.rows : i <= j /\ ~db.rows[i].ready => i \in I
    BY <1>1, <1>4, <1>6 DEF Pending
<1>8. BlobInv(db, external) => BlobInv(e, external \cup {b})
    BY <1>5 DEF StoredIn, BlobInv
<1> QED  BY <1>4, <1>5, <1>7, <1>8, StoreStep

\* data_flush stores all that is pending.
LEMMA DataFlushStep == SnapshotInv /\ DataFlush => SnapshotInv'
<1> SUFFICES ASSUME SnapshotInv, DataFlush PROVE SnapshotInv'
    OBVIOUS
<1>1. FlushStores(db) /\ pc = "idle"
      /\ UNCHANGED <<content, scanned, idCounter, pc, cur, left, commits, gcRan, lost>>
    BY DEF DataFlush, keys, history
<1>2. /\ disk' = db' /\ nextBlob' \in Nat
      /\ IsTables(db', idCounter, commits, nextBlob')
      /\ StoredIn(db, db', Pending(db), nextBlob + 1)
      /\ BlobInv(db, external) => BlobInv(db', external')
    BY <1>1, DbFacts, FlushEffect
<1>3. \A j \in Pending(db), i \in DOMAIN db.rows : i <= j /\ ~db.rows[i].ready => i \in Pending(db)
    BY DEF Pending
<1>4. PICK e : e = db'
    OBVIOUS
<1> QED  BY <1>1, <1>2, <1>3, <1>4, StoreStep

-----------------------------------------------------------------------------
\* The collector, after it has swept the hashes.

\* A blob that is deleted holds no ready row of either database.
LEMMA GcDeleteBlobStep == ASSUME NEW b PROVE SnapshotInv /\ GcDeleteBlob(b) => SnapshotInv'
<1> SUFFICES ASSUME SnapshotInv, GcDeleteBlob(b) PROVE SnapshotInv'
    OBVIOUS
<1>1. /\ pc = "gc_blobs" /\ b \in left /\ external' = external \ {b} /\ left' = left \ {b}
      /\ UNCHANGED <<db, disk, content, scanned, idCounter, nextBlob, pc, cur, commits, gcRan, lost>>
    BY DEF GcDeleteBlob, keys, history
<1>2. ASSUME NEW d \in {db, disk} PROVE BlobInv(d, external \ {b})
    <2>1. BlobInv(d, external) /\ \A i \in DOMAIN d.rows : d.rows[i].ready => d.rows[i].blob \notin left
        BY <1>1 DEF SnapshotInv, GoodNow, Good, SweepInv
    <2> QED  BY <1>1, <2>1 DEF BlobInv
<1>3. GoodNow(db)' /\ GoodNow(disk)'
    BY <1>1, <1>2 DEF SnapshotInv, GoodNow, Good
<1>4. StateInv'
    BY <1>1 DEF SnapshotInv, StateInv
<1>5. PhaseInv'
    BY <1>1 DEF SnapshotInv, PhaseInv, Idle, Busy
<1>6. WaitInv'
    BY <1>1 DEF SnapshotInv, WaitInv, Pending, Held, Committing
<1>7. SweepInv'
    BY <1>1 DEF SnapshotInv, SweepInv, FirstGcIsExact
<1>8. FirstInv(db)' /\ FirstInv(disk)'
    BY <1>1 DEF SnapshotInv, FirstInv
<1> QED  BY <1>3, <1>4, <1>5, <1>6, <1>7, <1>8 DEF SnapshotInv

\* A blob that is not there ends the collection.
LEMMA GcErrorStep == ASSUME NEW b PROVE SnapshotInv /\ GcError(b) => SnapshotInv'
<1> SUFFICES ASSUME SnapshotInv, GcError(b) PROVE SnapshotInv'
    OBVIOUS
<1>1. /\ pc = "gc_blobs" /\ pc' = "gc_failed" /\ gcRan' = TRUE
      /\ UNCHANGED <<db, disk, external, content, scanned, idCounter, nextBlob, cur, left, commits, lost>>
    BY DEF GcError, keys
<1>2. GoodNow(db)' /\ GoodNow(disk)'
    BY <1>1 DEF SnapshotInv, GoodNow
<1>3. StateInv'
    BY <1>1 DEF SnapshotInv, StateInv
<1>4. PhaseInv'
    BY <1>1 DEF SnapshotInv, PhaseInv, Idle, Busy
<1>5. WaitInv'
    BY <1>1 DEF SnapshotInv, WaitInv, Pending, Held, Committing
<1>6. SweepInv' /\ FirstInv(db)' /\ FirstInv(disk)'
    BY <1>1 DEF SweepInv, FirstGcIsExact, FirstInv
<1> QED  BY <1>2, <1>3, <1>4, <1>5, <1>6 DEF SnapshotInv

\* The rows of the deleted blobs go, and the stores are flushed.
LEMMA GcDoneStep == SnapshotInv /\ GcDone => SnapshotInv'
<1> SUFFICES ASSUME SnapshotInv, GcDone PROVE SnapshotInv'
    OBVIOUS
<1>1. PICK B : B = [b \in {c \in DOMAIN db.blobs : db.blobs[c] # "InProgress"} |-> "Done"]
    OBVIOUS
<1>2. PICK f : f = [db EXCEPT !.blobs = B]
    OBVIOUS
<1>3. /\ FlushStores(f) /\ pc = "gc_blobs" /\ pc' = "idle" /\ gcRan' = TRUE
      /\ UNCHANGED <<content, scanned, idCounter, cur, commits, lost>>
    BY <1>1, <1>2 DEF GcDone, keys
<1>4. f = [rows |-> db.rows, cnt |-> db.cnt, snaps |-> db.snaps, blobs |-> B]
    BY <1>2, DbFacts DEF IsTables
<1>5. B \in [DOMAIN B -> Tag] /\ DOMAIN B \subseteq 1..nextBlob
    BY <1>1, DbFacts DEF IsTables, Tag
<1>6. IsTables(f, idCounter, commits, nextBlob)
    BY <1>4, <1>5, DbFacts DEF IsTables
<1>7. PICK e : e = db'
    OBVIOUS
<1>8. /\ disk' = e /\ nextBlob' \in Nat
      /\ IsTables(e, idCounter, commits, nextBlob')
      /\ StoredIn(f, e, Pending(f), nextBlob + 1)
      /\ BlobInv(f, external) => BlobInv(e, external')
    BY <1>3, <1>6, <1>7, DbFacts, FlushEffect
<1>9. Pending(f) = Pending(db) /\ BlobInv(f, external)
    BY <1>4, DbFacts DEF Pending, BlobInv
<1>10. StoredIn(db, e, Pending(db), nextBlob + 1)
    BY <1>4, <1>8, <1>9 DEF StoredIn
<1>11. \A j \in Pending(db), i \in DOMAIN db.rows : i <= j /\ ~db.rows[i].ready => i \in Pending(db)
    BY DEF Pending
<1>12. /\ Unique(e) /\ SnapsInv(e, content) /\ TagsInv(e) /\ RootInv(e) /\ NeedInv(e, lost)
       /\ FilesInv(e, lost, scanned) /\ CountInv(e, lost) /\ TreeInv(e)
       /\ Pending(e) = Pending(db) \ Pending(db)
    BY <1>10, <1>11, DbFacts, StoredKeeps
<1>13. GoodNow(db)' /\ GoodNow(disk)'
    BY <1>3, <1>7, <1>8, <1>9, <1>12 DEF GoodNow, Good
<1>14. e.snaps = db.snaps
    BY <1>10 DEF StoredIn
<1>15. StateInv'
    BY <1>3, <1>7, <1>8, <1>14 DEF SnapshotInv, StateInv
<1>16. PhaseInv'
    <2>1. Open(db) = {}
        BY <1>3 DEF SnapshotInv, PhaseInv, Idle
    <2>2. Open(e) = {}
        BY <1>14, <2>1 DEF Open
    <2> QED  BY <1>3, <1>7, <2>2 DEF PhaseInv, Idle, Busy
<1>17. WaitInv'
    BY <1>3, <1>7, <1>12 DEF WaitInv
<1>18. SweepInv' /\ FirstInv(db)' /\ FirstInv(disk)'
    BY <1>3 DEF SweepInv, FirstGcIsExact, FirstInv
<1> QED  BY <1>13, <1>15, <1>16, <1>17, <1>18 DEF SnapshotInv

-----------------------------------------------------------------------------
\* Counting a snapshot off.

\* The second half of deregister takes one from the count of every hash that
\* the snapshot lists and leaves nothing pending, so that a count may fall to
\* zero; from then on the snapshot does not count.
LEMMA DeregisterCountStep == SnapshotInv /\ DeregisterCount => SnapshotInv'
<1> SUFFICES ASSUME SnapshotInv, DeregisterCount PROVE SnapshotInv'
    OBVIOUS
<1>1. PICK r : r = db.snaps[cur].hash
    OBVIOUS
<1>2. /\ cur \in DOMAIN db.snaps /\ Open(db) \subseteq {cur} /\ db.snaps[cur].tag = "WillDelete"
      /\ cur \in Counted(db)
      /\ \A h \in Listing(r) : HasTag(db, h, "Reserved")
      /\ \A i \in DOMAIN db.rows :
            db.rows[i].tag = IF db.rows[i].hash \in Listing(r) THEN "Reserved" ELSE "Done"
    BY <1>1 DEF SnapshotInv, PhaseInv, Busy, DeregisterCount
<1>3. r \in Listing(r) /\ Located(db, r)
    <2>1. r \in Listing(r)
        BY DEF Listing
    <2> QED  BY <1>2, <2>1 DEF HasTag, Located
<1>4. PICK root : root = GetId(db, r)
    OBVIOUS
<1>5. /\ root \in DOMAIN db.rows /\ db.rows[root].hash = r
      /\ \A i \in DOMAIN db.rows : db.rows[i].hash = r => i = root
    BY <1>3, <1>4, DbFacts, GetIdFinds
<1>6. PICK I : I = IdsByTag(db, "Reserved")
    OBVIOUS
<1>7. PICK g : g = AddCount(db, I, -1)
    OBVIOUS
<1>8. PICK f : f = SetTag(g, {root}, "ReadyDelete")
    OBVIOUS
<1>9. PICK e : e = db'
    OBVIOUS
<1>10. /\ FlushStores(f) /\ pc = "deregister_count" /\ pc' = "ready_delete"
       /\ UNCHANGED <<content, scanned, idCounter, cur, commits, gcRan, lost>>
    BY <1>1, <1>4, <1>6, <1>7, <1>8 DEF DeregisterCount, keys, history
<1>11. /\ IsTables(g, idCounter, commits, nextBlob)
       /\ g.rows = db.rows /\ g.snaps = db.snaps /\ DOMAIN g.cnt = DOMAIN db.cnt \cup I
       /\ \A i : Count(db, i) \in Int
       /\ \A i : Count(g, i) = Count(db, i) + (IF i \in I THEN -1 ELSE 0)
    <2>1. -1 \in Int
        OBVIOUS
    <2> QED  BY <1>7, <2>1, DbFacts, AddCountEffect
<1>12. IsTables(f, idCounter, commits, nextBlob) /\ Retagged(g, f, {root}, "ReadyDelete")
    BY <1>8, <1>11, SetTagEffect DEF Tag
<1>13. /\ disk' = e /\ nextBlob' \in Nat
       /\ IsTables(e, idCounter, commits, nextBlob')
       /\ StoredIn(f, e, Pending(f), nextBlob + 1)
       /\ BlobInv(f, external) => BlobInv(e, external')
    BY <1>9, <1>10, <1>12, DbFacts, FlushEffect
<1>14. /\ e.snaps = db.snaps /\ e.cnt = g.cnt /\ DOMAIN e.rows = DOMAIN db.rows
       /\ \A i \in DOMAIN db.rows :
            /\ e.rows[i].hash = db.rows[i].hash
            /\ e.rows[i].tag = IF i = root THEN "ReadyDelete" ELSE db.rows[i].tag
    BY <1>11, <1>12, <1>13 DEF Retagged, StoredIn
<1>15. \A i \in DOMAIN db.rows : e.rows[i].ready
    BY <1>11, <1>12, <1>13 DEF Retagged, StoredIn, Pending
<1>16. BlobInv(e, external')
    <2>1. BlobInv(f, external)
        BY <1>11, <1>12, DbFacts DEF BlobInv, Retagged
    <2> QED  BY <1>13, <2>1
<1>17. I \subseteq DOMAIN db.rows /\ \A i \in DOMAIN db.rows : i \in I <=> db.rows[i].hash \in Listing(r)
    BY <1>2, <1>6 DEF IdsByTag
<1>18. /\ \A i : Count(e, i) = Count(db, i) + (IF i \in I THEN -1 ELSE 0)
       /\ DOMAIN e.cnt = DOMAIN db.cnt \cup I
    BY <1>11, <1>14 DEF Count
<1>19. \A h : Located(e, h) <=> Located(db, h)
    BY <1>14 DEF Located
<1>20. Counted(e) = Counted(db) \ {cur}
    <2>1. HasTag(e, r, "ReadyDelete")
        BY <1>5, <1>14 DEF HasTag
    <2>2. cur \notin Counted(e)
        BY <1>1, <1>2, <1>14, <2>1 DEF Counted
    <2>3. \A s \in DOMAIN db.snaps : s # cur => (s \in Counted(e) <=> s \in Counted(db))
        BY <1>2, <1>14 DEF Counted, Open
    <2> QED  BY <1>14, <2>2, <2>3 DEF Counted
<1>21. ASSUME NEW h
       PROVE  /\ Cardinality(Refs(db, h)) \in Nat
              /\ Cardinality(Refs(e, h)) = Cardinality(Refs(db, h)) + (IF h \in Listing(r) THEN -1 ELSE 0)
    <2>1. PICK R : R = Refs(db, h)
        OBVIOUS
    <2>2. IsFiniteSet(R) /\ Cardinality(R) \in Nat
        BY <2>1, DbFacts, RefsFinite
    <2>3. Refs(e, h) = R \ {cur} /\ (cur \in R <=> h \in Listing(r))
        BY <1>1, <1>2, <1>14, <1>20, <2>1 DEF Refs
    <2>4. CASE h \in Listing(r)
        <3>1. Cardinality(R \ {cur}) = Cardinality(R) - 1
            BY <2>2, <2>3, <2>4, FS_RemoveElement
        <3> QED  BY <2>1, <2>2, <2>3, <2>4, <3>1
    <2>5. CASE h \notin Listing(r)
        <3>1. Refs(e, h) = R
            BY <2>3, <2>5
        <3>2. PICK x : x = Cardinality(R)
            OBVIOUS
        <3>3. x \in Nat /\ x = x + 0
            BY <2>2, <3>2
        <3> QED  BY <2>1, <2>5, <3>1, <3>2, <3>3
    <2> QED  BY <2>4, <2>5
<1>22. ASSUME NEW i \in DOMAIN db.rows, NEW h, h = db.rows[i].hash
       PROVE  /\ Count(db, i) >= Cardinality(Refs(db, h)) => Count(e, i) >= Cardinality(Refs(e, h))
              /\ Count(db, i) = Cardinality(Refs(db, h)) => Count(e, i) = Cardinality(Refs(e, h))
    <2>1. PICK a, b, x, y : /\ a = Count(db, i) /\ b = Count(e, i)
                            /\ x = Cardinality(Refs(db, h)) /\ y = Cardinality(Refs(e, h))
        OBVIOUS
    <2>2. PICK z : z = IF i \in I THEN -1 ELSE 0
        OBVIOUS
    <2>3. z \in Int /\ a \in Int /\ x \in Nat /\ b = a + z
        BY <1>11, <1>18, <1>21, <2>1, <2>2
    <2>4. z = IF h \in Listing(r) THEN -1 ELSE 0
        BY <1>17, <1>22, <2>2
    <2>5. y = x + (IF h \in Listing(r) THEN -1 ELSE 0)
        BY <1>21, <2>1
    <2>6. y = x + z
        BY <2>4, <2>5
    <2>7. (a >= x => b >= y) /\ (a = x => b = y)
        BY <2>3, <2>6
    <2> QED  BY <2>1, <2>7
<1>23. CountInv(e, lost)
    <2>1. ASSUME NEW i \in DOMAIN e.cnt, e.cnt[i] < 0
          PROVE  i \in DOMAIN db.rows
        <3>1. CASE i \in I
            BY <1>17, <3>1
        <3>2. CASE i \notin I
            <4>1. e.cnt[i] = Count(e, i) /\ i \in DOMAIN db.cnt
                BY <1>18, <2>1, <3>2 DEF Count
            <4>2. Count(db, i) < 0
                BY <1>11, <1>18, <2>1, <3>2, <4>1
            <4>3. db.cnt[i] < 0
                BY <4>1, <4>2 DEF Count
            <4> QED  BY <4>1, <4>3, DbFacts DEF CountInv
        <3> QED  BY <3>1, <3>2
    <2>2. ASSUME NEW i \in DOMAIN db.rows, db.rows[i].hash \notin lost
          PROVE  Count(e, i) >= Cardinality(Refs(e, db.rows[i].hash))
        BY <1>22, <2>2, DbFacts DEF CountInv
    <2> QED  BY <1>14, <1>15, <2>1, <2>2 DEF CountInv
<1>24. ASSUME ExactInv(db) PROVE ExactInv(e)
    <2>1. ASSUME NEW i \in DOMAIN db.rows
          PROVE  Count(e, i) = Cardinality(Refs(e, db.rows[i].hash))
        BY <1>22, <1>24, <2>1 DEF ExactInv
    <2>2. ASSUME NEW i \in DOMAIN e.cnt \ DOMAIN db.rows PROVE e.cnt[i] = 0
        <3>1. i \notin I /\ i \in DOMAIN db.cnt
            BY <1>17, <1>18
        <3>2. e.cnt[i] = Count(e, i) /\ Count(db, i) = 0
            BY <1>24, <3>1 DEF Count, ExactInv
        <3> QED  BY <1>18, <3>1, <3>2
    <2> QED  BY <1>14, <2>1, <2>2 DEF ExactInv
<1>25. Unique(e) /\ TreeInv(e)
    BY <1>14, <1>15, DbFacts DEF Unique, TreeInv
<1>26. NeedInv(e, lost)
    BY <1>14, <1>19, <1>20, DbFacts DEF NeedInv
<1>27. /\ SnapsInv(e, content) /\ Open(e) = Open(db)
       /\ \A s \in DOMAIN e.snaps : e.snaps[s].tag \in {"Done", "WillDelete"}
    BY <1>2, <1>14, DbFacts DEF SnapsInv, Open
<1>28. FilesInv(e, lost, scanned) /\ RootInv(e)
    BY <1>27 DEF FilesInv, RootInv
<1>29. TagsInv(e)
    BY <1>1, <1>2, <1>5, <1>14, <1>15 DEF TagsInv
<1>30. MarksInv(e, content)
    <2>1. cur \in Open(e) /\ e.snaps[cur].tag # "Reserved"
        BY <1>2, <1>14 DEF Open
    <2> QED  BY <2>1 DEF MarksInv
<1>31. GoodNow(db)' /\ GoodNow(disk)'
    BY <1>9, <1>10, <1>13, <1>16, <1>23, <1>25, <1>26, <1>27, <1>28, <1>29 DEF GoodNow, Good
<1>32. StateInv'
    BY <1>9, <1>10, <1>13 DEF SnapshotInv, StateInv
<1>33. PhaseInv'
    BY <1>2, <1>9, <1>10, <1>14, <1>20, <1>27 DEF PhaseInv, Busy, Idle
<1>34. WaitInv'
    <2>1. Pending(e) = {}
        BY <1>14, <1>15 DEF Pending
    <2> QED  BY <1>9, <2>1 DEF WaitInv
<1>35. SweepInv'
    BY <1>10 DEF SweepInv, FirstGcIsExact
<1>36. FirstInv(db)' /\ FirstInv(disk)'
    BY <1>9, <1>10, <1>13, <1>24, <1>30 DEF SnapshotInv, FirstInv
<1> QED  BY <1>31, <1>32, <1>33, <1>34, <1>35, <1>36 DEF SnapshotInv

-----------------------------------------------------------------------------
\* The sweep of the hashes.

\* What is marked: the trees below the rows with a positive count.
LEMMA MarkedSays ==
    ASSUME NEW d, NEW i
    PROVE  i \in Marked(d) <=>
               /\ i \in DOMAIN d.rows
               /\ \E j \in DOMAIN d.rows : Count(d, j) > 0 /\ d.rows[i].hash \in Tree[d.rows[j].hash]
BY DEF Marked, IdsOf

\* The rows in K remain, with their counts, and no snapshot changes.
Swept(d, e, K) ==
    /\ e.snaps = d.snaps
    /\ DOMAIN e.rows = K
    /\ \A i \in K : /\ e.rows[i].hash = d.rows[i].hash
                    /\ e.rows[i].ready = d.rows[i].ready
                    /\ e.rows[i].blob = d.rows[i].blob
                    /\ e.rows[i].tag = "Reserved"
    /\ DOMAIN e.cnt = DOMAIN d.cnt \ (DOMAIN d.rows \ K)
    /\ \A i \in DOMAIN e.cnt : e.cnt[i] = d.cnt[i]

\* Any tables with the rows of SetTag restricted to K, and other blobs.
LEMMA SweepEffect ==
    ASSUME NEW d, NEW n, NEW k, NEW m, IsTables(d, n, k, m), NEW K \in SUBSET DOMAIN d.rows,
           NEW f, f = SetTag(SetAllTags(d, "Done"), K, "Reserved"),
           NEW B, B \in [DOMAIN B -> Tag], DOMAIN B \subseteq DOMAIN d.blobs,
           NEW e, e = [rows |-> [i \in K |-> f.rows[i]],
                       cnt |-> [i \in DOMAIN d.cnt \ (DOMAIN d.rows \ K) |-> d.cnt[i]],
                       snaps |-> d.snaps, blobs |-> B]
    PROVE  IsTables(e, n, k, m) /\ Swept(d, e, K)
<1>1. PICK g : g = SetAllTags(d, "Done")
    OBVIOUS
<1>2. IsTables(g, n, k, m) /\ Retagged(d, g, DOMAIN d.rows, "Done")
    BY <1>1, SetTagEffect DEF SetAllTags, Tag
<1>3. IsTables(f, n, k, m) /\ Retagged(g, f, K, "Reserved")
    BY <1>1, <1>2, SetTagEffect DEF Tag
<1>4. /\ DOMAIN f.rows = DOMAIN d.rows
      /\ \A i \in K : /\ f.rows[i].hash = d.rows[i].hash
                      /\ f.rows[i].ready = d.rows[i].ready
                      /\ f.rows[i].blob = d.rows[i].blob
                      /\ f.rows[i].tag = "Reserved"
    BY <1>2, <1>3 DEF Retagged
<1>5. PICK R : R = [i \in K |-> f.rows[i]]
    OBVIOUS
<1>6. PICK C : C = [i \in DOMAIN d.cnt \ (DOMAIN d.rows \ K) |-> d.cnt[i]]
    OBVIOUS
<1>7. e = [rows |-> R, cnt |-> C, snaps |-> d.snaps, blobs |-> B]
    BY <1>5, <1>6
<1>8. DOMAIN R = K /\ R \in [K -> Row] /\ \A i \in K : R[i] = f.rows[i]
    BY <1>3, <1>4, <1>5 DEF IsTables
<1>9. /\ DOMAIN C = DOMAIN d.cnt \ (DOMAIN d.rows \ K)
      /\ \A i \in DOMAIN C : C[i] = d.cnt[i]
      /\ C \in [DOMAIN C -> Int]
    BY <1>6 DEF IsTables
<1>10. e.rows = R /\ e.cnt = C /\ e.snaps = d.snaps /\ e.blobs = B
    BY <1>7
<1>11. Swept(d, e, K)
    BY <1>4, <1>8, <1>9, <1>10 DEF Swept
<1>12. DOMAIN B \subseteq 1..m /\ K \subseteq 1..n
    BY DEF IsTables
<1>13. IsTables(e, n, k, m)
    BY <1>7, <1>8, <1>9, <1>10, <1>12 DEF IsTables
<1> QED  BY <1>11, <1>13

\* The sweep leaves what the finished snapshots need, and every row that waits
\* for its blob.
LEMMA SweptKeeps ==
    ASSUME SnapshotInv, Ready, \A i \in DOMAIN db.rows : Count(db, i) >= 0,
           NEW e, IsTables(e, idCounter, commits, nextBlob), Swept(db, e, Marked(db))
    PROVE  /\ Good(e, idCounter, commits, nextBlob, lost, content, scanned, external)
           /\ Open(e) = {} /\ e.snaps = db.snaps
           /\ ExactInv(db) => ExactInv(e)
           /\ \A i \in Pending(e) : \E j \in DOMAIN e.rows :
                  e.rows[i].hash \in Tree[e.rows[j].hash] /\ Count(e, j) > 0
           /\ (ExactInv(db) /\ lost = {}) =>
                  {e.rows[i].hash : i \in DOMAIN e.rows}
                      = UNION {Need(e.snaps[s].hash) : s \in DOMAIN e.snaps}
<1>1. PICK K : K = Marked(db)
    OBVIOUS
<1>2. \A i : i \in K <=>
          /\ i \in DOMAIN db.rows
          /\ \E j \in DOMAIN db.rows : Count(db, j) > 0 /\ db.rows[i].hash \in Tree[db.rows[j].hash]
    BY <1>1, MarkedSays
<1>3. pc = "idle" /\ Open(db) = {}
    BY DEF SnapshotInv, PhaseInv, Ready, Idle
<1>4. /\ e.snaps = db.snaps /\ Open(e) = {} /\ Counted(db) = DOMAIN db.snaps /\ Counted(e) = DOMAIN db.snaps
      /\ \A s \in DOMAIN db.snaps : db.snaps[s].tag = "Done"
    BY <1>3 DEF Swept, Open, Counted
<1>5. \A h : Refs(e, h) = Refs(db, h)
    BY <1>4 DEF Refs
<1>6. /\ K \subseteq DOMAIN db.rows /\ DOMAIN e.rows = K
      /\ \A i \in K : /\ e.rows[i].hash = db.rows[i].hash
                      /\ e.rows[i].ready = db.rows[i].ready
                      /\ e.rows[i].blob = db.rows[i].blob
                      /\ e.rows[i].tag = "Reserved"
    BY <1>1, <1>2 DEF Swept
<1>7. /\ DOMAIN e.cnt = DOMAIN db.cnt \ (DOMAIN db.rows \ K)
      /\ \A i \in DOMAIN e.cnt : e.cnt[i] = db.cnt[i]
    BY <1>1 DEF Swept
<1>8. \A i \in K : Count(e, i) = Count(db, i)
    BY <1>6, <1>7 DEF Count
<1>9. \A i \in DOMAIN db.rows : db.rows[i].hash \in Hash
    BY DbFacts DEF IsTables, Row
<1>10. NeedInv(e, lost)
    <2>1. SUFFICES ASSUME NEW s \in DOMAIN db.snaps, NEW h \in Need(db.snaps[s].hash) \ lost
                   PROVE  Located(e, h)
        BY <1>4 DEF NeedInv
    <2>2. PICK t \in Listing(db.snaps[s].hash) : h \in Tree[t]
        BY DEF Need
    <2>3. t \in Hash
        <3>1. db.snaps[s].hash \in Root
            BY <1>4, <2>1, DbFacts, CountedHasRoot
        <3> QED  BY <3>1, TreesAreClosed DEF Listing
    <2>4. t \notin lost
        BY <2>1, <2>2 DEF SnapshotInv, StateInv
    <2>5. t \in Need(db.snaps[s].hash)
        BY <2>2, <2>3, TreesAreClosed DEF Need
    <2>6. PICK i \in DOMAIN db.rows : db.rows[i].hash = t
        BY <1>4, <2>1, <2>4, <2>5, DbFacts DEF NeedInv, Located
    <2>7. PICK j \in DOMAIN db.rows : db.rows[j].hash = h
        BY <1>4, <2>1, DbFacts DEF NeedInv, Located
    <2>8. Count(db, i) > 0
        <3>1. PICK R : R = Refs(db, t)
            OBVIOUS
        <3>2. s \in R
            BY <1>4, <2>1, <2>2, <3>1 DEF Refs
        <3>3. IsFiniteSet(R) /\ Cardinality(R) \in Nat
            BY <3>1, DbFacts, RefsFinite
        <3>4. Cardinality(R) # 0
            BY <3>2, <3>3, FS_EmptySet
        <3>5. Count(db, i) >= Cardinality(R)
            BY <2>4, <2>6, <3>1, DbFacts DEF CountInv
        <3>6. Count(db, i) \in Int
            BY DbFacts DEF Count, IsTables
        <3> QED  BY <3>3, <3>4, <3>5, <3>6
    <2>9. j \in K
        BY <1>2, <2>2, <2>6, <2>7, <2>8
    <2> QED  BY <1>6, <2>7, <2>9 DEF Located
<1>11. CountInv(e, lost)
    <2>1. ASSUME NEW i \in K, e.rows[i].hash \notin lost
          PROVE  Count(e, i) >= Cardinality(Refs(e, e.rows[i].hash))
        <3>1. Count(db, i) >= Cardinality(Refs(db, db.rows[i].hash))
            BY <1>6, <2>1, DbFacts DEF CountInv
        <3> QED  BY <1>5, <1>6, <1>8, <3>1
    <2>2. ASSUME NEW i \in DOMAIN e.cnt, e.cnt[i] < 0 PROVE FALSE
        <3>1. i \in DOMAIN db.cnt /\ db.cnt[i] < 0
            BY <1>7, <2>2
        <3>2. i \in DOMAIN db.rows
            BY <3>1, DbFacts DEF CountInv
        <3>3. db.cnt[i] >= 0
            BY <3>1, <3>2 DEF Count
        <3>4. db.cnt[i] \in Int
            BY <3>1, DbFacts DEF IsTables
        <3> QED  BY <3>1, <3>3, <3>4
    <2> QED  BY <1>6, <2>1, <2>2 DEF CountInv
<1>12. TreeInv(e)
    <2>1. SUFFICES ASSUME NEW j \in K, NEW g \in Tree[db.rows[j].hash]
                   PROVE  \E i \in K : /\ db.rows[i].hash = g /\ i <= j
                                       /\ db.rows[j].ready => db.rows[i].ready
        BY <1>6 DEF TreeInv
    <2>2. PICK i \in DOMAIN db.rows : /\ db.rows[i].hash = g /\ i <= j
                                      /\ db.rows[j].ready => db.rows[i].ready
        BY <1>6, DbFacts DEF TreeInv
    <2>3. PICK p \in DOMAIN db.rows : Count(db, p) > 0 /\ db.rows[j].hash \in Tree[db.rows[p].hash]
        BY <1>2
    <2>4. g \in Tree[db.rows[p].hash]
        BY <1>9, <2>1, <2>3, TreesAreClosed
    <2>5. i \in K
        BY <1>2, <2>2, <2>3, <2>4
    <2> QED  BY <2>2, <2>5
<1>13. Unique(e) /\ BlobInv(e, external) /\ TagsInv(e)
    BY <1>6, DbFacts DEF Unique, BlobInv, TagsInv
<1>14. SnapsInv(e, content) /\ FilesInv(e, lost, scanned) /\ RootInv(e)
    BY <1>4, DbFacts DEF SnapsInv, FilesInv, RootInv, Open
<1>15. ASSUME ExactInv(db) PROVE ExactInv(e)
    BY <1>5, <1>6, <1>7, <1>8, <1>15 DEF ExactInv
<1>16. ASSUME NEW i \in Pending(e)
       PROVE  \E j \in DOMAIN e.rows : e.rows[i].hash \in Tree[e.rows[j].hash] /\ Count(e, j) > 0
    <2>1. i \in K /\ i \in DOMAIN db.rows /\ i \in Pending(db)
        BY <1>6 DEF Pending
    <2>2. PICK j \in DOMAIN db.rows : Count(db, j) > 0 /\ db.rows[i].hash \in Tree[db.rows[j].hash]
        BY <1>2, <2>1
    <2>3. j \in K
        BY <1>2, <1>9, <2>2, TreesAreClosed
    <2> QED  BY <1>6, <1>8, <2>1, <2>2, <2>3
<1>17. ASSUME ExactInv(db), lost = {}
       PROVE  {e.rows[i].hash : i \in DOMAIN e.rows}
                  = UNION {Need(e.snaps[s].hash) : s \in DOMAIN e.snaps}
    <2>1. ASSUME NEW i \in K PROVE \E s \in DOMAIN db.snaps : db.rows[i].hash \in Need(db.snaps[s].hash)
        <3>1. PICK j \in DOMAIN db.rows : Count(db, j) > 0 /\ db.rows[i].hash \in Tree[db.rows[j].hash]
            BY <1>2
        <3>2. Count(db, j) = Cardinality(Refs(db, db.rows[j].hash))
            BY <1>17 DEF ExactInv
        <3>3. Refs(db, db.rows[j].hash) # {}
            BY <3>1, <3>2, FS_EmptySet
        <3>4. PICK s \in Refs(db, db.rows[j].hash) : TRUE
            BY <3>3
        <3>5. s \in DOMAIN db.snaps /\ db.rows[j].hash \in Listing(db.snaps[s].hash)
            BY <1>4 DEF Refs
        <3> QED  BY <3>1, <3>5 DEF Need
    <2>2. ASSUME NEW s \in DOMAIN db.snaps, NEW h \in Need(db.snaps[s].hash)
          PROVE  \E i \in K : db.rows[i].hash = h
        <3>1. Located(e, h)
            BY <1>4, <1>10, <1>17 DEF NeedInv
        <3> QED  BY <1>6, <3>1 DEF Located
    <2>3. PICK X : X = {e.rows[i].hash : i \in DOMAIN e.rows}
        OBVIOUS
    <2>4. PICK Y : Y = UNION {Need(db.snaps[s].hash) : s \in DOMAIN db.snaps}
        OBVIOUS
    <2>5. X \subseteq Y
        BY <1>6, <2>1, <2>3, <2>4
    <2>6. Y \subseteq X
        BY <1>6, <2>2, <2>3, <2>4
    <2> QED  BY <1>4, <2>3, <2>4, <2>5, <2>6
<1> QED  BY <1>4, <1>10, <1>11, <1>12, <1>13, <1>14, <1>15, <1>16, <1>17 DEF Good

\* The collector sweeps the hashes; the blobs that it will delete hold no row
\* that is left.
LEMMA GcHashesStep == SnapshotInv /\ GcHashes => SnapshotInv'
<1> SUFFICES ASSUME SnapshotInv, GcHashes PROVE SnapshotInv'
    OBVIOUS
<1>1. PICK K : K = Marked(db)
    OBVIOUS
<1>2. PICK t : t = SetTag(SetAllTags(db, "Done"), K, "Reserved")
    OBVIOUS
<1>3. PICK R : R = [i \in K |-> t.rows[i]]
    OBVIOUS
<1>4. PICK C : C = [i \in DOMAIN db.cnt \ (DOMAIN db.rows \ K) |-> db.cnt[i]]
    OBVIOUS
<1>5. PICK f : f = [t EXCEPT !.rows = R, !.cnt = C]
    OBVIOUS
<1>6. PICK U : U = {f.rows[i].blob : i \in K}
    OBVIOUS
<1>7. PICK B : B = [b \in DOMAIN f.blobs |-> IF b \in U THEN "Reserved" ELSE "InProgress"]
    OBVIOUS
<1>8. PICK e : e = [f EXCEPT !.blobs = B]
    OBVIOUS
<1>9. /\ Ready /\ \A i \in DOMAIN db.rows : Count(db, i) >= 0
      /\ disk' = f /\ db' = e /\ pc' = "gc_blobs" /\ left' = {b \in DOMAIN f.blobs : b \notin U}
      /\ UNCHANGED <<external, content, scanned, idCounter, nextBlob, cur, commits, gcRan, lost>>
    BY <1>1, <1>2, <1>3, <1>4, <1>5, <1>6, <1>7, <1>8 DEF GcHashes, keys, history
<1>10. K \in SUBSET DOMAIN db.rows
    BY <1>1, MarkedSays
<1>11. IsTables(t, idCounter, commits, nextBlob) /\ t.snaps = db.snaps /\ t.blobs = db.blobs
    <2>1. PICK g : g = SetAllTags(db, "Done")
        OBVIOUS
    <2>2. IsTables(g, idCounter, commits, nextBlob) /\ Retagged(db, g, DOMAIN db.rows, "Done")
        BY <2>1, DbFacts, SetTagEffect DEF SetAllTags, Tag
    <2>3. IsTables(t, idCounter, commits, nextBlob) /\ Retagged(g, t, K, "Reserved")
        BY <1>2, <2>1, <2>2, SetTagEffect DEF Tag
    <2>4. t.snaps = db.snaps /\ t.blobs = db.blobs
        BY <2>2, <2>3 DEF Retagged
    <2> QED  BY <2>3, <2>4
<1>12. f = [rows |-> R, cnt |-> C, snaps |-> db.snaps, blobs |-> db.blobs]
    <2>1. f = [rows |-> R, cnt |-> C, snaps |-> t.snaps, blobs |-> t.blobs]
        BY <1>5, <1>11 DEF IsTables
    <2> QED  BY <1>11, <2>1
<1>13. f.blobs = db.blobs /\ e = [rows |-> R, cnt |-> C, snaps |-> db.snaps, blobs |-> B]
    BY <1>8, <1>12
<1>14. db.blobs \in [DOMAIN db.blobs -> Tag]
    BY DbFacts DEF IsTables
<1>15. B \in [DOMAIN B -> Tag] /\ DOMAIN B \subseteq DOMAIN db.blobs
    BY <1>7, <1>13 DEF Tag
<1>16. IsTables(f, idCounter, commits, nextBlob) /\ Swept(db, f, K)
    BY <1>2, <1>3, <1>4, <1>10, <1>12, <1>14, DbFacts, SweepEffect
<1>17. IsTables(e, idCounter, commits, nextBlob) /\ Swept(db, e, K)
    BY <1>2, <1>3, <1>4, <1>10, <1>13, <1>15, DbFacts, SweepEffect
<1>18. /\ Good(f, idCounter, commits, nextBlob, lost, content, scanned, external)
       /\ f.snaps = db.snaps /\ (ExactInv(db) => ExactInv(f))
    BY <1>1, <1>9, <1>16, SweptKeeps
<1>19. /\ Good(e, idCounter, commits, nextBlob, lost, content, scanned, external)
       /\ e.snaps = db.snaps /\ (ExactInv(db) => ExactInv(e)) /\ Open(e) = {}
       /\ \A i \in Pending(e) : \E j \in DOMAIN e.rows :
              e.rows[i].hash \in Tree[e.rows[j].hash] /\ Count(e, j) > 0
       /\ (ExactInv(db) /\ lost = {}) =>
              {e.rows[i].hash : i \in DOMAIN e.rows}
                  = UNION {Need(e.snaps[s].hash) : s \in DOMAIN e.snaps}
    BY <1>1, <1>9, <1>17, SweptKeeps
<1>20. GoodNow(db)' /\ GoodNow(disk)'
    BY <1>9, <1>18, <1>19 DEF GoodNow
<1>21. StateInv'
    BY <1>9, <1>18, <1>19 DEF SnapshotInv, StateInv
<1>22. PhaseInv'
    BY <1>9, <1>19 DEF PhaseInv, Idle, Busy
<1>23. WaitInv'
    <2>1. ASSUME NEW i \in Pending(e) PROVE Held(i)'
        BY <1>9, <1>19 DEF Held
    <2> QED  BY <1>9, <2>1 DEF WaitInv
<1>24. ~gcRan /\ lost = {} => ExactInv(db)
    BY DEF SnapshotInv, FirstInv
<1>25. SweepInv'
    <2>1. ASSUME NEW i \in K PROVE f.rows[i].blob \notin left' /\ e.rows[i].blob \notin left'
        BY <1>6, <1>9, <1>12, <1>13
    <2>2. DOMAIN f.rows = K /\ DOMAIN e.rows = K
        BY <1>16, <1>17 DEF Swept
    <2>3. ~gcRan /\ lost = {} =>
              {e.rows[i].hash : i \in DOMAIN e.rows}
                  = UNION {Need(e.snaps[s].hash) : s \in DOMAIN e.snaps}
        BY <1>19, <1>24
    <2>4. FirstGcIsExact'
        BY <1>9, <2>3 DEF FirstGcIsExact
    <2> QED  BY <1>9, <2>1, <2>2, <2>4 DEF SweepInv
<1>26. FirstInv(db)' /\ FirstInv(disk)'
    BY <1>9, <1>18, <1>19, <1>24 DEF FirstInv
<1> QED  BY <1>20, <1>21, <1>22, <1>23, <1>25, <1>26 DEF SnapshotInv

-----------------------------------------------------------------------------
\* A restart.

\* What the snapshots of d rely on are hashes; a counted snapshot relies on all
\* that it needs, and one that is not counted on the files scanned for it.
LEMMA ReliedOn ==
    ASSUME NEW d, NEW n, NEW k, NEW m, IsTables(d, n, k, m), content \in Root,
           scanned \subseteq Tops[content] \cap File, SnapsInv(d, content)
    PROVE  /\ Relied(d) \subseteq Hash
           /\ \A s \in Counted(d) : Need(d.snaps[s].hash) \subseteq Relied(d)
           /\ (\E s \in DOMAIN d.snaps : d.snaps[s].tag = "Reserved") =>
                  \A f \in scanned : Tree[f] \subseteq Relied(d)
<1>1. \A r \in Root : Need(r) \subseteq Hash
    BY TreesAreClosed DEF Need, Listing
<1>2. \A s \in Registered(d) : d.snaps[s].hash \in Root
    BY DEF Registered, IsTables, Snap
<1>3. \A f \in scanned : Tree[f] \subseteq Hash
    BY TreesAreClosed
<1>4. Relied(d) \subseteq Hash
    BY <1>1, <1>2, <1>3 DEF Relied
<1>5. ASSUME NEW s \in Registered(d) PROVE Need(d.snaps[s].hash) \subseteq Relied(d)
    BY DEF Relied
<1>6. ASSUME NEW s \in Counted(d) PROVE s \in Registered(d)
    <2>1. s \in DOMAIN d.snaps /\ d.snaps[s].hash \in Root
        BY CountedHasRoot DEF Counted
    <2>2. d.snaps[s].hash # NoHash
        BY <2>1, SnapshotAssumption
    <2> QED  BY <2>1, <2>2 DEF Registered, Counted, HasTag
<1>7. ASSUME NEW s \in DOMAIN d.snaps, d.snaps[s].tag = "Reserved", NEW f \in scanned
      PROVE  Tree[f] \subseteq Relied(d)
    <2>1. CASE s \in Registered(d)
        <3>1. d.snaps[s].hash = content
            BY <1>7, <2>1 DEF SnapsInv, Registered
        <3>2. Tree[f] \subseteq Need(content)
            BY DEF Need, Listing
        <3> QED  BY <1>5, <2>1, <3>1, <3>2
    <2>2. CASE s \notin Registered(d)
        BY <2>2 DEF Relied
    <2> QED  BY <2>1, <2>2
<1> QED  BY <1>4, <1>5, <1>6, <1>7

\* Only the ready rows are left of d.
ReadyPart(d, e) ==
    /\ e.cnt = d.cnt /\ e.snaps = d.snaps
    /\ DOMAIN e.rows = DOMAIN d.rows \ Pending(d)
    /\ \A i \in DOMAIN e.rows : e.rows[i] = d.rows[i]

\* With M the hashes lost so far, and all that is relied on and not ready, the
\* ready part of a good database is good.
LEMMA ReadyPartKeeps ==
    ASSUME NEW d, NEW n, NEW k \in Nat, NEW m, NEW L, NEW E, content \in Root,
           scanned \subseteq Tops[content] \cap File,
           Good(d, n, k, m, L, content, scanned, E), NEW e, ReadyPart(d, e), NEW M, L \subseteq M,
           \A h \in Relied(d) \ ReadyHashes(d) : h \in M
    PROVE  /\ Unique(e) /\ SnapsInv(e, content) /\ TagsInv(e) /\ RootInv(e) /\ NeedInv(e, M)
           /\ FilesInv(e, M, scanned) /\ CountInv(e, M) /\ TreeInv(e) /\ BlobInv(e, E)
           /\ Pending(e) = {}
           /\ (M = {} /\ ExactInv(d)) => ExactInv(e)
           /\ MarksInv(d, content) => MarksInv(e, content)
<1>1. /\ e.cnt = d.cnt /\ e.snaps = d.snaps
      /\ DOMAIN e.rows = {i \in DOMAIN d.rows : d.rows[i].ready}
      /\ \A i \in DOMAIN e.rows : e.rows[i] = d.rows[i]
    BY DEF ReadyPart, Pending
<1>2. /\ IsTables(d, n, k, m) /\ Unique(d) /\ SnapsInv(d, content) /\ TagsInv(d) /\ RootInv(d)
      /\ NeedInv(d, L) /\ FilesInv(d, L, scanned) /\ CountInv(d, L) /\ TreeInv(d) /\ BlobInv(d, E)
    BY DEF Good
<1>3. /\ \A s \in Counted(d) : Need(d.snaps[s].hash) \subseteq Relied(d)
      /\ (\E s \in DOMAIN d.snaps : d.snaps[s].tag = "Reserved") =>
             \A f \in scanned : Tree[f] \subseteq Relied(d)
    BY <1>2, ReliedOn
<1>4. \A h \in ReadyHashes(d) : Located(e, h)
    BY <1>1 DEF ReadyHashes, Located
<1>5. \A h, t : HasTag(e, h, t) => HasTag(d, h, t)
    BY <1>1 DEF HasTag
<1>6. \A h : HasTag(d, h, "ReadyDelete") => HasTag(e, h, "ReadyDelete")
    BY <1>1, <1>2 DEF HasTag, TagsInv
<1>7. Counted(e) \subseteq Counted(d)
    BY <1>1, <1>5, <1>6 DEF Counted
<1>8. Unique(e) /\ BlobInv(e, E) /\ TagsInv(e)
    <2>1. Unique(e) /\ BlobInv(e, E)
        BY <1>1, <1>2 DEF Unique, BlobInv
    <2>2. TagsInv(e)
        BY <1>1, <1>2 DEF TagsInv
    <2> QED  BY <2>1, <2>2
<1>9. SnapsInv(e, content) /\ RootInv(e) /\ Pending(e) = {}
    <2>1. SnapsInv(e, content) /\ Pending(e) = {}
        BY <1>1, <1>2 DEF SnapsInv, Open, Pending
    <2>2. RootInv(e)
        BY <1>1, <1>2 DEF RootInv
    <2> QED  BY <2>1, <2>2
<1>10. TreeInv(e)
    BY <1>1, <1>2 DEF TreeInv
<1>11. NeedInv(e, M)
    BY <1>1, <1>3, <1>4, <1>7 DEF NeedInv
<1>12. FilesInv(e, M, scanned)
    <2>1. SUFFICES ASSUME \E s \in DOMAIN d.snaps : d.snaps[s].tag = "Reserved",
                          NEW f \in scanned, NEW h \in Tree[f] \ M
                   PROVE  Located(e, h)
        BY <1>1 DEF FilesInv, FilesThere
    <2>2. h \in Relied(d)
        BY <1>3, <2>1
    <2> QED  BY <1>4, <2>2
<1>13. \A i : Count(e, i) = Count(d, i)
    BY <1>1 DEF Count
<1>14. CountInv(e, M)
    <2>1. ASSUME NEW i \in DOMAIN e.rows, e.rows[i].hash \notin M
          PROVE  Count(e, i) >= Cardinality(Refs(e, e.rows[i].hash))
        <3>1. PICK h : h = e.rows[i].hash
            OBVIOUS
        <3>2. Count(d, i) >= Cardinality(Refs(d, h))
            BY <1>1, <1>2, <2>1, <3>1 DEF CountInv
        <3>3. Refs(e, h) \subseteq Refs(d, h)
            BY <1>1, <1>7 DEF Refs
        <3>4. IsFiniteSet(Refs(d, h)) /\ Cardinality(Refs(d, h)) \in Nat
            BY <1>2, RefsFinite
        <3>5. PICK X, Y : X = Refs(e, h) /\ Y = Refs(d, h)
            OBVIOUS
        <3>6. Cardinality(X) <= Cardinality(Y) /\ Cardinality(X) \in Nat
            BY <3>3, <3>4, <3>5, FS_Subset, FS_CardinalityType
        <3>7. Count(d, i) \in Int
            BY <1>2 DEF IsTables, Count
        <3>8. Count(d, i) >= Cardinality(X)
            BY <3>2, <3>4, <3>5, <3>6, <3>7
        <3> QED  BY <1>13, <3>1, <3>5, <3>8
    <2>2. ASSUME NEW i \in DOMAIN e.cnt, e.cnt[i] < 0
          PROVE  i \in DOMAIN e.rows /\ e.rows[i].ready
        BY <1>1, <1>2, <2>2 DEF CountInv
    <2> QED  BY <2>1, <2>2 DEF CountInv
<1>15. ASSUME M = {}, ExactInv(d) PROVE ExactInv(e)
    <2>1. ASSUME NEW s \in Counted(d), NEW i \in DOMAIN d.rows, d.rows[i].hash \in Listing(d.snaps[s].hash)
          PROVE  i \in DOMAIN e.rows
        <3>1. d.rows[i].hash \in Need(d.snaps[s].hash)
            <4>1. d.rows[i].hash \in Hash
                BY <1>2 DEF IsTables, Row
            <4> QED  BY <2>1, <4>1, TreesAreClosed DEF Need
        <3>2. d.rows[i].hash \in ReadyHashes(d)
            BY <1>3, <1>15, <3>1
        <3>3. PICK j \in DOMAIN d.rows : d.rows[j].ready /\ d.rows[j].hash = d.rows[i].hash
            BY <3>2 DEF ReadyHashes
        <3>4. j = i
            BY <1>2, <3>3 DEF Unique
        <3> QED  BY <1>1, <3>3, <3>4
    <2>2. Counted(d) \subseteq Counted(e)
        <3> SUFFICES ASSUME NEW s \in Counted(d) PROVE s \in Counted(e)
            OBVIOUS
        <3>1. CASE d.snaps[s].tag = "Reserved"
            <4>1. PICK i \in DOMAIN d.rows : d.rows[i].hash = d.snaps[s].hash /\ d.rows[i].tag = "InProgress"
                BY <3>1 DEF Counted, HasTag
            <4>2. i \in DOMAIN e.rows
                BY <2>1, <4>1 DEF Listing
            <4> QED  BY <1>1, <3>1, <4>1, <4>2 DEF Counted, HasTag
        <3>2. CASE d.snaps[s].tag # "Reserved"
            BY <1>1, <1>5, <3>2 DEF Counted
        <3> QED  BY <3>1, <3>2
    <2>3. \A h : Refs(e, h) = Refs(d, h)
        BY <1>1, <1>7, <2>2 DEF Refs
    <2>4. ASSUME NEW i \in DOMAIN e.cnt \ DOMAIN e.rows PROVE e.cnt[i] = 0
        <3>1. CASE i \notin DOMAIN d.rows
            BY <1>1, <1>15, <3>1 DEF ExactInv
        <3>2. CASE i \in DOMAIN d.rows
            <4>1. Refs(d, d.rows[i].hash) = {}
                BY <2>1, <3>2 DEF Refs
            <4>2. Count(d, i) = Cardinality({})
                BY <1>15, <3>2, <4>1 DEF ExactInv
            <4>3. Count(d, i) = 0
                BY <4>2, FS_EmptySet
            <4> QED  BY <1>1, <4>3 DEF Count
        <3> QED  BY <3>1, <3>2
    <2> QED  BY <1>1, <1>13, <1>15, <2>3, <2>4 DEF ExactInv
<1>16. MarksInv(d, content) => MarksInv(e, content)
    BY <1>1 DEF MarksInv, Open
<1> QED  BY <1>8, <1>9, <1>10, <1>11, <1>12, <1>14, <1>15, <1>16

\* The program starts again from the committed tables: rows that no blob holds
\* are gone, and what was relied on of them is lost.
LEMMA RestartStep == SnapshotInv /\ Restart => SnapshotInv'
<1> SUFFICES ASSUME SnapshotInv, Restart PROVE SnapshotInv'
    OBVIOUS
<1>1. PICK M : M = lost \cup UNION {Tree[h] : h \in Relied(disk) \ ReadyHashes(disk)}
    OBVIOUS
<1>2. PICK R : R = [i \in DOMAIN disk.rows \ Pending(disk) |-> disk.rows[i]]
    OBVIOUS
<1>3. PICK e : e = [disk EXCEPT !.rows = R]
    OBVIOUS
<1>4. PICK n : n = MaxKey(DOMAIN disk.rows)
    OBVIOUS
<1>5. PICK x : x = MaxKey(DOMAIN disk.blobs)
    OBVIOUS
<1>6. /\ lost' = M /\ db' = e /\ disk' = disk /\ idCounter' = n /\ nextBlob' = 1 + x
      /\ pc' = "resume" /\ UNCHANGED <<external, content, scanned, commits>>
      /\ gcRan' = (gcRan \/ pc = "gc_blobs")
    BY <1>1, <1>2, <1>3, <1>4, <1>5 DEF Restart, keys
<1>7. /\ GoodNow(disk) /\ content \in Root /\ scanned \subseteq Tops[content] \cap File
      /\ commits \in Nat /\ idCounter \in Nat /\ nextBlob \in Nat
      /\ lost \subseteq Hash /\ (\A h \in lost : Tree[h] \subseteq lost) /\ disk.snaps = db.snaps
    BY DEF SnapshotInv, StateInv
<1>8. Good(disk, idCounter, commits, nextBlob, lost, content, scanned, external)
    BY <1>7 DEF GoodNow
<1>9. IsTables(disk, idCounter, commits, nextBlob) /\ SnapsInv(disk, content)
    BY <1>8 DEF Good
<1>10. DOMAIN disk.rows \subseteq 1..n /\ n \in Nat
    <2>1. DOMAIN disk.rows \subseteq 1..idCounter
        BY <1>9 DEF IsTables
    <2> QED  BY <1>4, <1>7, <2>1, MaxKeyBounds
<1>11. DOMAIN disk.blobs \subseteq 1..(1 + x) /\ 1 + x \in Nat
    <2>1. DOMAIN disk.blobs \subseteq 1..nextBlob
        BY <1>9 DEF IsTables
    <2>2. DOMAIN disk.blobs \subseteq 1..x /\ x \in Nat
        BY <1>5, <1>7, <2>1, MaxKeyBounds
    <2> QED  BY <2>2
<1>12. IsTables(disk, n, commits, 1 + x)
    BY <1>9, <1>10, <1>11 DEF IsTables
<1>13. lost \subseteq M /\ \A h \in Relied(disk) \ ReadyHashes(disk) : h \in M
    <2>1. Relied(disk) \subseteq Hash
        BY <1>7, <1>9, ReliedOn
    <2> QED  BY <1>1, <2>1, TreesAreClosed
<1>14. M \subseteq Hash /\ \A h \in M : Tree[h] \subseteq M
    <2>1. Relied(disk) \subseteq Hash
        BY <1>7, <1>9, ReliedOn
    <2>2. M \subseteq Hash
        BY <1>1, <1>7, <2>1, TreesAreClosed
    <2>3. ASSUME NEW h \in M PROVE Tree[h] \subseteq M
        <3>1. CASE h \in lost
            BY <1>1, <1>7, <3>1
        <3>2. CASE \E g \in Relied(disk) \ ReadyHashes(disk) : h \in Tree[g]
            <4>1. PICK g \in Relied(disk) \ ReadyHashes(disk) : h \in Tree[g]
                BY <3>2
            <4>2. Tree[h] \subseteq Tree[g] /\ Tree[g] \subseteq M
                BY <1>1, <2>1, <4>1, TreesAreClosed
            <4> QED  BY <4>2
        <3> QED  BY <1>1, <2>3, <3>1, <3>2
    <2> QED  BY <2>2, <2>3
<1>15. e = [rows |-> R, cnt |-> disk.cnt, snaps |-> disk.snaps, blobs |-> disk.blobs]
    BY <1>3, <1>9 DEF IsTables
<1>16. IsTables(e, n, commits, 1 + x) /\ ReadyPart(disk, e)
    <2>1. /\ DOMAIN R = DOMAIN disk.rows \ Pending(disk) /\ R \in [DOMAIN R -> Row]
          /\ \A i \in DOMAIN R : R[i] = disk.rows[i]
        BY <1>2, <1>9 DEF IsTables
    <2>2. ReadyPart(disk, e)
        BY <1>15, <2>1 DEF ReadyPart
    <2>3. DOMAIN R \subseteq 1..n
        BY <1>10, <2>1
    <2> QED  BY <1>12, <1>15, <2>1, <2>2, <2>3 DEF IsTables
<1>17. /\ Unique(e) /\ SnapsInv(e, content) /\ TagsInv(e) /\ RootInv(e) /\ NeedInv(e, M)
       /\ FilesInv(e, M, scanned) /\ CountInv(e, M) /\ TreeInv(e) /\ BlobInv(e, external)
       /\ Pending(e) = {}
       /\ (M = {} /\ ExactInv(disk)) => ExactInv(e)
       /\ MarksInv(disk, content) => MarksInv(e, content)
    BY <1>7, <1>8, <1>13, <1>16, ReadyPartKeeps
<1>18. /\ Unique(disk) /\ TagsInv(disk) /\ RootInv(disk) /\ NeedInv(disk, lost)
       /\ FilesInv(disk, lost, scanned) /\ CountInv(disk, lost) /\ TreeInv(disk)
       /\ BlobInv(disk, external)
    BY <1>8 DEF Good
<1>19. NeedInv(disk, M) /\ FilesInv(disk, M, scanned) /\ CountInv(disk, M)
    BY <1>13, <1>18 DEF NeedInv, FilesInv, FilesThere, CountInv
<1>20. GoodNow(db)' /\ GoodNow(disk)'
    BY <1>6, <1>9, <1>12, <1>16, <1>17, <1>18, <1>19 DEF GoodNow, Good
<1>21. StateInv'
    BY <1>6, <1>7, <1>10, <1>11, <1>14, <1>15 DEF StateInv
<1>22. PhaseInv' /\ WaitInv' /\ SweepInv'
    BY <1>6, <1>17 DEF PhaseInv, Idle, Busy, WaitInv, SweepInv, FirstGcIsExact
<1>23. ASSUME ~gcRan', M = {} PROVE ExactInv(disk) /\ MarksInv(disk, content)
    <2>1. ~gcRan /\ pc # "gc_blobs" /\ lost = {}
        BY <1>6, <1>13, <1>23
    <2> QED  BY <2>1 DEF SnapshotInv, FirstInv
<1>24. FirstInv(db)' /\ FirstInv(disk)'
    BY <1>6, <1>17, <1>23 DEF FirstInv
<1> QED  BY <1>20, <1>21, <1>22, <1>24 DEF SnapshotInv

-----------------------------------------------------------------------------
\* The invariant holds.

\* An empty repository is as it should be.
LEMMA InitSnapshotInv == Init => SnapshotInv
<1> SUFFICES ASSUME Init PROVE SnapshotInv
    OBVIOUS
<1>1. /\ db = EmptyDb /\ disk = EmptyDb /\ external = {} /\ content \in Root /\ scanned = {} /\ idCounter = 0
      /\ nextBlob = 1 /\ pc = "idle" /\ left = {} /\ commits = 0 /\ gcRan = FALSE /\ lost = {}
    BY SnapshotAssumption DEF Init
<1>2. PICK d : d = EmptyDb
    OBVIOUS
<1>3. PICK z : z = Empty
    OBVIOUS
<1>4. DOMAIN z = {} /\ \A S : z \in [{} -> S]
    BY <1>3 DEF Empty
<1>5. d = [rows |-> z, cnt |-> z, snaps |-> z, blobs |-> z]
    BY <1>2, <1>3 DEF EmptyDb
<1>6. d.rows = z /\ d.cnt = z /\ d.snaps = z /\ d.blobs = z
    BY <1>5
<1>7. IsTables(d, 0, 0, 1)
    BY <1>4, <1>5, <1>6 DEF IsTables
<1>8. Unique(d) /\ TagsInv(d) /\ TreeInv(d) /\ BlobInv(d, {}) /\ Pending(d) = {}
    BY <1>4, <1>6 DEF Unique, TagsInv, TreeInv, BlobInv, Pending
<1>9. Open(d) = {} /\ SnapsInv(d, content) /\ RootInv(d) /\ NeedInv(d, {}) /\ FilesInv(d, {}, {})
    BY <1>4, <1>6 DEF Open, SnapsInv, RootInv, NeedInv, FilesInv, Counted
<1>10. CountInv(d, {}) /\ ExactInv(d) /\ MarksInv(d, content)
    BY <1>4, <1>6 DEF CountInv, ExactInv, MarksInv
<1>11. GoodNow(db) /\ GoodNow(disk)
    BY <1>1, <1>2, <1>7, <1>8, <1>9, <1>10 DEF GoodNow, Good
<1>12. StateInv
    BY <1>1 DEF StateInv
<1>13. PhaseInv /\ WaitInv /\ SweepInv
    BY <1>1, <1>2, <1>8, <1>9 DEF PhaseInv, WaitInv, SweepInv, FirstGcIsExact, Idle, Busy
<1>14. FirstInv(db) /\ FirstInv(disk)
    BY <1>1, <1>2, <1>10 DEF FirstInv
<1> QED  BY <1>11, <1>12, <1>13, <1>14 DEF SnapshotInv

\* Every step keeps the invariant.
LEMMA NextSnapshotInv == SnapshotInv /\ [Next]_vars => SnapshotInv'
<1> SUFFICES ASSUME SnapshotInv, [Next]_vars PROVE SnapshotInv'
    OBVIOUS
<1>1. CASE \E r \in Root : \E F \in SUBSET (Tops[r] \cap File) : Scan(r, F)
    BY <1>1, ScanStep
<1>2. CASE \E k \in DOMAIN db.rows : BlobFull(k)
    BY <1>2, BlobFullStep
<1>3. CASE PeriodicFlush
    BY <1>3, PeriodicFlushStep
<1>4. CASE Commit
    BY <1>4, CommitReserveStep, TopHashStep, CommitUpdateStep, RegisterFinalStep DEF Commit
<1>5. CASE CommitFinalize
    BY <1>5, ReadyCommitStep, RegisterCleanupStep, CommitDoneStep DEF CommitFinalize
<1>6. CASE DataFlush
    BY <1>6, DataFlushStep
<1>7. CASE \E s \in DOMAIN db.snaps : Delete(s)
    BY <1>7, DeleteStep
<1>8. CASE Deregister
    BY <1>8, WillDeleteStep, DeregisterTagStep, DeregisterCountStep, ReadyDeleteStep,
       DeregisterCleanupStep, SnapshotDeleteStep DEF Deregister
<1>9. CASE Gc
    BY <1>9, GcHashesStep, GcDeleteBlobStep, GcErrorStep, GcDoneStep DEF Gc
<1>10. CASE Restart
    BY <1>10, RestartStep
<1>11. CASE \E s \in DOMAIN db.snaps : Resume(s)
    BY <1>11, ResumeStep
<1>12. CASE ResumeNothing
    BY <1>12, ResumeNothingStep
<1>13. CASE ExpectFails
    BY <1>13, ExpectFailsStep
<1>14. CASE UNCHANGED vars
    <2>1. UNCHANGED <<db, disk, external, content, scanned, idCounter, nextBlob, pc, cur, left, commits,
                      gcRan, lost>>
        BY <1>14 DEF vars
    <2>2. GoodNow(db)' /\ GoodNow(disk)' /\ StateInv'
        BY <2>1 DEF SnapshotInv, GoodNow, StateInv
    <2>3. PhaseInv'
        <3>1. MeetsUnscanned' = MeetsUnscanned /\ ListsPending' = ListsPending
            BY <2>1 DEF MeetsUnscanned, ListsPending, NextTop
        <3> QED  BY <2>1, <3>1 DEF SnapshotInv, PhaseInv, Idle, Busy
    <2>4. WaitInv'
        BY <2>1 DEF SnapshotInv, WaitInv, Held, Committing
    <2>5. SweepInv' /\ FirstInv(db)' /\ FirstInv(disk)'
        BY <2>1 DEF SnapshotInv, SweepInv, FirstGcIsExact, FirstInv
    <2> QED  BY <2>2, <2>3, <2>4, <2>5 DEF SnapshotInv
<1> QED  BY <1>1, <1>2, <1>3, <1>4, <1>5, <1>6, <1>7, <1>8, <1>9, <1>10, <1>11, <1>12, <1>13,
            <1>14 DEF Next

\* The tables, in the transaction and committed, are good in every reachable
\* state, and the operation under way knows where it stands.
THEOREM SnapshotInvariant == Spec => []SnapshotInv
BY InitSnapshotInv, NextSnapshotInv, PTL DEF Spec

\* The tables are well formed, each hash has one row.
THEOREM SnapshotTypeCorrect == Spec => []SnapshotTypeOK
<1>1. SnapshotInv => SnapshotTypeOK
    <2> SUFFICES ASSUME SnapshotInv PROVE SnapshotTypeOK
        OBVIOUS
    <2>1. ASSUME NEW d, IsTables(d, idCounter, commits, nextBlob) PROVE IsDatabase(d)
        BY <2>1 DEF IsDatabase, IsTables, Row, Snap
    <2>2. /\ IsTables(db, idCounter, commits, nextBlob) /\ IsTables(disk, idCounter, commits, nextBlob)
          /\ Unique(db) /\ lost \subseteq Hash
        BY DEF SnapshotInv, GoodNow, Good, StateInv
    <2> QED  BY <2>1, <2>2 DEF SnapshotTypeOK, Unique
<1> QED  BY <1>1, SnapshotInvariant, PTL

\* A finished snapshot keeps all that it needs, whatever was committed, deleted,
\* collected and cut off since, but for what a restart took before it was stored;
\* and no ready hash has lost its blob (Hat::gc, resume).
THEOREM SnapshotsStay == Spec => []SnapshotsAreKept
<1>1. SnapshotInv => SnapshotsAreKept
    <2> SUFFICES ASSUME SnapshotInv, NEW d \in {db, disk}
                 PROVE  /\ \A s \in DoneSnaps(d) : \A h \in Need(d.snaps[s].hash) \ lost : Located(d, h)
                        /\ \A i \in DOMAIN d.rows : d.rows[i].ready => d.rows[i].blob \in external
        BY DEF SnapshotsAreKept
    <2>1. NeedInv(d, lost) /\ BlobInv(d, external)
        BY DEF SnapshotInv, GoodNow, Good
    <2>2. DoneSnaps(d) \subseteq Counted(d)
        BY DEF DoneSnaps, Counted
    <2> QED  BY <2>1, <2>2 DEF NeedInv, BlobInv
<1> QED  BY <1>1, SnapshotInvariant, PTL

\* No count falls below the finished snapshots that list the hash: no deletion
\* is counted off twice and no commit left out, however often they are resumed.
THEOREM CountsSuffice == Spec => []NoUndercount
<1>1. SnapshotInv => NoUndercount
    <2> SUFFICES ASSUME SnapshotInv, NEW i \in DOMAIN db.rows, db.rows[i].hash \notin lost
                 PROVE  Count(db, i) >= Cardinality(Referring(db, db.rows[i].hash))
        BY DEF NoUndercount
    <2>1. PICK X, Y : X = Referring(db, db.rows[i].hash) /\ Y = Refs(db, db.rows[i].hash)
        OBVIOUS
    <2>2. X \subseteq Y
        BY <2>1 DEF Referring, Refs, DoneSnaps, Counted
    <2>3. IsFiniteSet(Y) /\ Cardinality(Y) \in Nat
        BY <2>1, DbFacts, RefsFinite
    <2>4. Cardinality(X) \in Nat /\ Cardinality(X) <= Cardinality(Y)
        BY <2>2, <2>3, FS_Subset, FS_CardinalityType
    <2>5. Count(db, i) \in Int /\ Count(db, i) >= Cardinality(Y)
        BY <2>1, DbFacts DEF CountInv, Count, IsTables
    <2> QED  BY <2>1, <2>3, <2>4, <2>5
<1> QED  BY <1>1, SnapshotInvariant, PTL

\* Between operations the counts are exactly the references, as long as no
\* restart lost a hash and no collection left its tags behind.
THEOREM CountsStayExact == Spec => []CountsAreExact
<1>1. SnapshotInv => CountsAreExact
    <2> SUFFICES ASSUME SnapshotInv, pc = "idle", ~gcRan, lost = {}, NEW i \in DOMAIN db.rows
                 PROVE  Count(db, i) = Cardinality(Referring(db, db.rows[i].hash))
        BY DEF CountsAreExact
    <2>1. Open(db) = {}
        BY DEF SnapshotInv, PhaseInv, Idle
    <2>2. Counted(db) = DoneSnaps(db)
        BY <2>1 DEF Open, Counted, DoneSnaps
    <2>3. Referring(db, db.rows[i].hash) = Refs(db, db.rows[i].hash)
        BY <2>2 DEF Referring, Refs
    <2> QED  BY <2>3 DEF SnapshotInv, FirstInv, ExactInv
<1> QED  BY <1>1, SnapshotInvariant, PTL

\* The first collection leaves just what the snapshots need.
THEOREM FirstCollectionIsExact == Spec => []FirstGcIsExact
<1>1. SnapshotInv => FirstGcIsExact
    BY DEF SnapshotInv, SweepInv
<1> QED  BY <1>1, SnapshotInvariant, PTL

\* resume() never returns with a snapshot unfinished: no sequence of commands
\* and crashes leaves two of them.
THEOREM ResumeFinishes == Spec => []NothingUnfinished
<1>1. SnapshotInv => NothingUnfinished
    BY DEF SnapshotInv, PhaseInv, Idle, NothingUnfinished, NotDone, Open
<1> QED  BY <1>1, SnapshotInvariant, PTL

\* A collection that may start marks every row still on its way to a blob.
THEOREM PendingIsMarked == Spec => []GcSparesPending
<1>1. SnapshotInv => GcSparesPending
    <2> SUFFICES ASSUME SnapshotInv, Ready, NEW i \in Pending(db) PROVE i \in Marked(db)
        BY DEF GcSparesPending
    <2>1. Held(i) /\ pc = "idle" /\ i \in DOMAIN db.rows /\ \A f \in File : db.rows[i].hash \notin Tree[f]
        BY DEF SnapshotInv, WaitInv, Ready, Pending
    <2>2. \E j \in DOMAIN db.rows : Count(db, j) > 0 /\ db.rows[i].hash \in Tree[db.rows[j].hash]
        BY <2>1 DEF Held, Committing
    <2> QED  BY <2>1, <2>2, MarkedSays
<1> QED  BY <1>1, SnapshotInvariant, PTL

\* An expect() of commit, deregister or resume and the collector's assertion on
\* the counts fail only when a restart has lost a hash, when a commit meets a
\* file outside the directory scanned for it, or when a snapshot is deleted
\* whose directories are not stored yet.
THEOREM PanicsHaveCause == Spec => []PanicHasCause
<1>1. SnapshotInv => PanicHasCause
    BY DEF SnapshotInv, PhaseInv, PanicHasCause
<1> QED  BY <1>1, SnapshotInvariant, PTL

=============================================================================

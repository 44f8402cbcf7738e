--------------------------- MODULE RecoveryProofs ---------------------------
(***************************************************************************)
(* Proofs about Recovery for any chunks, trees and lists of snapshots, any *)
(* distribution over blobs and any number of restarts: a walk leaves no    *)
(* hash reserved, what is counted is on disk, counts are exact, and at the *)
(* end everything is recovered once and spared by a collection.            *)
(*                                                                         *)
(* As in SnapshotGcProofs the parts of the invariant are predicates of a   *)
(* database d: they hold in the transaction and of the committed tables.   *)
(***************************************************************************)
EXTENDS Recovery, FiniteSetTheorems, WellFoundedInduction, TLAPS

-----------------------------------------------------------------------------
\* The invariant, of one database d.

RowTag == {"Done", "Reserved", "InProgress"}
Ids == Seq(Nat)
Row == [hash : Hash, tag : RowTag, ready : BOOLEAN, childs : Ids]
Waiting == [childs : Ids, complete : BOOLEAN]
Snap == [key : Nat, hash : Hash, tag : SnapTag]

\* The tables, with ids up to n.
IsTables(d, n) ==
    /\ d = [rows |-> d.rows, cnt |-> d.cnt, snaps |-> d.snaps, blobs |-> d.blobs]
    /\ d.rows \in [DOMAIN d.rows -> Row] /\ DOMAIN d.rows \subseteq 1..n
    /\ d.cnt \in [DOMAIN d.cnt -> Nat]
    /\ d.snaps \in Seq(Snap)
    /\ d.blobs \in [DOMAIN d.blobs -> {"InProgress", "Done"}] /\ DOMAIN d.blobs \subseteq Blobs

Unique(d) == \A i, j \in DOMAIN d.rows : d.rows[i].hash = d.rows[j].hash => i = j

IsReady(d, h) == \E i \in DOMAIN d.rows : d.rows[i].hash = h /\ d.rows[i].ready

\* The snapshots that have been counted, and it is saved.
Saved(d) == {s \in 1..Len(d.snaps) : d.snaps[s].tag # "RecoverInProgress"}

ThereInv(d) == \A s \in Saved(d) : \A h \in Need[d.snaps[s].hash] : IsReady(d, h)

\* A ready row has its blob, and only ready rows, which no restart takes, have a
\* count.
ReadyInv(d) ==
    /\ \A i \in DOMAIN d.rows : d.rows[i].ready => BlobOf[d.rows[i].hash] \in DOMAIN d.blobs
    /\ \A i \in DOMAIN d.cnt : i \in DOMAIN d.rows /\ d.rows[i].ready

\* A count is the number of the snapshots in R that have the hash as a top.
Refs(d, R, h) == {s \in R : h \in Tops[d.snaps[s].hash]}
CountInv(d, R) ==
    \A i \in DOMAIN d.rows : Count(d, i) = Cardinality(Refs(d, R, d.rows[i].hash))

\* Every row belongs to a snapshot.
FromInv(d) ==
    \A i \in DOMAIN d.rows : \E s \in 1..Len(d.snaps) : d.rows[i].hash \in Need[d.snaps[s].hash]

\* childs are the ids of the references of h.
Linked(d, h, childs) ==
    /\ Len(childs) = Len(Kids[h])
    /\ \A n \in 1..Len(Kids[h]) : childs[n] \in DOMAIN d.rows /\ d.rows[childs[n]].hash = Kids[h][n]

\* c: a restart has taken children.
ChildInv(d, c) ==
    ~c => \A i \in DOMAIN d.rows : d.rows[i].ready => Linked(d, d.rows[i].hash, d.rows[i].childs)

Good(d, n, c, R) ==
    /\ IsTables(d, n)
    /\ Unique(d)
    /\ ThereInv(d)
    /\ ReadyInv(d)
    /\ CountInv(d, R)
    /\ FromInv(d)
    /\ ChildInv(d, c)

-----------------------------------------------------------------------------
\* The invariant of the recovery under way.

\* The queue q is the rows of d that are not ready; what is complete waits only
\* for what is not.
QueueInv(d, q, c) ==
    /\ q \in [DOMAIN q -> Waiting]
    /\ DOMAIN q = {i \in DOMAIN d.rows : ~d.rows[i].ready}
    /\ \A i \in DOMAIN q : q[i].complete =>
        /\ BlobOf[d.rows[i].hash] \in DOMAIN d.blobs
        /\ ~c => Linked(d, d.rows[i].hash, q[i].childs)

FrontInv(q) == \A i \in DOMAIN q : \E j \in DOMAIN q : j <= i /\ ~q[j].complete

\* h has been visited, in this walk or another, and its entries are tops.
Met(d, q, T, h) ==
    /\ \E i \in DOMAIN d.rows : d.rows[i].hash = h /\ (i \in DOMAIN q => q[i].complete)
    /\ Range(Lists[h]) \subseteq T

\* What is below f has been visited or is below what is on the stack; what is
\* reserved is on the stack.
WalkInv(d, q, f, st, T) ==
    /\ st \in Seq(Hash) /\ Range(st) \subseteq Need[f]
    /\ T \subseteq Tops[f]
    /\ \A i \in DOMAIN q : ~q[i].complete => d.rows[i].hash \in Range(st)
    /\ \A h \in Need[f] : Met(d, q, T, h) \/ \E g \in Range(st) : h \in Need[g]

\* The snapshots q are those of es, whatever their tags.
IsOf(q, es) ==
    /\ Len(q) = Len(es)
    /\ \A k \in 1..Len(es) : q[k].key = es[k].key /\ q[k].hash = es[k].hash

Full(r) == Append(OnList(r), Entry(0, r))

Settled(d) == Blobs \subseteq DOMAIN d.blobs /\ DoneRoots(d) # {}
RootOf(d) == Newest(DoneRoots(d))

\* Every recovery goes by the same list.
ListInv ==
    /\ db.snaps # <<>> \/ finished \/ after # "idle" => Settled(db) /\ pc # "blob_commit"
    /\ \/ db.snaps = <<>>
       \/ IsOf(db.snaps, OnList(RootOf(db)))
       \/ IsOf(db.snaps, Full(RootOf(db)))
    /\ after # "idle" => root = RootOf(db) /\ (db.snaps = <<>> => OnList(root) = <<>>)
    /\ finished \/ after = "recovered" => IsOf(db.snaps, Full(RootOf(db)))

Working == pc \in {"walk", "register", "ready_commit", "register_cleanup", "commit_done"}
Resting == pc \in {"idle", "blobs", "blob_commit", "register_root", "recovered", "panicked"}

PhaseInv ==
    /\ Working \/ Resting \/ pc = "resume"
    /\ after \in {"idle", "register_root", "recovered"}
    /\ pc \in {"register_root", "recovered"} => after = pc
    /\ Resting => NotDone = {}
    /\ pc \in {"blobs", "blob_commit"} => left \subseteq Blobs /\ Blobs \ left \subseteq DOMAIN db.blobs
    /\ pc = "blob_commit" => cur \in DOMAIN db.blobs
    /\ Working => cur \in 1..Len(db.snaps)
    /\ pc \in {"walk", "register"} => db.snaps[cur].tag = "RecoverInProgress"
    /\ pc \in {"register_cleanup", "commit_done"} => db.snaps[cur].tag = "Complete"
    /\ pc = "walk" => WalkInv(db, queue, Final, stack, tops)
    /\ pc \in {"register", "ready_commit"} => \A h \in Need[Final] : IsReady(db, h)
    /\ pc = "register" => \A i \in DOMAIN db.rows :
           db.rows[i].tag = "Reserved" <=> db.rows[i].hash \in Tops[Final] \ {Final}
    /\ WalkLeavesNothing

StateInv ==
    /\ idCounter \in Nat /\ finished \in BOOLEAN /\ cut \in BOOLEAN
    /\ disk.snaps = db.snaps /\ disk.blobs = db.blobs
    /\ \E n \in Nat : DOMAIN db.blobs \subseteq 1..n

RecoveryInv ==
    /\ StateInv
    /\ Good(db, idCounter, cut, Registered(db))
    /\ Good(disk, idCounter, cut, Saved(disk))
    /\ QueueInv(db, queue, cut) /\ FrontInv(queue)
    /\ PhaseInv
    /\ ListInv

-----------------------------------------------------------------------------
\* What a walk meets.

Below(h) == Range(Kids[h]) \cup Range(Lists[h])

\* The constants, in the form the proofs use them.
LEMMA Constants ==
    /\ \A h \in Hash : /\ Kids[h] \in Seq(Hash) /\ Lists[h] \in Seq(Hash)
                       /\ Below(h) \subseteq Hash
                       /\ BlobOf[h] \in Nat /\ BlobOf[h] \in Blobs
    /\ Blobs \subseteq Nat
    /\ Roots \subseteq Hash /\ NoHash \notin Hash
    /\ \A r \in Roots : /\ Listing[r] \in Seq(Hash)
                        /\ \A n \in 1..Len(Listing[r]) : Listing[r][n] # r
<1>1. ASSUME NEW h \in Hash
      PROVE  /\ Kids[h] \in Seq(Hash) /\ Lists[h] \in Seq(Hash)
             /\ BlobOf[h] \in Nat /\ BlobOf[h] \in Blobs
    BY RecoveryAssumption DEF Blobs
<1>2. ASSUME NEW h \in Hash PROVE Below(h) \subseteq Hash
    BY <1>1 DEF Below, Range
<1>3. ASSUME NEW r \in Roots
      PROVE  Listing[r] \in Seq(Hash) /\ \A n \in 1..Len(Listing[r]) : Listing[r][n] # r
    <2>1. Listing[r] \in Seq(Hash) /\ r \notin Range(Listing[r])
        BY RecoveryAssumption
    <2> QED  BY <2>1 DEF Range
<1>4. Blobs \subseteq Nat
    BY RecoveryAssumption DEF Blobs
<1> QED  BY <1>1, <1>2, <1>3, <1>4, RecoveryAssumption

\* Need is the smallest set of its kind.
LEMMA NeedSmallest ==
    ASSUME NEW h \in Hash, NEW S, S \subseteq Hash, h \in S, \A g \in S : Below(g) \subseteq S
    PROVE  Need[h] \subseteq S
<1>1. S \in Whole
    BY DEF Whole, Below
<1> QED  BY <1>1 DEF Need

\* It has h, and all that its hashes refer to or list.
LEMMA NeedClosed ==
    ASSUME NEW h \in Hash
    PROVE  /\ Need[h] \subseteq Hash /\ h \in Need[h]
           /\ \A g \in Need[h] : Below(g) \subseteq Need[h]
<1>1. Need[h] = {g \in Hash : \A S \in Whole : h \in S => g \in S}
    BY DEF Need
<1>2. ASSUME NEW g \in Need[h], NEW k \in Below(g) PROVE k \in Need[h]
    <2>1. k \in Hash
        BY <1>1, Constants
    <2>2. ASSUME NEW S \in Whole, h \in S PROVE k \in S
        BY <1>1, <2>2 DEF Whole, Below
    <2> QED  BY <1>1, <2>1, <2>2
<1> QED  BY <1>1, <1>2

\* So what is met below a hash that is met is met.
LEMMA NeedTransitive ==
    ASSUME NEW h \in Hash, NEW g \in Need[h]
    PROVE  g \in Hash /\ Need[g] \subseteq Need[h]
<1>1. g \in Hash
    BY NeedClosed
<1> QED  BY <1>1, NeedClosed, NeedSmallest

\* A walk from h meets h and what the walks from below h meet.
LEMMA NeedUnfolds ==
    ASSUME NEW h \in Hash, NEW k \in Need[h]
    PROVE  k = h \/ \E g \in Below(h) : k \in Need[g]
<1> DEFINE S == {h} \cup UNION {Need[g] : g \in Below(h)}
<1>1. Below(h) \subseteq Hash
    BY Constants
<1>2. S \subseteq Hash /\ h \in S
    BY <1>1, NeedClosed
<1>3. ASSUME NEW s \in S, NEW b \in Below(s) PROVE b \in S
    <2>1. CASE s = h
        BY <2>1, <1>1, <1>3, NeedClosed
    <2>2. ASSUME NEW g \in Below(h), s \in Need[g] PROVE b \in S
        BY <2>2, <1>1, <1>3, NeedClosed
    <2> QED  BY <2>1, <2>2
<1>4. Need[h] \subseteq S
    <2> HIDE DEF S
    <2> QED  BY <1>2, <1>3, NeedSmallest
<1> QED  BY <1>4

\* The tops are h and what is listed below it.
LEMMA TopsFacts ==
    ASSUME NEW h \in Hash
    PROVE  /\ h \in Tops[h] /\ Tops[h] \subseteq Need[h]
           /\ \A g \in Need[h] : Range(Lists[g]) \subseteq Tops[h]
           /\ \A k \in Tops[h] : k = h \/ \E g \in Need[h] : k \in Range(Lists[g])
<1>1. Tops[h] = {h} \cup UNION {Range(Lists[g]) : g \in Need[h]}
    BY DEF Tops
<1>2. ASSUME NEW g \in Need[h] PROVE Range(Lists[g]) \subseteq Need[h]
    BY NeedClosed DEF Below
<1> QED  BY <1>1, <1>2, NeedClosed

-----------------------------------------------------------------------------
\* Numbers.

\* A set of numbers that is not empty has a least one.
LEMMA Least ==
    ASSUME NEW S, S \subseteq Nat, S # {}
    PROVE  \E m \in S : \A k \in S : m <= k
<1>1. PICK m \in S : \A u \in S : ~(<<u, m>> \in OpToRel(<, Nat))
    BY NatLessThanWellFounded, WFMin
<1>2. ASSUME NEW k \in S PROVE m <= k
    <2>1. m \in Nat /\ k \in Nat
        OBVIOUS
    <2>2. ~(k < m)
        BY <1>1, <2>1 DEF OpToRel
    <2> QED  BY <2>1, <2>2
<1> QED  BY <1>2

\* The places of the members of a set, counted from the smallest.
LEMMA Places ==
    ASSUME NEW N \in Nat, NEW S, S \subseteq 1..N
    PROVE  /\ IsFiniteSet(S) /\ Cardinality(S) \in Nat
           /\ \A n \in S : Cardinality({m \in S : m <= n}) \in 1..Cardinality(S)
           /\ \A n, k \in S :
                Cardinality({m \in S : m <= n}) = Cardinality({m \in S : m <= k}) => n = k
<1> DEFINE U(n) == {m \in S : m <= n}
<1>1. IsFiniteSet(S) /\ Cardinality(S) \in Nat
    <2>1. IsFiniteSet(1..N)
        BY FS_Interval
    <2>2. S \in SUBSET (1..N)
        OBVIOUS
    <2> QED  BY <2>1, <2>2, FS_Subset, FS_CardinalityType
<1>2. \A n \in S : IsFiniteSet(U(n)) /\ Cardinality(U(n)) \in Nat /\ Cardinality(U(n)) <= Cardinality(S)
    BY <1>1, FS_Subset, FS_CardinalityType
<1>3. ASSUME NEW n \in S PROVE Cardinality(U(n)) \in 1..Cardinality(S)
    <2>1. n \in U(n)
        OBVIOUS
    <2>2. U(n) # {}
        BY <2>1
    <2>3. Cardinality(U(n)) # 0
        BY <1>2, <2>2, FS_EmptySet
    <2> QED  BY <1>1, <1>2, <2>3
<1>4. ASSUME NEW n \in S, NEW k \in S, n < k PROVE Cardinality(U(n)) # Cardinality(U(k))
    <2>1. U(n) \in SUBSET U(k)
        <3>1. n \in Nat /\ k \in Nat /\ S \subseteq Nat
            OBVIOUS
        <3>2. ASSUME NEW m \in U(n) PROVE m \in U(k)
            <4>1. m \in S /\ m \in Nat /\ m <= n
                BY <3>1
            <4> QED  BY <1>4, <3>1, <4>1
        <3> QED  BY <3>2
    <2>2. k \in U(k) /\ k \notin U(n)
        BY <1>4
    <2>3. U(n) # U(k)
        BY <2>2
    <2> HIDE DEF U
    <2> QED  BY <1>2, <2>1, <2>3, FS_Subset
<1>5. ASSUME NEW n \in S, NEW k \in S, Cardinality(U(n)) = Cardinality(U(k)) PROVE n = k
    <2>1. n < k \/ k < n \/ n = k
        OBVIOUS
    <2> QED  BY <1>4, <1>5, <2>1
<1> QED  BY <1>1, <1>3, <1>5

\* One that has a bound has a greatest one.
LEMMA Greatest ==
    ASSUME NEW n \in Nat, NEW S, S \subseteq 1..n, S # {}
    PROVE  \E m \in S : \A k \in S : k <= m
<1> DEFINE D == {k \in Nat : \E j \in S : k = n - j}
<1>1. D \subseteq Nat
    OBVIOUS
<1>2. \A j \in S : n - j \in D
    OBVIOUS
<1>3. D # {}
    BY <1>2
<1>4. PICK m \in D : \A k \in D : m <= k
    <2> HIDE DEF D
    <2> QED  BY <1>1, <1>3, Least
<1>5. PICK i \in S : m = n - i
    BY <1>4
<1>6. ASSUME NEW j \in S PROVE j <= i
    <2>1. m <= n - j
        BY <1>2, <1>4
    <2> QED  BY <1>5, <2>1
<1> QED  BY <1>6

\* The largest of the ids bounds them: where the counter goes on after a restart.
LEMMA MaxOfBounds ==
    ASSUME NEW n \in Nat, NEW S, S \subseteq 1..n
    PROVE  MaxOf(S) \in Nat /\ S \subseteq 1..MaxOf(S)
<1>1. CASE S = {}
    BY <1>1 DEF MaxOf
<1>2. CASE S # {}
    <2>1. PICK k : k = MaxOf(S) /\ k \in S /\ \A j \in S : j <= k
        BY <1>2, Greatest DEF MaxOf
    <2>2. k \in Nat /\ S \subseteq 1..k
        BY <2>1
    <2> QED  BY <2>1, <2>2
<1> QED  BY <1>1, <1>2

-----------------------------------------------------------------------------
\* The hash index: reserve.

\* e is d with more rows: for hashes of H that d does not have, with ids from
\* n + 1 to m.
Grown(d, e, n, m, H) ==
    /\ e = [rows |-> e.rows, cnt |-> d.cnt, snaps |-> d.snaps, blobs |-> d.blobs]
    /\ e.rows \in [DOMAIN e.rows -> Row]
    /\ DOMAIN d.rows \subseteq DOMAIN e.rows
    /\ \A i \in DOMAIN d.rows : e.rows[i] = d.rows[i]
    /\ \A i \in DOMAIN e.rows \ DOMAIN d.rows :
        /\ i \in (n + 1)..m
        /\ e.rows[i].hash \in H /\ ~Located(d, e.rows[i].hash)
        /\ ~e.rows[i].ready
    /\ \A i, j \in DOMAIN e.rows \ DOMAIN d.rows : e.rows[i].hash = e.rows[j].hash => i = j

\* The entries of a queue that has grown with the table.
QueueGrown(d, e, q, p) ==
    /\ p \in [DOMAIN p -> Waiting]
    /\ DOMAIN p = DOMAIN q \cup (DOMAIN e.rows \ DOMAIN d.rows)
    /\ \A i \in DOMAIN q : p[i] = q[i]
    /\ \A i \in DOMAIN e.rows \ DOMAIN d.rows : ~p[i].complete

\* A row that has just been reserved has no children yet.
LEMMA NoIds == <<>> \in Ids
BY DEF Ids

\* So it is a row, and its entry one of the queue.
LEMMA NewRow ==
    ASSUME NEW h \in Hash
    PROVE  /\ [hash |-> h, tag |-> "Done", ready |-> FALSE, childs |-> <<>>] \in Row
           /\ [childs |-> <<>>, complete |-> FALSE] \in Waiting
<1>1. PICK e : e = <<>>
    OBVIOUS
<1>2. e \in Ids
    BY <1>1, NoIds
<1>3. /\ [hash |-> h, tag |-> "Done", ready |-> FALSE, childs |-> e] \in Row
      /\ [childs |-> e, complete |-> FALSE] \in Waiting
    BY <1>2 DEF Row, RowTag, Waiting
<1> QED  BY <1>1, <1>3

\* x is a state of the hash index in which the hashes hs are to be reserved, and
\* y the one in which they are.
Reserving(d, n, q, hs, x) ==
    /\ n \in Nat /\ IsTables(d, n)
    /\ q \in [DOMAIN q -> Waiting] /\ DOMAIN q \subseteq DOMAIN d.rows
    /\ hs \in Seq(Hash)
    /\ x = [db |-> d, queue |-> q, next |-> n]

IsReserved(d, n, q, hs, x, y) ==
    /\ y = [db |-> y.db, queue |-> y.queue, next |-> y.next]
    /\ y.next = n + Cardinality(NewOf(x, hs)) /\ Cardinality(NewOf(x, hs)) \in Nat
    /\ Grown(d, y.db, n, y.next, Range(hs))
    /\ QueueGrown(d, y.db, q, y.queue)
    /\ \A h \in Range(hs) : Located(y.db, h)

\* One reserve after another gives every hash a row and changes none.
LEMMA ReserveEffect ==
    ASSUME NEW d, NEW n, NEW q, NEW hs, NEW x, Reserving(d, n, q, hs, x)
    PROVE  IsReserved(d, n, q, hs, x, ReserveAll(x, hs))
<1> SUFFICES ASSUME n \in Nat, IsTables(d, n),
                    q \in [DOMAIN q -> Waiting], DOMAIN q \subseteq DOMAIN d.rows,
                    hs \in Seq(Hash), x = [db |-> d, queue |-> q, next |-> n],
                    NEW y, y = ReserveAll(x, hs)
             PROVE  /\ y = [db |-> y.db, queue |-> y.queue, next |-> y.next]
                    /\ y.next = n + Cardinality(NewOf(x, hs)) /\ Cardinality(NewOf(x, hs)) \in Nat
                    /\ Grown(d, y.db, n, y.next, Range(hs))
                    /\ QueueGrown(d, y.db, q, y.queue)
                    /\ \A h \in Range(hs) : Located(y.db, h)
    BY Zenon DEF Reserving, IsReserved
<1>1. PICK new : new = NewOf(x, hs)
    OBVIOUS
<1>2. PICK id : id = [k \in new |-> n + Cardinality({j \in new : j <= k})]
    OBVIOUS
<1>3. PICK at : at = [i \in Range(id) |-> hs[CHOOSE k \in new : id[k] = i]]
    OBVIOUS
<1>4. PICK R : R = [i \in DOMAIN d.rows \cup DOMAIN at |->
                    IF i \in DOMAIN at
                    THEN [hash |-> at[i], tag |-> "Done", ready |-> FALSE, childs |-> <<>>]
                    ELSE d.rows[i]]
    OBVIOUS
<1>5. PICK p : p = [i \in DOMAIN q \cup DOMAIN at |->
                       IF i \in DOMAIN at THEN [childs |-> <<>>, complete |-> FALSE] ELSE q[i]]
    OBVIOUS
<1>6. x.db = d /\ x.queue = q /\ x.next = n
    OBVIOUS
<1>7. y = [db |-> [d EXCEPT !.rows = R], queue |-> p, next |-> n + Cardinality(new)]
    BY <1>1, <1>2, <1>3, <1>4, <1>5, <1>6 DEF ReserveAll
<1>8. [d EXCEPT !.rows = R] = [rows |-> R, cnt |-> d.cnt, snaps |-> d.snaps, blobs |-> d.blobs]
    BY DEF IsTables
<1>9. /\ y = [db |-> y.db, queue |-> y.queue, next |-> y.next]
      /\ y.db = [rows |-> R, cnt |-> d.cnt, snaps |-> d.snaps, blobs |-> d.blobs]
      /\ y.db.rows = R /\ y.queue = p /\ y.next = n + Cardinality(new)
    BY <1>7, <1>8
<1>10. /\ new \subseteq 1..Len(hs) /\ Len(hs) \in Nat
       /\ \A k \in new : /\ hs[k] \in Hash /\ hs[k] \in Range(hs) /\ ~Located(d, hs[k])
                         /\ \A j \in 1..(k - 1) : hs[j] # hs[k]
    <2>1. /\ new = {k \in 1..Len(hs) : ~Located(d, hs[k]) /\ \A j \in 1..(k - 1) : hs[j] # hs[k]}
          /\ Len(hs) \in Nat /\ DOMAIN hs = 1..Len(hs)
        BY <1>1, <1>6 DEF NewOf
    <2> QED  BY <2>1 DEF Range
<1>11. /\ Cardinality(new) \in Nat
       /\ \A k \in new : Cardinality({j \in new : j <= k}) \in 1..Cardinality(new)
       /\ \A k, l \in new : id[k] = id[l] => k = l
    <2>1. /\ Cardinality(new) \in Nat
          /\ \A k \in new : Cardinality({j \in new : j <= k}) \in 1..Cardinality(new)
          /\ \A k, l \in new :
                Cardinality({j \in new : j <= k}) = Cardinality({j \in new : j <= l}) => k = l
        BY <1>10, Places
    <2>2. ASSUME NEW k \in new, NEW l \in new, id[k] = id[l] PROVE k = l
        <3> DEFINE a == Cardinality({j \in new : j <= k})
                   b == Cardinality({j \in new : j <= l})
        <3>1. a \in Nat /\ b \in Nat /\ n + a = n + b
            BY <1>2, <2>1, <2>2
        <3>2. a = b
            <4> HIDE DEF a, b
            <4> QED  BY <3>1
        <3> QED  BY <2>1, <3>2
    <2> QED  BY <2>1, <2>2
<1>12. /\ \A k \in new : id[k] \in DOMAIN at /\ at[id[k]] = hs[k]
       /\ \A i \in DOMAIN at : \E k \in new : i = id[k]
       /\ \A i \in DOMAIN at : i \in (n + 1)..(n + Cardinality(new))
    <2>1. DOMAIN at = Range(id) /\ DOMAIN id = new
        BY <1>2, <1>3
    <2>2. ASSUME NEW k \in new PROVE id[k] \in DOMAIN at /\ at[id[k]] = hs[k]
        <3>1. id[k] \in Range(id)
            BY <2>1 DEF Range
        <3>2. (CHOOSE l \in new : id[l] = id[k]) = k
            BY <1>11
        <3> QED  BY <1>3, <2>1, <3>1, <3>2
    <2>3. ASSUME NEW i \in DOMAIN at PROVE \E k \in new : i = id[k]
        BY <2>1 DEF Range
    <2>4. ASSUME NEW k \in new PROVE id[k] \in (n + 1)..(n + Cardinality(new))
        <3>1. id[k] = n + Cardinality({j \in new : j <= k})
            BY <1>2
        <3> HIDE DEF Cardinality
        <3> QED  BY <1>11, <3>1
    <2> QED  BY <2>2, <2>3, <2>4
<1>13. DOMAIN R = DOMAIN d.rows \cup DOMAIN at /\ DOMAIN p = DOMAIN q \cup DOMAIN at
    BY <1>4, <1>5
<1>14. DOMAIN at = DOMAIN R \ DOMAIN d.rows
    <2>1. DOMAIN d.rows \subseteq 1..n
        BY DEF IsTables
    <2>2. \A i \in DOMAIN at : i \notin 1..n
        BY <1>11, <1>12
    <2> QED  BY <1>13, <2>1, <2>2
<1>15. ASSUME NEW i \in DOMAIN at
       PROVE  /\ R[i] = [hash |-> R[i].hash, tag |-> "Done", ready |-> FALSE, childs |-> <<>>]
              /\ R[i].hash = at[i] /\ ~R[i].ready
              /\ p[i] = [childs |-> <<>>, complete |-> FALSE]
              /\ ~p[i].complete
    BY <1>4, <1>5, <1>13
<1>16. /\ \A i \in DOMAIN d.rows : R[i] = d.rows[i]
       /\ \A i \in DOMAIN q : p[i] = q[i]
    BY <1>4, <1>5, <1>14
<1>17. \A i \in DOMAIN at : R[i] \in Row /\ R[i].hash \in Range(hs) /\ ~Located(d, R[i].hash)
    <2>1. SUFFICES ASSUME NEW i \in DOMAIN at
                   PROVE  R[i] \in Row /\ R[i].hash \in Range(hs) /\ ~Located(d, R[i].hash)
        OBVIOUS
    <2>2. PICK k \in new : i = id[k] /\ at[i] = hs[k]
        BY <1>12
    <2>3. R[i].hash = hs[k]
        BY <1>15, <2>2
    <2>4. R[i].hash \in Hash /\ R[i].hash \in Range(hs) /\ ~Located(d, R[i].hash)
        BY <1>10, <2>2, <2>3
    <2>5. R[i] \in Row
        BY <1>15, <2>4, NewRow
    <2> QED  BY <2>4, <2>5
<1>18. R \in [DOMAIN R -> Row]
    <2>1. \A i \in DOMAIN R : R[i] \in Row
        BY <1>13, <1>16, <1>17 DEF IsTables
    <2> QED  BY <1>4, <2>1
<1>19. ASSUME NEW i \in DOMAIN at, NEW j \in DOMAIN at, R[i].hash = R[j].hash PROVE i = j
    <2>1. PICK k \in new : i = id[k] /\ at[i] = hs[k]
        BY <1>12
    <2>2. PICK l \in new : j = id[l] /\ at[j] = hs[l]
        BY <1>12
    <2>3. hs[k] = hs[l]
        BY <1>15, <1>19, <2>1, <2>2
    <2>4. k \in Nat /\ l \in Nat /\ 1 <= k /\ 1 <= l
        BY <1>10
    <2>5. ~(k < l) /\ ~(l < k)
        BY <1>10, <2>3, <2>4
    <2> QED  BY <2>1, <2>2, <2>4, <2>5
<1>20. Grown(d, y.db, n, y.next, Range(hs))
    <2>1. \A i \in DOMAIN at : ~R[i].ready
        BY <1>15
    <2>2. \A i, j \in DOMAIN at : R[i].hash = R[j].hash => i = j
        BY <1>19
    <2> QED  BY <1>9, <1>12, <1>13, <1>14, <1>16, <1>17, <1>18, <2>1, <2>2 DEF Grown
<1>21. QueueGrown(d, y.db, q, y.queue)
    <2>1. \A i \in DOMAIN p : p[i] \in Waiting
        <3>1. \A i \in DOMAIN at : p[i] \in Waiting
            <4>1. ASSUME NEW i \in DOMAIN at PROVE p[i] \in Waiting
                BY <1>15, <1>17, NewRow DEF Row
            <4> QED  BY <4>1
        <3> QED  BY <3>1, <1>13, <1>16
    <2>2. p \in [DOMAIN p -> Waiting]
        BY <1>5, <2>1
    <2>3. \A i \in DOMAIN at : ~p[i].complete
        BY <1>15
    <2> QED  BY <1>9, <1>13, <1>14, <1>16, <2>2, <2>3 DEF QueueGrown
<1>22. ASSUME NEW h \in Range(hs) PROVE Located(y.db, h)
    <2>1. CASE Located(d, h)
        BY <2>1, <1>9, <1>13, <1>16 DEF Located
    <2>2. CASE ~Located(d, h)
        <3> DEFINE S == {k \in 1..Len(hs) : hs[k] = h}
        <3>1. S # {} /\ S \subseteq Nat
            BY <1>22 DEF Range
        <3>2. PICK k \in S : \A j \in S : k <= j
            <4> HIDE DEF S
            <4> QED  BY <3>1, Least
        <3>3. k \in 1..Len(hs) /\ hs[k] = h /\ \A j \in 1..(k - 1) : hs[j] # h
            BY <3>2
        <3>4. k \in new
            BY <1>1, <1>6, <2>2, <3>3 DEF NewOf
        <3>5. id[k] \in DOMAIN at /\ R[id[k]].hash = h
            BY <1>12, <1>15, <3>3, <3>4
        <3> QED  BY <1>9, <1>13, <3>5 DEF Located
    <2> QED  BY <2>1, <2>2
<1> QED  BY <1>1, <1>9, <1>11, <1>20, <1>21, <1>22

\* New rows are not ready: nothing is counted or complete that was not.
LEMMA GrownKeeps ==
    ASSUME NEW d, NEW n \in Nat, NEW c, Good(d, n, c, Saved(d)),
           NEW e, NEW m \in Nat, n <= m, NEW H, Grown(d, e, n, m, H),
           NEW s0 \in 1..Len(d.snaps), H \subseteq Need[d.snaps[s0].hash]
    PROVE  Good(e, m, c, Saved(e)) /\ e.snaps = d.snaps /\ e.blobs = d.blobs
<1>1. /\ IsTables(d, n) /\ Unique(d) /\ ThereInv(d) /\ ReadyInv(d)
      /\ CountInv(d, Saved(d)) /\ FromInv(d) /\ ChildInv(d, c)
    BY DEF Good
<1>2. /\ e = [rows |-> e.rows, cnt |-> d.cnt, snaps |-> d.snaps, blobs |-> d.blobs]
      /\ e.rows \in [DOMAIN e.rows -> Row]
      /\ DOMAIN d.rows \subseteq DOMAIN e.rows
      /\ \A i \in DOMAIN d.rows : e.rows[i] = d.rows[i]
      /\ \A i \in DOMAIN e.rows \ DOMAIN d.rows :
            /\ i \in (n + 1)..m
            /\ e.rows[i].hash \in H /\ ~Located(d, e.rows[i].hash)
            /\ ~e.rows[i].ready
      /\ \A i, j \in DOMAIN e.rows \ DOMAIN d.rows : e.rows[i].hash = e.rows[j].hash => i = j
    BY DEF Grown
<1>3. e.cnt = d.cnt /\ e.snaps = d.snaps /\ e.blobs = d.blobs
    BY <1>2
<1>4. Saved(e) = Saved(d)
    BY <1>3 DEF Saved
<1>5. IsTables(e, m)
    <2>1. DOMAIN e.rows \subseteq 1..m
        <3>1. ASSUME NEW i \in DOMAIN e.rows PROVE i \in 1..m
            <4>1. CASE i \in DOMAIN d.rows
                <5>1. i \in 1..n
                    BY <1>1, <4>1 DEF IsTables
                <5> QED  BY <5>1
            <4>2. CASE i \notin DOMAIN d.rows
                <5>1. i \in (n + 1)..m
                    BY <1>2, <4>2
                <5> QED  BY <5>1
            <4> QED  BY <4>1, <4>2
        <3> QED  BY <3>1
    <2> QED  BY <1>1, <1>2, <1>3, <2>1 DEF IsTables
<1>6. Unique(e)
    BY <1>1, <1>2 DEF Unique, Located
<1>7. \A h : IsReady(d, h) => IsReady(e, h)
    BY <1>2 DEF IsReady
<1>8. ThereInv(e)
    BY <1>1, <1>3, <1>4, <1>7 DEF ThereInv
<1>9. ReadyInv(e)
    BY <1>1, <1>2, <1>3 DEF ReadyInv
<1>10. CountInv(e, Saved(e))
    <2>1. SUFFICES ASSUME NEW i \in DOMAIN e.rows
                   PROVE  Count(e, i) = Cardinality(Refs(e, Saved(d), e.rows[i].hash))
        BY <1>4 DEF CountInv
    <2>2. Count(e, i) = Count(d, i) /\ \A h : Refs(e, Saved(d), h) = Refs(d, Saved(d), h)
        BY <1>3 DEF Count, Refs
    <2>3. CASE i \in DOMAIN d.rows
        BY <1>1, <1>2, <2>2, <2>3 DEF CountInv
    <2>4. CASE i \notin DOMAIN d.rows
        <3>1. Count(d, i) = 0
            BY <1>1, <2>4 DEF Count, ReadyInv
        <3>2. ASSUME NEW s \in Saved(d), e.rows[i].hash \in Tops[d.snaps[s].hash] PROVE FALSE
            <4>1. d.snaps[s].hash \in Hash
                <5>1. d.snaps \in Seq(Snap) /\ s \in 1..Len(d.snaps)
                    BY <1>1, <3>2 DEF IsTables, Saved
                <5>2. d.snaps[s] \in Snap
                    BY <5>1
                <5> QED  BY <5>2 DEF Snap
            <4>2. IsReady(d, e.rows[i].hash)
                BY <1>1, <3>2, <4>1, TopsFacts DEF ThereInv
            <4> QED  BY <1>2, <2>4, <4>2 DEF IsReady, Located
        <3>3. Refs(d, Saved(d), e.rows[i].hash) = {}
            BY <3>2 DEF Refs
        <3> QED  BY <2>2, <3>1, <3>3, FS_EmptySet
    <2> QED  BY <2>3, <2>4
<1>11. FromInv(e)
    BY <1>1, <1>2, <1>3 DEF FromInv
<1>12. ChildInv(e, c)
    BY <1>1, <1>2 DEF ChildInv, Linked
<1> QED  BY <1>3, <1>5, <1>6, <1>8, <1>9, <1>10, <1>11, <1>12 DEF Good

\* The queue grows along with the table.
LEMMA QueueGrownKeeps ==
    ASSUME NEW d, NEW n \in Nat, IsTables(d, n), NEW c,
           NEW q, QueueInv(d, q, c), FrontInv(q),
           NEW e, NEW m \in Nat, NEW H, Grown(d, e, n, m, H), NEW p, QueueGrown(d, e, q, p)
    PROVE  QueueInv(e, p, c) /\ FrontInv(p)
<1>1. /\ e = [rows |-> e.rows, cnt |-> d.cnt, snaps |-> d.snaps, blobs |-> d.blobs]
      /\ DOMAIN d.rows \subseteq DOMAIN e.rows
      /\ \A i \in DOMAIN d.rows : e.rows[i] = d.rows[i]
      /\ \A i \in DOMAIN e.rows \ DOMAIN d.rows : i \in (n + 1)..m /\ ~e.rows[i].ready
    BY DEF Grown
<1>2. /\ p \in [DOMAIN p -> Waiting]
      /\ DOMAIN p = DOMAIN q \cup (DOMAIN e.rows \ DOMAIN d.rows)
      /\ \A i \in DOMAIN q : p[i] = q[i]
      /\ \A i \in DOMAIN e.rows \ DOMAIN d.rows : ~p[i].complete
    BY DEF QueueGrown
<1>3. /\ DOMAIN q = {i \in DOMAIN d.rows : ~d.rows[i].ready}
      /\ \A i \in DOMAIN q : q[i].complete =>
            /\ BlobOf[d.rows[i].hash] \in DOMAIN d.blobs
            /\ ~c => Linked(d, d.rows[i].hash, q[i].childs)
    BY DEF QueueInv
<1>4. DOMAIN p = {i \in DOMAIN e.rows : ~e.rows[i].ready}
    BY <1>1, <1>2, <1>3
<1>5. e.blobs = d.blobs
    BY <1>1
<1>6. ASSUME NEW i \in DOMAIN p, p[i].complete
      PROVE  /\ BlobOf[e.rows[i].hash] \in DOMAIN e.blobs
             /\ ~c => Linked(e, e.rows[i].hash, p[i].childs)
    <2>1. i \in DOMAIN q /\ p[i] = q[i] /\ i \in DOMAIN d.rows /\ e.rows[i] = d.rows[i]
        BY <1>1, <1>2, <1>3, <1>6
    <2>2. ~c => Linked(d, d.rows[i].hash, q[i].childs)
        BY <1>3, <1>6, <2>1
    <2> QED  BY <1>1, <1>3, <1>5, <1>6, <2>1, <2>2 DEF Linked
<1>7. QueueInv(e, p, c)
    BY <1>2, <1>4, <1>6 DEF QueueInv
<1>8. FrontInv(p)
    <2>1. SUFFICES ASSUME NEW i \in DOMAIN p PROVE \E j \in DOMAIN p : j <= i /\ ~p[j].complete
        BY DEF FrontInv
    <2>2. CASE i \in DOMAIN q
        <3>1. PICK j \in DOMAIN q : j <= i /\ ~q[j].complete
            BY <2>2 DEF FrontInv
        <3> QED  BY <1>2, <3>1
    <2>3. CASE i \notin DOMAIN q
        <3>1. i \in (n + 1)..m /\ ~p[i].complete
            BY <1>1, <1>2, <2>3
        <3>2. i <= i
            BY <3>1
        <3> QED  BY <3>1, <3>2
    <2> QED  BY <2>2, <2>3
<1> QED  BY <1>7, <1>8

-----------------------------------------------------------------------------
\* The hash index: commit.

\* What is popped from a queue: all before the first entry that is incomplete.
Popped(q) == {j \in DOMAIN q : \A k \in DOMAIN q : k <= j => q[k].complete}

\* e is d with the rows in P ready, and the children that q has for them.
Committed(d, e, q, P) ==
    /\ e = [rows |-> e.rows, cnt |-> d.cnt, snaps |-> d.snaps, blobs |-> d.blobs]
    /\ e.rows \in [DOMAIN d.rows -> Row]
    /\ \A j \in DOMAIN d.rows : e.rows[j].hash = d.rows[j].hash
    /\ \A j \in P : e.rows[j].ready /\ e.rows[j].childs = q[j].childs
    /\ \A j \in DOMAIN d.rows \ P : e.rows[j] = d.rows[j]

\* x is a state of the hash index in which the entry of i is to be committed, and
\* y the one in which it is: w is the queue before it is popped.
Committing(d, n, q, i, ids, m, x) ==
    /\ n \in Nat /\ IsTables(d, n)
    /\ q \in [DOMAIN q -> Waiting] /\ DOMAIN q \subseteq DOMAIN d.rows
    /\ i \in DOMAIN q /\ ids \in Ids
    /\ x = [db |-> d, queue |-> q, next |-> m]

IsCommitted(d, q, i, ids, m, y, w) ==
    /\ w \in [DOMAIN q -> Waiting] /\ w[i].complete /\ w[i].childs = ids
    /\ \A j \in DOMAIN q \ {i} : w[j] = q[j]
    /\ y = [db |-> y.db, queue |-> y.queue, next |-> m]
    /\ Committed(d, y.db, w, Popped(w))
    /\ y.queue = [j \in DOMAIN w \ Popped(w) |-> w[j]]

\* commit completes the entry and pops.
LEMMA CommitEffect ==
    ASSUME NEW d, NEW n, NEW q, NEW i, NEW ids, NEW m, NEW x,
           Committing(d, n, q, i, ids, m, x)
    PROVE  \E w : IsCommitted(d, q, i, ids, m, Commit(x, i, ids), w)
<1> SUFFICES ASSUME n \in Nat, IsTables(d, n),
                    q \in [DOMAIN q -> Waiting], DOMAIN q \subseteq DOMAIN d.rows,
                    i \in DOMAIN q, ids \in Ids,
                    x = [db |-> d, queue |-> q, next |-> m],
                    NEW y, y = Commit(x, i, ids)
             PROVE  \E w :
                /\ w \in [DOMAIN q -> Waiting] /\ w[i].complete /\ w[i].childs = ids
                /\ \A j \in DOMAIN q \ {i} : w[j] = q[j]
                /\ y = [db |-> y.db, queue |-> y.queue, next |-> m]
                /\ Committed(d, y.db, w, Popped(w))
                /\ y.queue = [j \in DOMAIN w \ Popped(w) |-> w[j]]
    BY Zenon DEF Committing, IsCommitted
<1>1. PICK w : w = With(q, i, [childs |-> ids, complete |-> TRUE])
    OBVIOUS
<1>2. w = [j \in DOMAIN q |-> IF j = i THEN [childs |-> ids, complete |-> TRUE] ELSE q[j]]
    <2>1. DOMAIN q \cup {i} = DOMAIN q
        OBVIOUS
    <2> QED  BY <1>1, <2>1 DEF With
<1>3. DOMAIN w = DOMAIN q /\ w[i].complete /\ w[i].childs = ids /\ \A j \in DOMAIN q \ {i} : w[j] = q[j]
    BY <1>2
<1>4. w \in [DOMAIN q -> Waiting]
    <2>1. [childs |-> ids, complete |-> TRUE] \in Waiting
        BY DEF Waiting
    <2>2. \A j \in DOMAIN q : q[j] \in Waiting
        OBVIOUS
    <2> QED  BY <1>2, <2>1, <2>2
<1>5. PICK P : P = Popped(w)
    OBVIOUS
<1>6. P \subseteq DOMAIN d.rows
    BY <1>3, <1>5 DEF Popped
<1>7. PICK R : R = [j \in DOMAIN d.rows |->
                    IF j \in P THEN [d.rows[j] EXCEPT !.ready = TRUE, !.childs = w[j].childs]
                               ELSE d.rows[j]]
    OBVIOUS
<1>8. y = [db |-> [d EXCEPT !.rows = R], queue |-> [j \in DOMAIN w \ P |-> w[j]], next |-> m]
    <2>1. x.db = d /\ x.queue = q /\ x.next = m
        OBVIOUS
    <2> QED  BY <1>1, <1>5, <1>7, <2>1 DEF Commit, Popped
<1>9. [d EXCEPT !.rows = R] = [rows |-> R, cnt |-> d.cnt, snaps |-> d.snaps, blobs |-> d.blobs]
    BY SMTT(30) DEF IsTables
<1>10. /\ y.db = [rows |-> R, cnt |-> d.cnt, snaps |-> d.snaps, blobs |-> d.blobs]
       /\ y.db.rows = R /\ y = [db |-> y.db, queue |-> y.queue, next |-> m]
       /\ y.queue = [j \in DOMAIN w \ P |-> w[j]]
    BY <1>8, <1>9
<1>11. ASSUME NEW j \in P
       PROVE  R[j] \in Row /\ R[j].hash = d.rows[j].hash /\ R[j].ready /\ R[j].childs = w[j].childs
    <2>1. d.rows[j] \in Row
        BY <1>6 DEF IsTables
    <2>2. w[j].childs \in Ids
        <3>1. w[j] \in Waiting
            BY <1>3, <1>4, <1>5 DEF Popped
        <3> QED  BY <3>1 DEF Waiting
    <2>3. R[j] = [d.rows[j] EXCEPT !.ready = TRUE, !.childs = w[j].childs]
        BY <1>6, <1>7
    <2>4. PICK v, r, k : v = R[j] /\ r = d.rows[j] /\ k = w[j].childs
        OBVIOUS
    <2>5. r \in Row /\ k \in Ids /\ v = [r EXCEPT !.ready = TRUE, !.childs = k]
        BY <2>1, <2>2, <2>3, <2>4
    <2>6. v \in Row /\ v.hash = r.hash /\ v.ready /\ v.childs = k
        BY <2>5 DEF Row
    <2> QED  BY <2>4, <2>6
<1>12. \A j \in DOMAIN d.rows \ P : R[j] = d.rows[j] /\ R[j] \in Row
    BY <1>7 DEF IsTables
<1>13. R \in [DOMAIN d.rows -> Row]
    BY <1>7, <1>11, <1>12
<1>14. Committed(d, y.db, w, P)
    <2>1. \A j \in DOMAIN d.rows : R[j].hash = d.rows[j].hash
        BY <1>11, <1>12
    <2>2. \A j \in P : R[j].ready /\ R[j].childs = w[j].childs
        BY <1>11
    <2> QED  BY <1>10, <1>12, <1>13, <2>1, <2>2 DEF Committed
<1> QED  BY <1>3, <1>4, <1>5, <1>10, <1>14

\* The queue w is popped to p, and the tables go from d to e.
Popping(d, n, c, w, e, p) ==
    /\ n \in Nat /\ c \in BOOLEAN /\ Good(d, n, c, Saved(d)) /\ QueueInv(d, w, c)
    /\ Committed(d, e, w, Popped(w))
    /\ p = [j \in DOMAIN w \ Popped(w) |-> w[j]]

\* Popping what is complete keeps the tables good, and leaves an incomplete
\* entry in front.
LEMMA CommittedKeeps ==
    ASSUME NEW d, NEW n, NEW c, NEW w, NEW e, NEW p, Popping(d, n, c, w, e, p)
    PROVE  /\ Good(e, n, c, Saved(e)) /\ e.snaps = d.snaps /\ e.blobs = d.blobs
           /\ QueueInv(e, p, c) /\ FrontInv(p)
<1> SUFFICES ASSUME n \in Nat, c \in BOOLEAN, Good(d, n, c, Saved(d)), QueueInv(d, w, c),
                    NEW P, P = Popped(w),
                    Committed(d, e, w, P), p = [j \in DOMAIN w \ P |-> w[j]]
             PROVE  /\ Good(e, n, c, Saved(e)) /\ e.snaps = d.snaps /\ e.blobs = d.blobs
                    /\ QueueInv(e, p, c) /\ FrontInv(p)
    BY Zenon DEF Popping
<1>1. /\ IsTables(d, n) /\ Unique(d) /\ ThereInv(d) /\ ReadyInv(d)
      /\ CountInv(d, Saved(d)) /\ FromInv(d) /\ ChildInv(d, c)
    BY DEF Good
<1>2. /\ e = [rows |-> e.rows, cnt |-> d.cnt, snaps |-> d.snaps, blobs |-> d.blobs]
      /\ e.rows \in [DOMAIN d.rows -> Row]
      /\ \A j \in DOMAIN d.rows : e.rows[j].hash = d.rows[j].hash
      /\ \A j \in P : e.rows[j].ready /\ e.rows[j].childs = w[j].childs
      /\ \A j \in DOMAIN d.rows \ P : e.rows[j] = d.rows[j]
    BY DEF Committed
<1>3. /\ DOMAIN w = {i \in DOMAIN d.rows : ~d.rows[i].ready}
      /\ w \in [DOMAIN w -> Waiting]
      /\ \A i \in DOMAIN w : w[i].complete =>
            /\ BlobOf[d.rows[i].hash] \in DOMAIN d.blobs
            /\ ~c => Linked(d, d.rows[i].hash, w[i].childs)
    BY DEF QueueInv
<1>4. e.cnt = d.cnt /\ e.snaps = d.snaps /\ e.blobs = d.blobs /\ DOMAIN e.rows = DOMAIN d.rows
    BY <1>2
<1>5. Saved(e) = Saved(d)
    BY <1>4 DEF Saved
<1>6. P \subseteq DOMAIN w /\ P \subseteq DOMAIN d.rows /\ \A j \in P : w[j].complete
    <2>1. ASSUME NEW j \in P PROVE j \in DOMAIN w /\ w[j].complete
        <3>1. j \in DOMAIN w /\ \A k \in DOMAIN w : k <= j => w[k].complete
            BY DEF Popped
        <3>2. j \in 1..n
            BY <1>1, <1>3, <3>1 DEF IsTables
        <3>3. j <= j
            BY <3>2
        <3> QED  BY <3>1, <3>3
    <2> QED  BY <1>3, <2>1
<1>7. IsTables(e, n)
    BY <1>1, <1>2, <1>4 DEF IsTables
<1>8. Unique(e)
    BY <1>1, <1>2, <1>4 DEF Unique
<1>9. \A i \in DOMAIN d.rows : d.rows[i].ready => i \notin P /\ e.rows[i] = d.rows[i]
    BY <1>2, <1>3, <1>6
<1>10. ThereInv(e)
    <2>1. \A h : IsReady(d, h) => IsReady(e, h)
        BY <1>4, <1>9 DEF IsReady
    <2> QED  BY <1>1, <1>4, <1>5, <2>1 DEF ThereInv
<1>11. ReadyInv(e)
    <2>1. ASSUME NEW i \in DOMAIN e.rows, e.rows[i].ready
          PROVE  BlobOf[e.rows[i].hash] \in DOMAIN e.blobs
        BY <1>1, <1>2, <1>3, <1>4, <1>6, <2>1 DEF ReadyInv
    <2>2. ASSUME NEW i \in DOMAIN e.cnt PROVE i \in DOMAIN e.rows /\ e.rows[i].ready
        BY <1>1, <1>4, <1>9 DEF ReadyInv
    <2> QED  BY <2>1, <2>2 DEF ReadyInv
<1>12. CountInv(e, Saved(e))
    <2>1. \A i : Count(e, i) = Count(d, i)
        BY <1>4 DEF Count
    <2>2. \A h : Refs(e, Saved(d), h) = Refs(d, Saved(d), h)
        BY <1>4 DEF Refs
    <2> QED  BY <1>1, <1>2, <1>4, <1>5, <2>1, <2>2 DEF CountInv
<1>13. FromInv(e)
    BY <1>1, <1>2, <1>4 DEF FromInv
<1>14. \A h, ids : Linked(d, h, ids) => Linked(e, h, ids)
    BY <1>2, <1>4 DEF Linked
<1>15. ChildInv(e, c)
    <2>1. SUFFICES ASSUME ~c, NEW i \in DOMAIN e.rows, e.rows[i].ready
                   PROVE  Linked(e, e.rows[i].hash, e.rows[i].childs)
        BY DEF ChildInv
    <2>2. CASE i \in P
        <3>1. Linked(d, d.rows[i].hash, w[i].childs)
            BY <1>3, <1>6, <2>1, <2>2
        <3> QED  BY <1>2, <1>6, <1>14, <2>2, <3>1
    <2>3. CASE i \notin P
        <3>1. e.rows[i] = d.rows[i] /\ i \in DOMAIN d.rows
            BY <1>2, <1>4, <2>3
        <3>2. Linked(d, d.rows[i].hash, d.rows[i].childs)
            BY <1>1, <2>1, <3>1 DEF ChildInv
        <3> QED  BY <1>14, <3>1, <3>2
    <2> QED  BY <2>2, <2>3
<1>16. DOMAIN p = DOMAIN w \ P /\ \A j \in DOMAIN p : p[j] = w[j] /\ p[j] \in Waiting
    BY <1>3
<1>17. QueueInv(e, p, c)
    <2>1. DOMAIN p = {i \in DOMAIN e.rows : ~e.rows[i].ready}
        BY <1>2, <1>3, <1>4, <1>6, <1>16
    <2>2. p \in [DOMAIN p -> Waiting]
        BY <1>16
    <2>3. ASSUME NEW i \in DOMAIN p, p[i].complete
          PROVE  /\ BlobOf[e.rows[i].hash] \in DOMAIN e.blobs
                 /\ ~c => Linked(e, e.rows[i].hash, p[i].childs)
        <3>1. i \in DOMAIN w /\ w[i].complete /\ p[i] = w[i] /\ e.rows[i].hash = d.rows[i].hash
            BY <1>2, <1>3, <1>16, <2>3
        <3> QED  BY <1>3, <1>4, <1>14, <3>1
    <2> QED  BY <2>1, <2>2, <2>3 DEF QueueInv
<1>18. FrontInv(p)
    <2>1. SUFFICES ASSUME NEW j \in DOMAIN p PROVE \E k \in DOMAIN p : k <= j /\ ~p[k].complete
        BY DEF FrontInv
    <2>2. j \in DOMAIN w /\ j \notin P
        BY <1>16
    <2>3. PICK k \in DOMAIN w : k <= j /\ ~w[k].complete
        BY <2>2 DEF Popped
    <2>4. k \notin P
        BY <1>6, <2>3
    <2> QED  BY <1>16, <2>3, <2>4
<1> QED  BY <1>4, <1>7, <1>8, <1>10, <1>11, <1>12, <1>13, <1>15, <1>17, <1>18 DEF Good

-----------------------------------------------------------------------------
\* recover_entry.

\* A hash that is in the index is found under its one id.
LEMMA GetIdFinds ==
    ASSUME NEW d, Unique(d), NEW h, Located(d, h)
    PROVE  /\ GetId(d, h) \in DOMAIN d.rows /\ d.rows[GetId(d, h)].hash = h
           /\ \A i \in DOMAIN d.rows : d.rows[i].hash = h => i = GetId(d, h)
BY DEF Unique, Located, GetId

\* A tuple is a sequence.
LEMMA TupleIsSeq ==
    ASSUME NEW S, NEW L \in Nat, NEW f \in [1..L -> S]
    PROVE  f \in Seq(S) /\ Len(f) = L /\ DOMAIN f = 1..L
OBVIOUS

\* The hashes that recover_entry reserves.
LEMMA ToReserve ==
    ASSUME NEW h \in Hash
    PROVE  /\ Append(Kids[h], h) \in Seq(Hash)
           /\ Range(Append(Kids[h], h)) = Range(Kids[h]) \cup {h}
           /\ \A n \in 1..Len(Kids[h]) : Kids[h][n] \in Range(Kids[h])
<1>1. PICK q \in Seq(Hash) : q = Kids[h]
    BY Constants
<1>2. /\ Append(q, h) \in Seq(Hash) /\ Len(q) \in Nat
      /\ DOMAIN q = 1..Len(q) /\ DOMAIN Append(q, h) = 1..(Len(q) + 1)
      /\ \A k \in 1..Len(q) : Append(q, h)[k] = q[k]
      /\ Append(q, h)[Len(q) + 1] = h
    OBVIOUS
<1>3. Range(Append(q, h)) = Range(q) \cup {h}
    <2>1. ASSUME NEW k \in 1..(Len(q) + 1) PROVE Append(q, h)[k] \in Range(q) \cup {h}
        BY <1>2 DEF Range
    <2>2. ASSUME NEW k \in 1..Len(q) PROVE q[k] \in Range(Append(q, h))
        <3>1. k \in 1..(Len(q) + 1) /\ Append(q, h)[k] = q[k]
            BY <1>2
        <3> QED  BY <1>2, <3>1 DEF Range
    <2>3. h \in Range(Append(q, h))
        BY <1>2 DEF Range
    <2> QED  BY <1>2, <2>1, <2>2, <2>3 DEF Range
<1>4. \A n \in 1..Len(q) : q[n] \in Range(q)
    BY <1>2 DEF Range
<1> QED  BY <1>1, <1>2, <1>3, <1>4

\* The table and the queue after h has been visited: h is complete or ready, the
\* rest of the new rows are for hashes of H.
Advanced(d, q, e, p, h, H) ==
    /\ DOMAIN d.rows \subseteq DOMAIN e.rows
    /\ \A j \in DOMAIN d.rows : e.rows[j].hash = d.rows[j].hash
    /\ \A j \in DOMAIN e.rows \ DOMAIN d.rows : e.rows[j].hash \in H
    /\ \E i \in DOMAIN e.rows : e.rows[i].hash = h /\ (i \in DOMAIN p => p[i].complete)
    /\ \A j \in DOMAIN p \cap DOMAIN d.rows : j \in DOMAIN q /\ (q[j].complete => p[j].complete)

\* x is a state of the hash index in which the entry of h, a hash of the snapshot
\* s0, is to be recovered, and y the one in which it is.
EntryDue(d, n, c, q, h, s0, x) ==
    /\ n \in Nat /\ c \in BOOLEAN /\ Good(d, n, c, Saved(d))
    /\ QueueInv(d, q, c) /\ FrontInv(q)
    /\ h \in Hash /\ BlobOf[h] \in DOMAIN d.blobs
    /\ s0 \in 1..Len(d.snaps) /\ h \in Need[d.snaps[s0].hash]
    /\ x = [db |-> d, queue |-> q, next |-> n]

EntryRecovered(d, n, c, q, h, x, y) ==
    /\ y.next = n + Cardinality(NewOf(x, Append(Kids[h], h)))
    /\ y.next \in Nat /\ n <= y.next
    /\ Good(y.db, y.next, c, Saved(y.db))
    /\ y.db.snaps = d.snaps /\ y.db.blobs = d.blobs
    /\ QueueInv(y.db, y.queue, c) /\ FrontInv(y.queue)
    /\ Advanced(d, q, y.db, y.queue, h, Range(Kids[h]) \cup {h})

\* recover_entry keeps the index good.
LEMMA RecoverEntry ==
    ASSUME NEW d, NEW n, NEW c, NEW q, NEW h, NEW s0, NEW x, EntryDue(d, n, c, q, h, s0, x)
    PROVE  EntryRecovered(d, n, c, q, h, x, Recovered(ReserveAll(x, Append(Kids[h], h)), h))
<1> SUFFICES ASSUME n \in Nat, c \in BOOLEAN, Good(d, n, c, Saved(d)),
                    QueueInv(d, q, c), FrontInv(q),
                    h \in Hash, BlobOf[h] \in DOMAIN d.blobs,
                    s0 \in 1..Len(d.snaps), h \in Need[d.snaps[s0].hash],
                    x = [db |-> d, queue |-> q, next |-> n],
                    NEW r, r = ReserveAll(x, Append(Kids[h], h)),
                    NEW y, y = Recovered(r, h)
             PROVE  /\ y.next = n + Cardinality(NewOf(x, Append(Kids[h], h)))
                    /\ y.next \in Nat /\ n <= y.next
                    /\ Good(y.db, y.next, c, Saved(y.db))
                    /\ y.db.snaps = d.snaps /\ y.db.blobs = d.blobs
                    /\ QueueInv(y.db, y.queue, c) /\ FrontInv(y.queue)
                    /\ Advanced(d, q, y.db, y.queue, h, Range(Kids[h]) \cup {h})
    BY Zenon DEF EntryDue, EntryRecovered
<1> DEFINE hs == Append(Kids[h], h)
<1>1. /\ IsTables(d, n) /\ q \in [DOMAIN q -> Waiting]
      /\ DOMAIN q = {i \in DOMAIN d.rows : ~d.rows[i].ready}
    BY DEF Good, QueueInv
<1>2. DOMAIN q \subseteq DOMAIN d.rows
    BY <1>1
<1>3. hs \in Seq(Hash) /\ Range(hs) = Range(Kids[h]) \cup {h}
    BY ToReserve
<1>4. /\ r = [db |-> r.db, queue |-> r.queue, next |-> r.next]
      /\ r.next = n + Cardinality(NewOf(x, hs)) /\ Cardinality(NewOf(x, hs)) \in Nat
      /\ Grown(d, r.db, n, r.next, Range(hs))
      /\ QueueGrown(d, r.db, q, r.queue)
      /\ \A g \in Range(hs) : Located(r.db, g)
    <2> HIDE DEF hs
    <2>1. r = ReserveAll(x, hs)
        BY DEF hs
    <2>2. IsTables(d, n) /\ q \in [DOMAIN q -> Waiting] /\ DOMAIN q \subseteq DOMAIN d.rows
        BY <1>1, <1>2
    <2>3. hs \in Seq(Hash)
        BY <1>3
    <2>4. Reserving(d, n, q, hs, x)
        BY <2>2, <2>3 DEF Reserving
    <2>5. IsReserved(d, n, q, hs, x, r)
        BY <2>1, <2>4, ReserveEffect, Zenon
    <2> QED  BY <2>5, Zenon DEF IsReserved
<1>5. r.next \in Nat /\ n <= r.next
    BY <1>4
<1>6. Range(hs) \subseteq Need[d.snaps[s0].hash]
    <2>1. d.snaps[s0] \in Snap
        BY <1>1 DEF IsTables
    <2>2. d.snaps[s0].hash \in Hash
        BY <2>1 DEF Snap
    <2> QED  BY <1>3, <2>2, NeedClosed DEF Below
<1>7. Good(r.db, r.next, c, Saved(r.db)) /\ r.db.snaps = d.snaps /\ r.db.blobs = d.blobs
    <2>1. Grown(d, r.db, n, r.next, Range(hs))
        BY <1>4
    <2> HIDE DEF hs
    <2>2. PICK e, m, H : e = r.db /\ m = r.next /\ H = Range(hs)
        OBVIOUS
    <2>3. m \in Nat /\ n <= m /\ Grown(d, e, n, m, H) /\ H \subseteq Need[d.snaps[s0].hash]
        BY <1>5, <1>6, <2>1, <2>2
    <2>4. Good(e, m, c, Saved(e)) /\ e.snaps = d.snaps /\ e.blobs = d.blobs
        BY <2>3, GrownKeeps, SMTT(30)
    <2> QED  BY <2>2, <2>4
<1>8. QueueInv(r.db, r.queue, c) /\ FrontInv(r.queue)
    BY <1>1, <1>4, <1>5, QueueGrownKeeps
<1>9. /\ DOMAIN d.rows \subseteq DOMAIN r.db.rows
      /\ \A j \in DOMAIN d.rows : r.db.rows[j] = d.rows[j]
      /\ \A j \in DOMAIN r.db.rows \ DOMAIN d.rows : r.db.rows[j].hash \in Range(hs)
    BY <1>4 DEF Grown
<1>10. /\ DOMAIN r.queue = DOMAIN q \cup (DOMAIN r.db.rows \ DOMAIN d.rows)
       /\ \A i \in DOMAIN q : r.queue[i] = q[i]
    BY <1>4 DEF QueueGrown
<1>11. PICK i : i = GetId(r.db, h)
    OBVIOUS
<1>12. IsTables(r.db, r.next) /\ Unique(r.db)
    BY <1>7 DEF Good
<1>13. i \in DOMAIN r.db.rows /\ r.db.rows[i].hash = h
    BY <1>3, <1>4, <1>11, <1>12, GetIdFinds
<1>14. CASE i \notin DOMAIN r.queue
    <2>1. y = r
        BY <1>11, <1>14 DEF Recovered
    <2>2. Advanced(d, q, r.db, r.queue, h, Range(hs))
        BY <1>2, <1>9, <1>10, <1>13, <1>14 DEF Advanced
    <2> QED  BY <1>3, <1>4, <1>5, <1>7, <1>8, <2>1, <2>2
<1>15. CASE i \in DOMAIN r.queue
    <2>1. PICK ids : ids = ChildIds(r, h)
        OBVIOUS
    <2>2. y = Commit(r, i, ids)
        BY <1>11, <1>15, <2>1 DEF Recovered
    <2>3. ASSUME NEW k \in 1..Len(Kids[h])
          PROVE  /\ ids[k] \in DOMAIN r.db.rows /\ r.db.rows[ids[k]].hash = Kids[h][k]
                 /\ ids[k] \in Nat
        <3>1. Located(r.db, Kids[h][k])
            BY <1>3, <1>4, ToReserve
        <3>2. ids[k] = GetId(r.db, Kids[h][k])
            BY <2>1 DEF ChildIds
        <3>3. ids[k] \in DOMAIN r.db.rows /\ r.db.rows[ids[k]].hash = Kids[h][k]
            BY <1>12, <3>1, <3>2, GetIdFinds
        <3>4. ids[k] \in 1..r.next
            BY <1>12, <3>3 DEF IsTables
        <3> QED  BY <3>3, <3>4
    <2>4. Len(Kids[h]) \in Nat
        BY Constants
    <2>5. ids \in Ids /\ Len(ids) = Len(Kids[h])
        <3>1. DOMAIN ids = 1..Len(Kids[h]) /\ ids = [k \in DOMAIN ids |-> ids[k]]
            BY <2>1 DEF ChildIds
        <3>2. ids \in [1..Len(Kids[h]) -> Nat]
            BY <2>3, <3>1
        <3> QED  BY <2>4, <3>2, TupleIsSeq DEF Ids
    <2>6. Linked(r.db, h, ids)
        BY <2>3, <2>5 DEF Linked
    <2>7. r.queue \in [DOMAIN r.queue -> Waiting] /\ DOMAIN r.queue \subseteq DOMAIN r.db.rows
        BY <1>8 DEF QueueInv
    <2>8. PICK w :
            /\ w \in [DOMAIN r.queue -> Waiting] /\ w[i].complete /\ w[i].childs = ids
            /\ \A j \in DOMAIN r.queue \ {i} : w[j] = r.queue[j]
            /\ y = [db |-> y.db, queue |-> y.queue, next |-> r.next]
            /\ Committed(r.db, y.db, w, Popped(w))
            /\ y.queue = [j \in DOMAIN w \ Popped(w) |-> w[j]]
        <3>1. r = [db |-> r.db, queue |-> r.queue, next |-> r.next]
            BY <1>4
        <3>2. IsTables(r.db, r.next) /\ r.next \in Nat /\ ids \in Ids
            BY <1>5, <1>12, <2>5
        <3>3. Committing(r.db, r.next, r.queue, i, ids, r.next, r)
            BY <1>15, <2>7, <3>1, <3>2, Zenon DEF Committing
        <3>4. \E w : IsCommitted(r.db, r.queue, i, ids, r.next, y, w)
            BY <2>2, <3>3, CommitEffect, SMTT(30)
        <3> QED  BY <3>4, Zenon DEF IsCommitted
    <2>9. QueueInv(r.db, w, c)
        <3>1. DOMAIN w = DOMAIN r.queue
            BY <2>8
        <3>2. DOMAIN w = {j \in DOMAIN r.db.rows : ~r.db.rows[j].ready}
            BY <1>8, <3>1 DEF QueueInv
        <3>3. ASSUME NEW j \in DOMAIN w, w[j].complete
              PROVE  /\ BlobOf[r.db.rows[j].hash] \in DOMAIN r.db.blobs
                     /\ ~c => Linked(r.db, r.db.rows[j].hash, w[j].childs)
            <4>1. CASE j = i
                BY <1>7, <1>13, <2>6, <2>8, <4>1
            <4>2. CASE j # i
                <5>1. w[j] = r.queue[j] /\ j \in DOMAIN r.queue
                    BY <2>8, <3>1, <4>2
                <5> QED  BY <1>8, <3>3, <5>1 DEF QueueInv
            <4> QED  BY <4>1, <4>2
        <3> QED  BY <2>8, <3>1, <3>2, <3>3 DEF QueueInv
    <2>10. /\ Good(y.db, r.next, c, Saved(y.db))
           /\ y.db.snaps = r.db.snaps /\ y.db.blobs = r.db.blobs
           /\ QueueInv(y.db, y.queue, c) /\ FrontInv(y.queue)
        <3>1. Good(r.db, r.next, c, Saved(r.db)) /\ r.next \in Nat
            BY <1>5, <1>7
        <3>2. /\ Committed(r.db, y.db, w, Popped(w))
              /\ y.queue = [j \in DOMAIN w \ Popped(w) |-> w[j]]
            BY <2>8
        <3>3. Popping(r.db, r.next, c, w, y.db, y.queue)
            BY <2>9, <3>1, <3>2, Zenon DEF Popping
        <3> QED  BY <3>3, CommittedKeeps
    <2>11. y.next = r.next
        BY <2>8
    <2>12. Advanced(d, q, y.db, y.queue, h, Range(hs))
        <3>1. /\ DOMAIN y.db.rows = DOMAIN r.db.rows
              /\ \A j \in DOMAIN r.db.rows : y.db.rows[j].hash = r.db.rows[j].hash
            BY <2>8 DEF Committed
        <3>2. DOMAIN y.queue \subseteq DOMAIN r.queue /\ \A j \in DOMAIN y.queue : y.queue[j] = w[j]
            BY <2>8
        <3>3. \A j \in DOMAIN y.queue : r.queue[j].complete => y.queue[j].complete
            BY <2>8, <3>2
        <3>4. i \in DOMAIN y.queue => y.queue[i].complete
            BY <2>8, <3>2
        <3>5. \A j \in DOMAIN y.queue \cap DOMAIN d.rows : j \in DOMAIN q /\ (q[j].complete => y.queue[j].complete)
            BY <1>10, <3>2, <3>3
        <3> QED  BY <1>9, <1>13, <3>1, <3>4, <3>5 DEF Advanced
    <2> QED  BY <1>3, <1>4, <1>5, <1>7, <2>10, <2>11, <2>12
<1> QED  BY <1>14, <1>15

\* What the timer saves in the middle of recover_entry is good too.
LEMMA FlushedKeeps ==
    ASSUME NEW d, NEW n \in Nat, NEW c, Good(d, n, c, Saved(d)),
           NEW q, QueueInv(d, q, c),
           NEW hs \in Seq(Hash),
           NEW s0 \in 1..Len(d.snaps), Range(hs) \subseteq Need[d.snaps[s0].hash],
           NEW x, x = [db |-> d, queue |-> q, next |-> n],
           NEW e \in FlushedIn(x, hs)
    PROVE  /\ Good(e, n + Cardinality(NewOf(x, hs)), c, Saved(e))
           /\ e.snaps = d.snaps /\ e.blobs = d.blobs
<1>1. PICK k \in NewOf(x, hs) : e = ReserveAll(x, SubSeq(hs, 1, k - 1)).db
    BY DEF FlushedIn
<1>2. k \in 1..Len(hs) /\ Len(hs) \in Nat /\ NewOf(x, hs) \subseteq 1..Len(hs)
    BY DEF NewOf
<1>3. PICK gs : gs = SubSeq(hs, 1, k - 1)
    OBVIOUS
<1>4. gs \in Seq(Hash) /\ Len(gs) = k - 1 /\ \A j \in 1..(k - 1) : gs[j] = hs[j]
    BY <1>2, <1>3
<1>5. PICK y : y = ReserveAll(x, gs)
    OBVIOUS
<1>6. IsTables(d, n) /\ q \in [DOMAIN q -> Waiting] /\ DOMAIN q \subseteq DOMAIN d.rows
    BY DEF Good, QueueInv
<1>7. /\ y.next = n + Cardinality(NewOf(x, gs)) /\ Cardinality(NewOf(x, gs)) \in Nat
      /\ Grown(d, y.db, n, y.next, Range(gs))
    <2>1. gs \in Seq(Hash)
        BY <1>4
    <2>2. Reserving(d, n, q, gs, x)
        BY <1>6, <2>1 DEF Reserving
    <2>3. IsReserved(d, n, q, gs, x, y)
        BY <1>5, <2>2, ReserveEffect, Zenon
    <2> QED  BY <2>3, Zenon DEF IsReserved
<1>8. y.next \in Nat /\ n <= y.next /\ e = y.db
    BY <1>1, <1>3, <1>5, <1>7
<1>9. Range(gs) \subseteq Need[d.snaps[s0].hash]
    <2>1. Range(gs) \subseteq Range(hs)
        <3>1. DOMAIN gs = 1..(k - 1) /\ DOMAIN hs = 1..Len(hs)
            BY <1>4
        <3>2. ASSUME NEW j \in 1..(k - 1) PROVE j \in 1..Len(hs)
            BY <1>2
        <3> QED  BY <1>4, <3>1, <3>2 DEF Range
    <2> QED  BY <2>1
<1>10. Good(e, y.next, c, Saved(e)) /\ e.snaps = d.snaps /\ e.blobs = d.blobs
    <2>1. Grown(d, e, n, y.next, Range(gs))
        BY <1>7, <1>8
    <2> QED  BY <1>8, <1>9, <2>1, GrownKeeps
<1>11. /\ Cardinality(NewOf(x, hs)) \in Nat
       /\ Cardinality(NewOf(x, gs)) <= Cardinality(NewOf(x, hs))
    <2>1. ASSUME NEW j \in NewOf(x, gs) PROVE j \in NewOf(x, hs)
        <3>1. /\ j \in 1..(k - 1) /\ ~Located(x.db, gs[j])
              /\ \A l \in 1..(j - 1) : gs[l] # gs[j]
            BY <1>4 DEF NewOf
        <3>2. j \in 1..Len(hs) /\ \A l \in 1..(j - 1) : l \in 1..(k - 1)
            BY <1>2, <3>1
        <3>3. ~Located(x.db, hs[j]) /\ \A l \in 1..(j - 1) : hs[l] # hs[j]
            BY <1>4, <3>1, <3>2
        <3> QED  BY <3>2, <3>3 DEF NewOf
    <2>2. IsFiniteSet(NewOf(x, hs)) /\ Cardinality(NewOf(x, hs)) \in Nat
        BY <1>2, Places
    <2>3. NewOf(x, gs) \in SUBSET NewOf(x, hs)
        BY <2>1
    <2> QED  BY <2>2, <2>3, FS_Subset
<1>12. PICK m : m = n + Cardinality(NewOf(x, hs))
    OBVIOUS
<1>13. m \in Nat /\ y.next <= m
    BY <1>7, <1>11, <1>12
<1>14. IsTables(e, m)
    <2>1. IsTables(e, y.next)
        BY <1>10 DEF Good
    <2>2. 1..y.next \subseteq 1..m
        BY <1>8, <1>13
    <2> QED  BY <2>1, <2>2 DEF IsTables
<1> QED  BY <1>10, <1>12, <1>14 DEF Good

-----------------------------------------------------------------------------
\* The walk.

\* Two sequences are joined.
LEMMA ConcatRange ==
    ASSUME NEW S, NEW p \in Seq(S), NEW q \in Seq(S)
    PROVE  p \o q \in Seq(S) /\ Range(p \o q) = Range(p) \cup Range(q)
<1>1. /\ Len(p) \in Nat /\ Len(q) \in Nat /\ DOMAIN p = 1..Len(p) /\ DOMAIN q = 1..Len(q)
      /\ p \o q \in Seq(S) /\ DOMAIN (p \o q) = 1..(Len(p) + Len(q))
    OBVIOUS
<1>2. \A k \in 1..(Len(p) + Len(q)) : (p \o q)[k] = IF k <= Len(p) THEN p[k] ELSE q[k - Len(p)]
    OBVIOUS
<1>3. ASSUME NEW k \in 1..Len(p) PROVE p[k] \in Range(p \o q)
    <2>1. k \in 1..(Len(p) + Len(q)) /\ k <= Len(p)
        BY <1>1
    <2> QED  BY <1>1, <1>2, <2>1 DEF Range
<1>4. ASSUME NEW k \in 1..Len(q) PROVE q[k] \in Range(p \o q)
    <2>1. Len(p) + k \in 1..(Len(p) + Len(q)) /\ ~(Len(p) + k <= Len(p)) /\ Len(p) + k - Len(p) = k
        BY <1>1
    <2>2. (p \o q)[Len(p) + k] = q[k]
        BY <1>2, <2>1
    <2> QED  BY <1>1, <2>1, <2>2 DEF Range
<1>5. ASSUME NEW k \in 1..(Len(p) + Len(q)) PROVE (p \o q)[k] \in Range(p) \cup Range(q)
    <2>1. CASE k <= Len(p)
        <3>1. k \in 1..Len(p)
            BY <1>1, <2>1
        <3> QED  BY <1>1, <1>2, <2>1, <3>1 DEF Range
    <2>2. CASE ~(k <= Len(p))
        <3>1. k - Len(p) \in 1..Len(q)
            BY <1>1, <2>2
        <3> QED  BY <1>1, <1>2, <2>2, <3>1 DEF Range
    <2> QED  BY <2>1, <2>2
<1> QED  BY <1>1, <1>3, <1>4, <1>5 DEF Range

\* The head is taken off.
LEMMA HeadTail ==
    ASSUME NEW S, NEW q \in Seq(S), q # <<>>
    PROVE  Head(q) \in S /\ Tail(q) \in Seq(S) /\ Range(q) = {Head(q)} \cup Range(Tail(q))
<1>1. /\ Len(q) \in Nat /\ Len(q) > 0 /\ DOMAIN q = 1..Len(q)
      /\ Head(q) = q[1] /\ Head(q) \in S
      /\ Tail(q) \in Seq(S) /\ DOMAIN Tail(q) = 1..(Len(q) - 1)
      /\ \A k \in 1..(Len(q) - 1) : Tail(q)[k] = q[k + 1]
    OBVIOUS
<1>2. ASSUME NEW k \in 1..Len(q) PROVE q[k] \in {Head(q)} \cup Range(Tail(q))
    <2>1. CASE k = 1
        BY <1>1, <2>1
    <2>2. CASE k # 1
        <3>1. k - 1 \in 1..(Len(q) - 1) /\ (k - 1) + 1 = k
            BY <1>1, <2>2
        <3>2. Tail(q)[k - 1] = q[k]
            BY <1>1, <3>1
        <3> QED  BY <1>1, <3>1, <3>2 DEF Range
    <2> QED  BY <2>1, <2>2
<1>3. ASSUME NEW k \in 1..(Len(q) - 1) PROVE Tail(q)[k] \in Range(q)
    <2>1. k + 1 \in 1..Len(q)
        BY <1>1
    <2> QED  BY <1>1, <2>1 DEF Range
<1>4. Head(q) \in Range(q)
    BY <1>1 DEF Range
<1> QED  BY <1>1, <1>2, <1>3, <1>4 DEF Range

\* A node is visited: what was below it is below what is on the stack now.
LEMMA WalkStep ==
    ASSUME NEW d, NEW q, NEW f \in Hash, NEW st, NEW T, WalkInv(d, q, f, st, T), st # <<>>,
           DOMAIN q \subseteq DOMAIN d.rows,
           NEW h, h = Head(st),
           NEW e, NEW p, Advanced(d, q, e, p, h, Range(Kids[h]) \cup {h}),
           Unique(e), DOMAIN p \subseteq DOMAIN e.rows
    PROVE  WalkInv(e, p, f, Kids[h] \o Lists[h] \o Tail(st), T \cup Range(Lists[h]))
<1>1. /\ st \in Seq(Hash) /\ Range(st) \subseteq Need[f]
      /\ T \subseteq Tops[f]
      /\ \A i \in DOMAIN q : ~q[i].complete => d.rows[i].hash \in Range(st)
      /\ \A k \in Need[f] : Met(d, q, T, k) \/ \E g \in Range(st) : k \in Need[g]
    BY DEF WalkInv
<1>2. h \in Hash /\ Tail(st) \in Seq(Hash) /\ Range(st) = {h} \cup Range(Tail(st))
    BY <1>1, HeadTail
<1>3. Kids[h] \in Seq(Hash) /\ Lists[h] \in Seq(Hash)
    BY <1>2, Constants
<1>4. PICK nx : nx = Kids[h] \o Lists[h] \o Tail(st)
    OBVIOUS
<1>5. nx \in Seq(Hash) /\ Range(nx) = Below(h) \cup Range(Tail(st))
    <2>1. PICK kl : kl = Kids[h] \o Lists[h]
        OBVIOUS
    <2>2. kl \in Seq(Hash) /\ Range(kl) = Range(Kids[h]) \cup Range(Lists[h])
        BY <1>3, <2>1, ConcatRange
    <2>3. nx = kl \o Tail(st)
        BY <1>4, <2>1
    <2>4. nx \in Seq(Hash) /\ Range(nx) = Range(kl) \cup Range(Tail(st))
        <3>1. PICK tl \in Seq(Hash) : tl = Tail(st)
            BY <1>2
        <3>2. kl \in Seq(Hash)
            BY <2>2
        <3>3. kl \o tl \in Seq(Hash) /\ Range(kl \o tl) = Range(kl) \cup Range(tl)
            BY <3>2, ConcatRange
        <3> QED  BY <2>3, <3>1, <3>3
    <2> QED  BY <2>2, <2>4 DEF Below
<1>6. Range(nx) \subseteq Need[f]
    BY <1>1, <1>2, <1>5, NeedClosed
<1>7. T \cup Range(Lists[h]) \subseteq Tops[f]
    BY <1>1, <1>2, TopsFacts
<1>8. /\ DOMAIN d.rows \subseteq DOMAIN e.rows
      /\ \A j \in DOMAIN d.rows : e.rows[j].hash = d.rows[j].hash
      /\ \A j \in DOMAIN e.rows \ DOMAIN d.rows : e.rows[j].hash \in Range(Kids[h]) \cup {h}
      /\ \A j \in DOMAIN p \cap DOMAIN d.rows : j \in DOMAIN q /\ (q[j].complete => p[j].complete)
    BY DEF Advanced
<1>9. PICK i \in DOMAIN e.rows : e.rows[i].hash = h /\ (i \in DOMAIN p => p[i].complete)
    BY DEF Advanced
<1>10. ASSUME NEW j \in DOMAIN p, ~p[j].complete PROVE e.rows[j].hash \in Range(nx)
    <2>1. e.rows[j].hash # h
        BY <1>9, <1>10 DEF Unique
    <2>2. CASE j \in DOMAIN d.rows
        <3>1. j \in DOMAIN q /\ ~q[j].complete
            BY <1>8, <1>10, <2>2
        <3>2. d.rows[j].hash \in Range(st)
            BY <1>1, <3>1
        <3> QED  BY <1>2, <1>5, <1>8, <2>1, <2>2, <3>2
    <2>3. CASE j \notin DOMAIN d.rows
        BY <1>5, <1>8, <2>1, <2>3 DEF Below
    <2> QED  BY <2>2, <2>3
<1>11. ASSUME NEW k \in Need[f]
       PROVE  Met(e, p, T \cup Range(Lists[h]), k) \/ \E g \in Range(nx) : k \in Need[g]
    <2>1. CASE Met(d, q, T, k)
        <3>1. PICK j \in DOMAIN d.rows : d.rows[j].hash = k /\ (j \in DOMAIN q => q[j].complete)
            BY <2>1 DEF Met
        <3>2. j \in DOMAIN e.rows /\ e.rows[j].hash = k /\ (j \in DOMAIN p => p[j].complete)
            BY <1>8, <3>1
        <3>3. Range(Lists[k]) \subseteq T
            BY <2>1 DEF Met
        <3> QED  BY <3>2, <3>3 DEF Met
    <2>2. CASE k \in Need[h]
        <3>1. CASE k = h
            BY <1>9, <3>1 DEF Met
        <3>2. ASSUME NEW g \in Below(h), k \in Need[g] PROVE \E gg \in Range(nx) : k \in Need[gg]
            BY <1>5, <3>2
        <3> QED  BY <1>2, <2>2, <3>1, <3>2, NeedUnfolds
    <2>3. ASSUME NEW g \in Range(Tail(st)), k \in Need[g] PROVE \E gg \in Range(nx) : k \in Need[gg]
        BY <1>5, <2>3
    <2> QED  BY <1>1, <1>2, <2>1, <2>2, <2>3
<1> QED  BY <1>4, <1>5, <1>6, <1>7, <1>10, <1>11 DEF WalkInv

-----------------------------------------------------------------------------
\* Tags and counts.

\* e is d with the tag t on the rows in I.
Retagged(d, e, I, t) ==
    /\ e = [rows |-> e.rows, cnt |-> d.cnt, snaps |-> d.snaps, blobs |-> d.blobs]
    /\ e.rows \in [DOMAIN d.rows -> Row]
    /\ \A i \in DOMAIN d.rows :
        /\ e.rows[i].hash = d.rows[i].hash
        /\ e.rows[i].ready = d.rows[i].ready
        /\ e.rows[i].childs = d.rows[i].childs
        /\ e.rows[i].tag = IF i \in I THEN t ELSE d.rows[i].tag

\* Tagging hashes changes only their tags.
LEMMA SetTagEffect ==
    ASSUME NEW d, NEW n, IsTables(d, n), NEW I, NEW t \in RowTag
    PROVE  Retagged(d, SetTag(d, I, t), I, t)
<1>1. PICK R : R = [i \in DOMAIN d.rows |->
                       IF i \in I THEN [d.rows[i] EXCEPT !.tag = t] ELSE d.rows[i]]
    OBVIOUS
<1>2. PICK e : e = SetTag(d, I, t)
    OBVIOUS
<1>3. e = [d EXCEPT !.rows = R]
    BY <1>1, <1>2 DEF SetTag
<1>4. e = [rows |-> R, cnt |-> d.cnt, snaps |-> d.snaps, blobs |-> d.blobs]
    BY <1>3 DEF IsTables
<1>5. DOMAIN R = DOMAIN d.rows /\ \A i \in DOMAIN d.rows : d.rows[i] \in Row
    BY <1>1 DEF IsTables
<1>6. ASSUME NEW i \in DOMAIN d.rows
      PROVE  /\ R[i] \in Row
             /\ R[i].hash = d.rows[i].hash /\ R[i].ready = d.rows[i].ready
             /\ R[i].childs = d.rows[i].childs
             /\ R[i].tag = IF i \in I THEN t ELSE d.rows[i].tag
    BY <1>1, <1>5 DEF Row
<1>7. R \in [DOMAIN d.rows -> Row]
    BY <1>1, <1>6
<1>8. Retagged(d, e, I, t)
    BY <1>4, <1>6, <1>7 DEF Retagged
<1> QED  BY <1>2, <1>8

\* No part of the invariant is about tags.
LEMMA RetaggedKeeps ==
    ASSUME NEW d, NEW n, NEW c, NEW R, Good(d, n, c, R), NEW e, NEW I, NEW t, Retagged(d, e, I, t)
    PROVE  /\ Good(e, n, c, R)
           /\ e.snaps = d.snaps /\ e.blobs = d.blobs /\ e.cnt = d.cnt /\ Saved(e) = Saved(d)
           /\ \A h : IsReady(d, h) => IsReady(e, h)
<1>1. /\ IsTables(d, n) /\ Unique(d) /\ ThereInv(d) /\ ReadyInv(d)
      /\ CountInv(d, R) /\ FromInv(d) /\ ChildInv(d, c)
    BY DEF Good
<1>2. /\ e = [rows |-> e.rows, cnt |-> d.cnt, snaps |-> d.snaps, blobs |-> d.blobs]
      /\ e.rows \in [DOMAIN d.rows -> Row]
      /\ \A i \in DOMAIN d.rows :
            /\ e.rows[i].hash = d.rows[i].hash
            /\ e.rows[i].ready = d.rows[i].ready
            /\ e.rows[i].childs = d.rows[i].childs
    BY DEF Retagged
<1>3. e.cnt = d.cnt /\ e.snaps = d.snaps /\ e.blobs = d.blobs /\ DOMAIN e.rows = DOMAIN d.rows
    BY <1>2
<1>4. Saved(e) = Saved(d)
    BY <1>3 DEF Saved
<1>5. \A h : IsReady(d, h) => IsReady(e, h)
    BY <1>2, <1>3 DEF IsReady
<1>6. IsTables(e, n)
    BY <1>1, <1>2, <1>3 DEF IsTables
<1>7. Unique(e)
    BY <1>1, <1>2, <1>3 DEF Unique
<1>8. ThereInv(e)
    BY <1>1, <1>3, <1>4, <1>5 DEF ThereInv
<1>9. ReadyInv(e)
    BY <1>1, <1>2, <1>3 DEF ReadyInv
<1>10. CountInv(e, R)
    <2>1. \A i : Count(e, i) = Count(d, i)
        BY <1>3 DEF Count
    <2>2. \A h : Refs(e, R, h) = Refs(d, R, h)
        BY <1>3 DEF Refs
    <2> QED  BY <1>1, <1>2, <1>3, <2>1, <2>2 DEF CountInv
<1>11. FromInv(e)
    BY <1>1, <1>2, <1>3 DEF FromInv
<1>12. ChildInv(e, c)
    <2>1. \A h, ids : Linked(d, h, ids) => Linked(e, h, ids)
        BY <1>2, <1>3 DEF Linked
    <2> QED  BY <1>1, <1>2, <1>3, <2>1 DEF ChildInv
<1> QED  BY <1>3, <1>4, <1>5, <1>6, <1>7, <1>8, <1>9, <1>10, <1>11, <1>12 DEF Good

\* The counts of the rows in I grow by one, all else stays.
LEMMA AddCountEffect ==
    ASSUME NEW d, NEW n, IsTables(d, n), NEW I, NEW e, e = AddCount(d, I)
    PROVE  /\ e = [rows |-> d.rows, cnt |-> e.cnt, snaps |-> d.snaps, blobs |-> d.blobs]
           /\ DOMAIN e.cnt = DOMAIN d.cnt \cup I /\ e.cnt \in [DOMAIN e.cnt -> Nat]
           /\ \A i : Count(d, i) \in Nat
           /\ \A i : Count(e, i) = Count(d, i) + (IF i \in I THEN 1 ELSE 0)
<1>1. PICK C : C = [i \in DOMAIN d.cnt \cup I |-> Count(d, i) + (IF i \in I THEN 1 ELSE 0)]
    OBVIOUS
<1>2. e = [d EXCEPT !.cnt = C]
    BY <1>1 DEF AddCount
<1>3. e = [rows |-> d.rows, cnt |-> C, snaps |-> d.snaps, blobs |-> d.blobs]
    BY <1>2 DEF IsTables
<1>4. ASSUME NEW i PROVE Count(d, i) \in Nat
    BY DEF Count, IsTables
<1>5. DOMAIN C = DOMAIN d.cnt \cup I /\ C \in [DOMAIN C -> Nat]
    BY <1>1, <1>4
<1>6. ASSUME NEW i
      PROVE  Count(e, i) = Count(d, i) + (IF i \in I THEN 1 ELSE 0)
    <2>1. Count(e, i) = IF i \in DOMAIN C THEN C[i] ELSE 0
        BY <1>3 DEF Count
    <2>2. i \notin DOMAIN d.cnt => Count(d, i) = 0
        BY DEF Count
    <2> QED  BY <1>1, <1>4, <1>5, <2>1, <2>2
<1>7. e.cnt = C
    BY <1>3
<1> QED  BY <1>3, <1>4, <1>5, <1>6, <1>7

\* A snapshot's tag is set, all else stays.
LEMMA SnapTagEffect ==
    ASSUME NEW d, NEW n, IsTables(d, n), NEW s \in 1..Len(d.snaps), NEW t \in SnapTag,
           NEW e, e = SnapshotSetTag(d, s, t)
    PROVE  /\ e = [rows |-> d.rows, cnt |-> d.cnt, snaps |-> e.snaps, blobs |-> d.blobs]
           /\ e.snaps \in Seq(Snap) /\ Len(e.snaps) = Len(d.snaps)
           /\ \A k \in 1..Len(d.snaps) :
                /\ e.snaps[k].key = d.snaps[k].key
                /\ e.snaps[k].hash = d.snaps[k].hash
                /\ e.snaps[k].tag = IF k = s THEN t ELSE d.snaps[k].tag
<1>1. PICK q \in Seq(Snap) : q = d.snaps
    BY DEF IsTables
<1>2. PICK v : v = [q[s] EXCEPT !.tag = t]
    OBVIOUS
<1>3. q[s] \in Snap
    BY <1>1
<1>4. v \in Snap /\ v.key = q[s].key /\ v.hash = q[s].hash /\ v.tag = t
    BY <1>2, <1>3 DEF Snap
<1>5. PICK S : S = [q EXCEPT ![s] = v]
    OBVIOUS
<1>6. S \in Seq(Snap) /\ Len(S) = Len(q) /\ \A k \in 1..Len(q) : S[k] = IF k = s THEN v ELSE q[k]
    BY <1>1, <1>4, <1>5
<1>7. e = [d EXCEPT !.snaps = S]
    BY <1>1, <1>2, <1>5 DEF SnapshotSetTag
<1>8. e = [rows |-> d.rows, cnt |-> d.cnt, snaps |-> S, blobs |-> d.blobs]
    BY <1>7 DEF IsTables
<1> QED  BY <1>1, <1>4, <1>6, <1>8

\* A snapshot may be tagged counted once what it needs is ready.
LEMMA SnapTagKeeps ==
    ASSUME NEW d, NEW n, NEW c, NEW R, R \subseteq 1..Len(d.snaps), Good(d, n, c, R),
           NEW s \in 1..Len(d.snaps), NEW t \in SnapTag,
           t # "RecoverInProgress" => \A h \in Need[d.snaps[s].hash] : IsReady(d, h),
           NEW e, e = SnapshotSetTag(d, s, t)
    PROVE  Good(e, n, c, R) /\ e.rows = d.rows /\ e.blobs = d.blobs
<1>1. /\ IsTables(d, n) /\ Unique(d) /\ ThereInv(d) /\ ReadyInv(d)
      /\ CountInv(d, R) /\ FromInv(d) /\ ChildInv(d, c)
    BY DEF Good
<1>2. /\ e = [rows |-> d.rows, cnt |-> d.cnt, snaps |-> e.snaps, blobs |-> d.blobs]
      /\ e.snaps \in Seq(Snap) /\ Len(e.snaps) = Len(d.snaps)
      /\ \A k \in 1..Len(d.snaps) :
            /\ e.snaps[k].hash = d.snaps[k].hash
            /\ e.snaps[k].tag = IF k = s THEN t ELSE d.snaps[k].tag
    BY <1>1, SnapTagEffect
<1>3. e.rows = d.rows /\ e.cnt = d.cnt /\ e.blobs = d.blobs
    BY <1>2
<1>4. IsTables(e, n)
    BY <1>1, <1>2, <1>3 DEF IsTables
<1>5. Unique(e) /\ ReadyInv(e) /\ ChildInv(e, c)
    BY <1>1, <1>3 DEF Unique, ReadyInv, ChildInv, Linked
<1>6. ThereInv(e)
    <2>1. SUFFICES ASSUME NEW k \in Saved(e), NEW h \in Need[e.snaps[k].hash] PROVE IsReady(d, h)
        BY <1>3 DEF ThereInv, IsReady
    <2>2. k \in 1..Len(d.snaps) /\ e.snaps[k].tag # "RecoverInProgress"
        BY <1>2 DEF Saved
    <2>3. CASE k = s
        BY <1>2, <2>1, <2>2, <2>3
    <2>4. CASE k # s
        BY <1>1, <1>2, <2>1, <2>2, <2>4 DEF ThereInv, Saved
    <2> QED  BY <2>3, <2>4
<1>7. CountInv(e, R)
    <2>1. \A i : Count(e, i) = Count(d, i)
        BY <1>3 DEF Count
    <2>2. \A h : Refs(e, R, h) = Refs(d, R, h)
        BY <1>2 DEF Refs
    <2> QED  BY <1>1, <1>3, <2>1, <2>2 DEF CountInv
<1>8. FromInv(e)
    BY <1>1, <1>2, <1>3 DEF FromInv
<1> QED  BY <1>3, <1>4, <1>5, <1>6, <1>7, <1>8 DEF Good

\* All rows are ready: what an empty queue means.
AllReady(d) == \A i \in DOMAIN d.rows : d.rows[i].ready

LEMMA NothingQueued ==
    ASSUME NEW d, NEW c
    PROVE  FrontInv(EmptyTable) /\ (QueueInv(d, EmptyTable, c) <=> AllReady(d))
<1>1. DOMAIN EmptyTable = {}
    BY DEF EmptyTable
<1>2. FrontInv(EmptyTable)
    BY <1>1 DEF FrontInv
<1>3. EmptyTable \in [DOMAIN EmptyTable -> Waiting]
    BY <1>1 DEF EmptyTable
<1>4. QueueInv(d, EmptyTable, c) <=> {} = {i \in DOMAIN d.rows : ~d.rows[i].ready}
    BY <1>1, <1>3 DEF QueueInv
<1> QED  BY <1>2, <1>4 DEF AllReady

\* The number of a set of snapshots.
LEMMA RefsFinite ==
    ASSUME NEW d, NEW n, IsTables(d, n), NEW R, R \subseteq 1..Len(d.snaps), NEW h
    PROVE  IsFiniteSet(Refs(d, R, h)) /\ Cardinality(Refs(d, R, h)) \in Nat
<1>1. Len(d.snaps) \in Nat
    BY DEF IsTables
<1>2. IsFiniteSet(1..Len(d.snaps))
    BY <1>1, FS_Interval
<1>3. Refs(d, R, h) \in SUBSET (1..Len(d.snaps))
    BY DEF Refs
<1> QED  BY <1>2, <1>3, FS_Subset, FS_CardinalityType

\* The snapshot s, whose hash is F, has been walked and its tops are tagged.
CountDue(d, n, c, s, F) ==
    /\ Good(d, n, c, Saved(d)) /\ AllReady(d)
    /\ s \in 1..Len(d.snaps) /\ d.snaps[s].tag = "RecoverInProgress"
    /\ F = d.snaps[s].hash
    /\ \A h \in Need[F] : IsReady(d, h)
    /\ \A i \in DOMAIN d.rows : d.rows[i].tag = "Reserved" <=> d.rows[i].hash \in Tops[F] \ {F}

\* register_final counts the tops of the snapshot s once, and no other hash.
LEMMA CountedKeeps ==
    ASSUME NEW d, NEW n, NEW c, NEW s, NEW F, CountDue(d, n, c, s, F),
           NEW e, e = Counted(d, GetId(d, F))
    PROVE  /\ Good(e, n, c, Saved(d) \cup {s}) /\ AllReady(e)
           /\ e.snaps = d.snaps /\ e.blobs = d.blobs
           /\ \A h : IsReady(d, h) => IsReady(e, h)
<1> SUFFICES ASSUME Good(d, n, c, Saved(d)), AllReady(d),
                    s \in 1..Len(d.snaps), d.snaps[s].tag = "RecoverInProgress",
                    F = d.snaps[s].hash,
                    \A h \in Need[F] : IsReady(d, h),
                    \A i \in DOMAIN d.rows :
                        d.rows[i].tag = "Reserved" <=> d.rows[i].hash \in Tops[F] \ {F}
             PROVE  /\ Good(e, n, c, Saved(d) \cup {s}) /\ AllReady(e)
                    /\ e.snaps = d.snaps /\ e.blobs = d.blobs
                    /\ \A h : IsReady(d, h) => IsReady(e, h)
    BY Zenon DEF CountDue
<1>1. IsTables(d, n) /\ Unique(d)
    BY DEF Good
<1>2. F \in Hash
    <2>1. d.snaps[s] \in Snap
        BY <1>1 DEF IsTables
    <2> QED  BY <2>1 DEF Snap
<1>3. PICK f : f = GetId(d, F)
    OBVIOUS
<1>4. f \in DOMAIN d.rows /\ d.rows[f].hash = F /\ \A i \in DOMAIN d.rows : d.rows[i].hash = F => i = f
    <2>1. Located(d, F)
        BY <1>2, NeedClosed DEF IsReady, Located
    <2> QED  BY <1>1, <1>3, <2>1, GetIdFinds
<1>5. PICK a : a = SetTag(d, {f}, "Reserved")
    OBVIOUS
<1>6. Retagged(d, a, {f}, "Reserved")
    BY <1>1, <1>5, SetTagEffect DEF RowTag
<1>7. /\ Good(a, n, c, Saved(d))
      /\ a.snaps = d.snaps /\ a.blobs = d.blobs /\ Saved(a) = Saved(d)
      /\ \A h : IsReady(d, h) => IsReady(a, h)
    BY <1>6, RetaggedKeeps
<1>8. /\ DOMAIN a.rows = DOMAIN d.rows
      /\ \A i \in DOMAIN d.rows : /\ a.rows[i].hash = d.rows[i].hash
                                  /\ a.rows[i].ready = d.rows[i].ready
                                  /\ a.rows[i].tag = IF i \in {f} THEN "Reserved" ELSE d.rows[i].tag
    BY <1>6 DEF Retagged
<1>9. PICK I : I = IdsByTag(a, "Reserved")
    OBVIOUS
<1>10. I \subseteq DOMAIN a.rows /\ \A i \in DOMAIN a.rows : i \in I <=> a.rows[i].hash \in Tops[F]
    <2>1. \A i \in DOMAIN a.rows : i \in I <=> i = f \/ d.rows[i].tag = "Reserved"
        BY <1>8, <1>9 DEF IdsByTag
    <2>2. F \in Tops[F]
        BY <1>2, TopsFacts
    <2> QED  BY <1>4, <1>8, <1>9, <2>1, <2>2 DEF IdsByTag
<1>11. PICK b : b = AddCount(a, I)
    OBVIOUS
<1>12. /\ IsTables(a, n) /\ Unique(a) /\ ThereInv(a) /\ ReadyInv(a)
       /\ CountInv(a, Saved(d)) /\ FromInv(a) /\ ChildInv(a, c)
    BY <1>7 DEF Good
<1>13. /\ b = [rows |-> a.rows, cnt |-> b.cnt, snaps |-> a.snaps, blobs |-> a.blobs]
       /\ DOMAIN b.cnt = DOMAIN a.cnt \cup I /\ b.cnt \in [DOMAIN b.cnt -> Nat]
       /\ \A i : Count(b, i) = Count(a, i) + (IF i \in I THEN 1 ELSE 0)
    BY <1>11, <1>12, AddCountEffect
<1>14. b.rows = a.rows /\ b.snaps = a.snaps /\ b.blobs = a.blobs
    BY <1>13
<1>15. AllReady(a) /\ AllReady(b)
    BY <1>8, <1>14 DEF AllReady
<1>16. IsTables(b, n)
    BY <1>12, <1>13, <1>14 DEF IsTables
<1>17. Unique(b) /\ FromInv(b) /\ ChildInv(b, c)
    BY <1>12, <1>14 DEF Unique, FromInv, ChildInv, Linked
<1>18. ThereInv(b)
    <2>1. Saved(b) = Saved(a)
        BY <1>14 DEF Saved
    <2>2. \A h : IsReady(a, h) => IsReady(b, h)
        BY <1>14 DEF IsReady
    <2> QED  BY <1>12, <1>14, <2>1, <2>2 DEF ThereInv
<1>19. ReadyInv(b)
    BY <1>10, <1>12, <1>13, <1>14, <1>15 DEF ReadyInv, AllReady
<1>20. CountInv(b, Saved(d) \cup {s})
    <2>1. SUFFICES ASSUME NEW i \in DOMAIN a.rows
                   PROVE  Count(b, i) = Cardinality(Refs(a, Saved(d) \cup {s}, a.rows[i].hash))
        BY <1>14 DEF CountInv, Refs
    <2>2. PICK h : h = a.rows[i].hash
        OBVIOUS
    <2>3. Count(a, i) = Cardinality(Refs(a, Saved(d), h))
        BY <1>12, <2>2 DEF CountInv
    <2>4. Saved(d) \subseteq 1..Len(a.snaps) /\ s \notin Saved(d)
        BY <1>7 DEF Saved
    <2>5. IsFiniteSet(Refs(a, Saved(d), h)) /\ Cardinality(Refs(a, Saved(d), h)) \in Nat
        BY <1>12, <2>4, RefsFinite
    <2>6. CASE i \in I
        <3>1. h \in Tops[a.snaps[s].hash]
            BY <1>7, <1>10, <2>2, <2>6
        <3>2. Refs(a, Saved(d) \cup {s}, h) = Refs(a, Saved(d), h) \cup {s}
            BY <3>1 DEF Refs
        <3>3. s \notin Refs(a, Saved(d), h)
            BY <2>4 DEF Refs
        <3>4. Cardinality(Refs(a, Saved(d), h) \cup {s}) = Cardinality(Refs(a, Saved(d), h)) + 1
            BY <2>5, <3>3, FS_AddElement
        <3> QED  BY <1>13, <2>2, <2>3, <2>6, <3>2, <3>4
    <2>7. CASE i \notin I
        <3>1. h \notin Tops[a.snaps[s].hash]
            BY <1>7, <1>10, <2>2, <2>7
        <3>2. Refs(a, Saved(d) \cup {s}, h) = Refs(a, Saved(d), h)
            BY <3>1 DEF Refs
        <3> QED  BY <1>13, <2>2, <2>3, <2>5, <2>7, <3>2
    <2> QED  BY <2>6, <2>7
<1>21. Good(b, n, c, Saved(d) \cup {s})
    BY <1>16, <1>17, <1>18, <1>19, <1>20 DEF Good
<1>22. e = SetTag(b, {f}, "InProgress")
    BY <1>3, <1>5, <1>9, <1>11 DEF Counted
<1>23. Retagged(b, e, {f}, "InProgress")
    BY <1>16, <1>22, SetTagEffect DEF RowTag
<1>24. /\ Good(e, n, c, Saved(d) \cup {s})
       /\ e.snaps = b.snaps /\ e.blobs = b.blobs
       /\ \A h : IsReady(b, h) => IsReady(e, h)
    BY <1>21, <1>23, RetaggedKeeps
<1>25. AllReady(e)
    BY <1>15, <1>23 DEF AllReady, Retagged
<1>26. \A h : IsReady(a, h) => IsReady(b, h)
    BY <1>14 DEF IsReady
<1> QED  BY <1>7, <1>14, <1>24, <1>25, <1>26

-----------------------------------------------------------------------------
\* A restart.

\* The tables d are read again as e, with the counter m; cc tells of lost children.
Reopened(d, n, c, e, m, cc) ==
    /\ n \in Nat /\ c \in BOOLEAN /\ Good(d, n, c, Saved(d))
    /\ e = [d EXCEPT !.rows = ReadyRows(d)]
    /\ m = MaxOf(DOMAIN d.rows)
    /\ cc = (c \/ \E i \in DOMAIN e.rows : ~(Range(e.rows[i].childs) \subseteq DOMAIN e.rows))
    /\ cc \in BOOLEAN

\* The rows that are ready are good by themselves; nobody loses a child, or cut
\* says so.
LEMMA ReadyPartKeeps ==
    ASSUME NEW d, NEW n, NEW c, NEW e, NEW m, NEW cc, Reopened(d, n, c, e, m, cc)
    PROVE  /\ Good(e, m, cc, Saved(e)) /\ Good(d, m, cc, Saved(d)) /\ m \in Nat
           /\ AllReady(e) /\ e.snaps = d.snaps /\ e.blobs = d.blobs
<1> SUFFICES ASSUME n \in Nat, c \in BOOLEAN, Good(d, n, c, Saved(d)),
                    e = [d EXCEPT !.rows = ReadyRows(d)],
                    m = MaxOf(DOMAIN d.rows), cc \in BOOLEAN,
                    cc = (c \/ \E i \in DOMAIN e.rows :
                                  ~(Range(e.rows[i].childs) \subseteq DOMAIN e.rows))
             PROVE  /\ Good(e, m, cc, Saved(e)) /\ Good(d, m, cc, Saved(d)) /\ m \in Nat
                    /\ AllReady(e) /\ e.snaps = d.snaps /\ e.blobs = d.blobs
    BY Zenon DEF Reopened
<1>1. /\ IsTables(d, n) /\ Unique(d) /\ ThereInv(d) /\ ReadyInv(d)
      /\ CountInv(d, Saved(d)) /\ FromInv(d) /\ ChildInv(d, c)
    BY DEF Good
<1>2. PICK R : R = ReadyRows(d)
    OBVIOUS
<1>3. e = [rows |-> R, cnt |-> d.cnt, snaps |-> d.snaps, blobs |-> d.blobs]
    BY <1>1, <1>2 DEF IsTables
<1>4. e.rows = R /\ e.cnt = d.cnt /\ e.snaps = d.snaps /\ e.blobs = d.blobs
    BY <1>3
<1>5. /\ DOMAIN R = {j \in DOMAIN d.rows : d.rows[j].ready}
      /\ \A i \in DOMAIN R : R[i] = d.rows[i]
    BY <1>2 DEF ReadyRows
<1>6. m \in Nat /\ DOMAIN d.rows \subseteq 1..m
    BY <1>1, MaxOfBounds DEF IsTables
<1>7. IsTables(d, m)
    BY <1>1, <1>6 DEF IsTables
<1>8. ~cc => ~c
    OBVIOUS
<1>9. Good(d, m, cc, Saved(d))
    BY <1>1, <1>7, <1>8 DEF Good, ChildInv
<1>10. IsTables(e, m)
    <2>1. \A i \in DOMAIN R : R[i] \in Row
        BY <1>1, <1>5 DEF IsTables
    <2>2. R \in [DOMAIN R -> Row]
        BY <1>2, <1>5, <2>1 DEF ReadyRows
    <2>3. DOMAIN R \subseteq 1..m
        BY <1>5, <1>6
    <2> QED  BY <1>1, <1>3, <1>4, <2>2, <2>3 DEF IsTables
<1>11. AllReady(e)
    BY <1>4, <1>5 DEF AllReady
<1>12. Unique(e) /\ FromInv(e)
    BY <1>1, <1>4, <1>5 DEF Unique, FromInv
<1>13. Saved(e) = Saved(d)
    BY <1>4 DEF Saved
<1>14. ThereInv(e)
    <2>1. \A h : IsReady(d, h) => IsReady(e, h)
        BY <1>4, <1>5 DEF IsReady
    <2> QED  BY <1>1, <1>4, <1>13, <2>1 DEF ThereInv
<1>15. ReadyInv(e)
    BY <1>1, <1>4, <1>5 DEF ReadyInv
<1>16. CountInv(e, Saved(e))
    <2>1. \A i : Count(e, i) = Count(d, i)
        BY <1>4 DEF Count
    <2>2. \A h : Refs(e, Saved(d), h) = Refs(d, Saved(d), h)
        BY <1>4 DEF Refs
    <2> QED  BY <1>1, <1>4, <1>5, <1>13, <2>1, <2>2 DEF CountInv
<1>17. ChildInv(e, cc)
    <2>1. SUFFICES ASSUME ~cc, NEW i \in DOMAIN R PROVE Linked(e, R[i].hash, R[i].childs)
        BY <1>4 DEF ChildInv
    <2>2. Range(R[i].childs) \subseteq DOMAIN R
        BY <1>4, <2>1
    <2>3. Linked(d, R[i].hash, R[i].childs)
        BY <1>1, <1>5, <1>8, <2>1 DEF ChildInv
    <2>4. R[i].childs \in Ids
        <3>1. R[i] \in Row
            BY <1>1, <1>5, <2>1 DEF IsTables
        <3> QED  BY <3>1 DEF Row
    <2>5. PICK q \in Seq(Nat) : q = R[i].childs
        BY <2>4 DEF Ids
    <2>6. PICK h : h = R[i].hash
        OBVIOUS
    <2>7. Len(q) = Len(Kids[h]) /\ \A k \in 1..Len(Kids[h]) : d.rows[q[k]].hash = Kids[h][k]
        BY <2>3, <2>5, <2>6 DEF Linked
    <2>8. \A k \in 1..Len(q) : q[k] \in DOMAIN R
        BY <2>2, <2>5 DEF Range
    <2>9. Linked(e, h, q)
        BY <1>4, <1>5, <2>7, <2>8 DEF Linked
    <2> QED  BY <2>5, <2>6, <2>9
<1> QED  BY <1>4, <1>6, <1>9, <1>10, <1>11, <1>12, <1>14, <1>15, <1>16, <1>17 DEF Good

-----------------------------------------------------------------------------
\* Blobs and snapshots are added.

\* Ids may go up.
LEMMA MoreIds ==
    ASSUME NEW d, NEW n \in Nat, NEW c, NEW R, Good(d, n, c, R), NEW m \in Nat, n <= m
    PROVE  Good(d, m, c, R)
<1>1. 1..n \subseteq 1..m
    OBVIOUS
<1>2. IsTables(d, m)
    BY <1>1 DEF Good, IsTables
<1> QED  BY <1>2 DEF Good

\* A blob may come, or become Done.
LEMMA BlobsKeep ==
    ASSUME NEW d, NEW n, NEW c, NEW R, Good(d, n, c, R),
           NEW B, B \in [DOMAIN B -> {"InProgress", "Done"}],
           DOMAIN d.blobs \subseteq DOMAIN B, DOMAIN B \subseteq Blobs,
           NEW e, e = [d EXCEPT !.blobs = B]
    PROVE  /\ Good(e, n, c, R)
           /\ e.rows = d.rows /\ e.snaps = d.snaps /\ e.blobs = B
<1>1. /\ IsTables(d, n) /\ Unique(d) /\ ThereInv(d) /\ ReadyInv(d)
      /\ CountInv(d, R) /\ FromInv(d) /\ ChildInv(d, c)
    BY DEF Good
<1>2. e = [rows |-> d.rows, cnt |-> d.cnt, snaps |-> d.snaps, blobs |-> B]
    BY <1>1 DEF IsTables
<1>3. e.rows = d.rows /\ e.cnt = d.cnt /\ e.snaps = d.snaps /\ e.blobs = B
    BY <1>2
<1>4. IsTables(e, n)
    BY <1>1, <1>2, <1>3 DEF IsTables
<1>5. Unique(e) /\ FromInv(e) /\ ChildInv(e, c)
    BY <1>1, <1>3 DEF Unique, FromInv, ChildInv, Linked
<1>6. ThereInv(e)
    <2>1. Saved(e) = Saved(d)
        BY <1>3 DEF Saved
    <2>2. \A h : IsReady(d, h) => IsReady(e, h)
        BY <1>3 DEF IsReady
    <2> QED  BY <1>1, <1>3, <2>1, <2>2 DEF ThereInv
<1>7. ReadyInv(e)
    BY <1>1, <1>3 DEF ReadyInv
<1>8. CountInv(e, R)
    <2>1. \A i : Count(e, i) = Count(d, i)
        BY <1>3 DEF Count
    <2>2. \A h : Refs(e, R, h) = Refs(d, R, h)
        BY <1>3 DEF Refs
    <2> QED  BY <1>1, <1>3, <2>1, <2>2 DEF CountInv
<1> QED  BY <1>3, <1>4, <1>5, <1>6, <1>7, <1>8 DEF Good

\* The snapshots q come first in S, and the others are still to be recovered.
Extends(q, S) ==
    /\ S \in Seq(Snap) /\ Len(q) <= Len(S)
    /\ \A k \in 1..Len(q) : S[k] = q[k]
    /\ \A k \in (Len(q) + 1)..Len(S) : S[k].tag = "RecoverInProgress"

\* Snapshots to be recovered may come.
LEMMA SnapsKeep ==
    ASSUME NEW d, NEW n, NEW c, Good(d, n, c, Saved(d)),
           NEW S, Extends(d.snaps, S),
           NEW e, e = [d EXCEPT !.snaps = S]
    PROVE  /\ Good(e, n, c, Saved(e))
           /\ e.rows = d.rows /\ e.snaps = S /\ e.blobs = d.blobs
<1>1. /\ IsTables(d, n) /\ Unique(d) /\ ThereInv(d) /\ ReadyInv(d)
      /\ CountInv(d, Saved(d)) /\ FromInv(d) /\ ChildInv(d, c)
    BY DEF Good
<1>2. e = [rows |-> d.rows, cnt |-> d.cnt, snaps |-> S, blobs |-> d.blobs]
    BY <1>1 DEF IsTables
<1>3. e.rows = d.rows /\ e.cnt = d.cnt /\ e.snaps = S /\ e.blobs = d.blobs
    BY <1>2
<1>4. PICK L \in Nat, M \in Nat : L = Len(d.snaps) /\ M = Len(S)
    BY <1>1 DEF IsTables, Extends
<1>5. /\ L <= M /\ \A k \in 1..L : S[k] = d.snaps[k]
      /\ \A k \in (L + 1)..M : S[k].tag = "RecoverInProgress"
    BY <1>4 DEF Extends
<1>6. 1..L \subseteq 1..M /\ \A k \in 1..M : k \in 1..L \/ k \in (L + 1)..M
    BY <1>5
<1>7. Saved(e) = Saved(d)
    BY <1>3, <1>4, <1>5, <1>6 DEF Saved
<1>8. \A k \in Saved(d) : S[k] = d.snaps[k]
    BY <1>4, <1>5 DEF Saved
<1>9. IsTables(e, n)
    BY <1>1, <1>2, <1>3 DEF IsTables, Extends
<1>10. Unique(e) /\ ReadyInv(e) /\ ChildInv(e, c)
    BY <1>1, <1>3 DEF Unique, ReadyInv, ChildInv, Linked
<1>11. ThereInv(e)
    <2>1. \A h : IsReady(d, h) => IsReady(e, h)
        BY <1>3 DEF IsReady
    <2> QED  BY <1>1, <1>3, <1>7, <1>8, <2>1 DEF ThereInv
<1>12. CountInv(e, Saved(e))
    <2>1. \A i : Count(e, i) = Count(d, i)
        BY <1>3 DEF Count
    <2>2. \A h : Refs(e, Saved(d), h) = Refs(d, Saved(d), h)
        BY <1>3, <1>8 DEF Refs
    <2> QED  BY <1>1, <1>3, <1>7, <2>1, <2>2 DEF CountInv
<1>13. FromInv(e)
    BY <1>1, <1>3, <1>4, <1>5, <1>6 DEF FromInv
<1> QED  BY <1>3, <1>9, <1>10, <1>11, <1>12, <1>13 DEF Good

-----------------------------------------------------------------------------
\* The list of snapshots.

\* The newest list is one of those that are there.
LEMMA RootOfIsRoot ==
    ASSUME NEW d, DoneRoots(d) # {}, NEW n \in Nat, DOMAIN d.blobs \subseteq 1..n
    PROVE  RootOf(d) \in Roots
<1>1. PICK R : R = DoneRoots(d)
    OBVIOUS
<1>2. PICK S : S = {BlobOf[r] : r \in R}
    OBVIOUS
<1>3. S \subseteq 1..n /\ S # {}
    BY <1>1, <1>2 DEF DoneRoots
<1>4. PICK m \in S : \A k \in S : k <= m
    BY <1>3, Greatest
<1>5. PICK r \in R : BlobOf[r] = m
    BY <1>2
<1>6. \A s \in R : BlobOf[s] <= BlobOf[r]
    BY <1>2, <1>4, <1>5
<1>7. Newest(R) \in R
    BY <1>6 DEF Newest
<1> QED  BY <1>1, <1>7 DEF RootOf, DoneRoots

\* A list does not change with what is not a blob.
LEMMA SameBlobs ==
    ASSUME NEW d, NEW e, e.blobs = d.blobs
    PROVE  (Settled(e) <=> Settled(d)) /\ RootOf(e) = RootOf(d)
BY DEF Settled, RootOf, DoneRoots

\* The entries of a list.
LEMMA EntriesOf ==
    ASSUME NEW r \in Roots
    PROVE  /\ OnList(r) \in Seq(Snap) /\ Full(r) \in Seq(Snap)
           /\ Len(OnList(r)) = Len(Listing[r]) /\ Len(Full(r)) = Len(Listing[r]) + 1
           /\ \A k \in 1..Len(Listing[r]) :
                /\ OnList(r)[k] = Entry(k, Listing[r][k])
                /\ Full(r)[k] = Entry(k, Listing[r][k])
           /\ Full(r)[Len(Listing[r]) + 1] = Entry(0, r)
<1>1. PICK l \in Seq(Hash) : l = Listing[r]
    BY Constants
<1>2. ASSUME NEW k \in Nat, NEW h \in Hash PROVE Entry(k, h) \in Snap
    BY <1>2 DEF Entry, Snap, SnapTag
<1>3. r \in Hash
    BY Constants
<1>4. PICK f : f = OnList(r)
    OBVIOUS
<1>5. PICK L \in Nat : L = Len(l)
    BY <1>1
<1>6. f = [k \in 1..L |-> Entry(k, l[k])]
    BY <1>1, <1>4, <1>5 DEF OnList
<1>7. \A k \in 1..L : Entry(k, l[k]) \in Snap
    BY <1>1, <1>2, <1>5
<1>8. f \in [1..L -> Snap]
    BY <1>6, <1>7
<1>9. f \in Seq(Snap) /\ Len(f) = L
    BY <1>8, TupleIsSeq
<1>10. PICK x \in Snap : x = Entry(0, r)
    BY <1>2, <1>3
<1>11. Full(r) = Append(f, x)
    BY <1>4, <1>10 DEF Full
<1>12. /\ Append(f, x) \in Seq(Snap) /\ Len(Append(f, x)) = L + 1
       /\ \A k \in 1..L : Append(f, x)[k] = f[k]
       /\ Append(f, x)[L + 1] = x
    BY <1>9
<1>13. \A k \in 1..L : f[k] = Entry(k, l[k])
    BY <1>6
<1> HIDE DEF Entry
<1> QED  BY <1>1, <1>4, <1>5, <1>9, <1>10, <1>11, <1>12, <1>13

\* The fields of an entry.
LEMMA EntryFields ==
    ASSUME NEW k, NEW h
    PROVE  Entry(k, h).key = k /\ Entry(k, h).hash = h /\ Entry(k, h).tag = "RecoverInProgress"
BY DEF Entry

\* The snapshots are those of the list, or with the list those of Full.
LEMMA IsOfFacts ==
    ASSUME NEW r \in Roots, NEW q
    PROVE  /\ IsOf(q, OnList(r)) <=>
                /\ Len(q) = Len(Listing[r])
                /\ \A k \in 1..Len(Listing[r]) : q[k].key = k /\ q[k].hash = Listing[r][k]
           /\ IsOf(q, Full(r)) <=>
                /\ Len(q) = Len(Listing[r]) + 1
                /\ \A k \in 1..Len(Listing[r]) : q[k].key = k /\ q[k].hash = Listing[r][k]
                /\ q[Len(Listing[r]) + 1].key = 0 /\ q[Len(Listing[r]) + 1].hash = r
<1>1. PICK L \in Nat : L = Len(Listing[r])
    BY Constants
<1>2. PICK f : f = OnList(r)
    OBVIOUS
<1>3. PICK g : g = Full(r)
    OBVIOUS
<1>4. /\ Len(f) = L /\ Len(g) = L + 1
      /\ \A k \in 1..L : f[k] = Entry(k, Listing[r][k]) /\ g[k] = Entry(k, Listing[r][k])
      /\ g[L + 1] = Entry(0, r)
    BY <1>1, <1>2, <1>3, EntriesOf
<1>5. /\ \A k \in 1..L : /\ f[k].key = k /\ f[k].hash = Listing[r][k]
                         /\ g[k].key = k /\ g[k].hash = Listing[r][k]
      /\ g[L + 1].key = 0 /\ g[L + 1].hash = r
    BY <1>4, EntryFields
<1>6. \A k \in 1..(L + 1) : k \in 1..L \/ k = L + 1
    OBVIOUS
<1>7. 1..L \subseteq 1..(L + 1) /\ L + 1 \in 1..(L + 1)
    OBVIOUS
<1>8. IsOf(q, f) <=> /\ Len(q) = L
                     /\ \A k \in 1..L : q[k].key = k /\ q[k].hash = Listing[r][k]
    BY <1>4, <1>5 DEF IsOf
<1>9. IsOf(q, g) <=> /\ Len(q) = L + 1
                     /\ \A k \in 1..L : q[k].key = k /\ q[k].hash = Listing[r][k]
                     /\ q[L + 1].key = 0 /\ q[L + 1].hash = r
    BY <1>4, <1>5, <1>6, <1>7 DEF IsOf
<1> QED  BY <1>1, <1>2, <1>3, <1>8, <1>9

\* A database without snapshots gets all of the list.
LEMMA RecoverAll ==
    ASSUME NEW q, q = <<>>, NEW es \in Seq(Snap)
    PROVE  SnapshotRecover(q, es) = es
<1>1. PICK L \in Nat : L = Len(es)
    OBVIOUS
<1> DEFINE new == {n \in 1..Len(es) : \A i \in 1..Len(q) : q[i].key # es[n].key}
           At(k) == CHOOSE n \in new : Cardinality({m \in new : m <= n}) = k
<1>2. SnapshotRecover(q, es) = q \o [k \in 1..Cardinality(new) |-> es[At(k)]]
    BY DEF SnapshotRecover
<1>3. Len(q) = 0
    OBVIOUS
<1>4. \A i \in 1..0 : FALSE
    OBVIOUS
<1>5. new = 1..L
    BY <1>1, <1>3, <1>4
<1>6. Cardinality(1..L) = L
    BY FS_Interval
<1>7. ASSUME NEW n \in 1..L PROVE Cardinality({m \in 1..L : m <= n}) = n
    <2>1. {m \in 1..L : m <= n} = 1..n
        OBVIOUS
    <2>2. Cardinality(1..n) = n
        BY FS_Interval
    <2> QED  BY <2>1, <2>2
<1>8. ASSUME NEW k \in 1..L PROVE At(k) = k
    <2>1. At(k) = CHOOSE n \in 1..L : Cardinality({m \in 1..L : m <= n}) = k
        BY <1>5
    <2> QED  BY <1>7, <2>1
<1>9. [k \in 1..Cardinality(new) |-> es[At(k)]] = [k \in 1..L |-> es[k]]
    <2> HIDE DEF new, At
    <2>1. Cardinality(new) = L
        BY <1>5, <1>6
    <2> QED  BY <1>8, <2>1
<1>10. [k \in 1..L |-> es[k]] = es
    BY <1>1
<1>11. q \o es = es
    OBVIOUS
<1> HIDE DEF new, At
<1> QED  BY <1>2, <1>9, <1>10, <1>11

\* One that has them gets nothing.
LEMMA RecoverNone ==
    ASSUME NEW q \in Seq(Snap), NEW es \in Seq(Snap),
           Len(es) <= Len(q), \A n \in 1..Len(es) : q[n].key = es[n].key
    PROVE  SnapshotRecover(q, es) = q
<1> DEFINE new == {n \in 1..Len(es) : \A i \in 1..Len(q) : q[i].key # es[n].key}
           At(k) == CHOOSE n \in new : Cardinality({m \in new : m <= n}) = k
<1>1. SnapshotRecover(q, es) = q \o [k \in 1..Cardinality(new) |-> es[At(k)]]
    BY DEF SnapshotRecover
<1>2. 1..Len(es) \subseteq 1..Len(q)
    OBVIOUS
<1>3. new = {}
    BY <1>2
<1>4. Cardinality(new) = 0
    BY <1>3, FS_EmptySet
<1> HIDE DEF new, At
<1>5. [k \in 1..Cardinality(new) |-> es[At(k)]] = <<>>
    BY <1>4
<1>6. q \o <<>> = q
    OBVIOUS
<1> QED  BY <1>1, <1>5, <1>6

\* The latest snapshot of a list is not the list, as long as it does not have it.
LEMMA LatestIs ==
    ASSUME NEW r \in Roots, NEW d, d.snaps \in Seq(Snap)
    PROVE  /\ d.snaps = <<>> => Latest(d) # r
           /\ IsOf(d.snaps, OnList(r)) => Latest(d) # r
           /\ IsOf(d.snaps, Full(r)) => Latest(d) = r
<1>1. PICK L \in Nat : L = Len(Listing[r])
    BY Constants
<1>2. PICK q \in Seq(Snap) : q = d.snaps
    OBVIOUS
<1>3. PICK S : S = {i \in 1..Len(q) : q[i].hash \in Roots}
    OBVIOUS
<1>4. Latest(d) = IF S = {} THEN NoHash ELSE q[CHOOSE i \in S : \A j \in S : j <= i].hash
    BY <1>2, <1>3 DEF Latest
<1>5. r # NoHash
    BY Constants
<1>6. S # {} => \E i \in S : \A j \in S : j <= i
    <2>1. Len(q) \in Nat /\ S \subseteq 1..Len(q)
        BY <1>3
    <2> QED  BY <2>1, Greatest
<1>7. CASE q = <<>>
    <2>1. S = {}
        BY <1>3, <1>7
    <2>2. ~IsOf(q, Full(r))
        BY <1>1, <1>7, IsOfFacts
    <2> QED  BY <1>2, <1>4, <1>5, <2>1, <2>2
<1>8. CASE IsOf(q, OnList(r))
    <2>1. Len(q) = L /\ \A k \in 1..L : q[k].hash # r
        BY <1>1, <1>8, IsOfFacts, Constants
    <2>2. Latest(d) # r
        BY <1>3, <1>4, <1>5, <1>6, <2>1
    <2>3. ~IsOf(q, Full(r))
        BY <1>1, <2>1, IsOfFacts
    <2> QED  BY <1>2, <2>2, <2>3
<1>9. CASE IsOf(q, Full(r))
    <2>1. Len(q) = L + 1 /\ q[L + 1].hash = r
        BY <1>1, <1>9, IsOfFacts
    <2>2. L + 1 \in S /\ \A j \in S : j <= L + 1
        BY <1>3, <2>1
    <2>3. \A i \in S : (\A j \in S : j <= i) => i = L + 1
        BY <1>3, <2>1, <2>2
    <2>4. Latest(d) = r
        BY <1>4, <2>1, <2>2, <2>3
    <2>5. ~IsOf(q, OnList(r)) /\ q # <<>>
        BY <1>1, <2>1, IsOfFacts
    <2> QED  BY <1>2, <2>4, <2>5
<1> QED  BY <1>2, <1>7, <1>8, <1>9

-----------------------------------------------------------------------------
\* The steps that write nothing.

\* What is not about the process and the list.
TablesInv ==
    /\ StateInv
    /\ Good(db, idCounter, cut, Registered(db))
    /\ Good(disk, idCounter, cut, Saved(disk))
    /\ QueueInv(db, queue, cut) /\ FrontInv(queue)

LEMMA NothingWritten ==
    ASSUME RecoveryInv, UNCHANGED <<db, disk, index, cut>>, finished' \in BOOLEAN,
           pc # "ready_commit", pc' = "ready_commit" => cur' \in Saved(db)
    PROVE  TablesInv'
<1>1. Registered(db)' = Registered(db)
    BY DEF Registered, Saved
<1>2. queue' = queue /\ idCounter' = idCounter
    BY DEF index
<1>3. /\ StateInv /\ Good(db, idCounter, cut, Registered(db))
      /\ Good(disk, idCounter, cut, Saved(disk)) /\ QueueInv(db, queue, cut) /\ FrontInv(queue)
    BY DEF RecoveryInv
<1>4. StateInv'
    BY <1>2, <1>3 DEF StateInv
<1> QED  BY <1>1, <1>2, <1>3, <1>4 DEF TablesInv

LEMMA RecoverStep ==
    ASSUME RecoveryInv, Recover
    PROVE  RecoveryInv'
<1>1. /\ pc = "idle" /\ pc' = "blobs" /\ left' = Blobs
      /\ UNCHANGED <<db, disk, index, after, root, cur, stack, tops, restarts, finished, cut>>
    BY DEF Recover, walk, history
<1>2. TablesInv'
    BY <1>1, NothingWritten DEF RecoveryInv, StateInv
<1>3. NotDone' = NotDone /\ queue' = queue
    BY <1>1 DEF NotDone, index
<1>4. PhaseInv'
    BY <1>1, <1>3 DEF RecoveryInv, PhaseInv, Working, Resting, WalkLeavesNothing
<1>5. ListInv'
    BY <1>1 DEF RecoveryInv, ListInv
<1> QED  BY <1>2, <1>4, <1>5 DEF RecoveryInv, TablesInv

LEMMA BlobExistsStep ==
    ASSUME RecoveryInv, NEW b, BlobExists(b)
    PROVE  RecoveryInv'
<1>1. /\ pc = "blobs" /\ pc' = "blobs" /\ left' = left \ {b} /\ b \in DOMAIN db.blobs
      /\ UNCHANGED <<db, disk, index, after, root, cur, stack, tops, restarts, finished, cut>>
    BY DEF BlobExists, walk, history
<1>2. TablesInv'
    BY <1>1, NothingWritten DEF RecoveryInv, StateInv
<1>3. NotDone' = NotDone /\ queue' = queue
    BY <1>1 DEF NotDone, index
<1>4. left' \subseteq Blobs /\ Blobs \ left' \subseteq DOMAIN db.blobs
    BY <1>1 DEF RecoveryInv, PhaseInv
<1>5. PhaseInv'
    BY <1>1, <1>3, <1>4 DEF RecoveryInv, PhaseInv, Working, Resting, WalkLeavesNothing
<1>6. ListInv'
    BY <1>1 DEF RecoveryInv, ListInv
<1> QED  BY <1>2, <1>5, <1>6 DEF RecoveryInv, TablesInv

LEMMA NoRootStep ==
    ASSUME RecoveryInv, NoRoot
    PROVE  RecoveryInv'
<1>1. /\ pc = "blobs" /\ pc' = "panicked"
      /\ UNCHANGED <<db, disk, index, after, left, root, cur, stack, tops, restarts, finished, cut>>
    BY DEF NoRoot, walk, history
<1>2. TablesInv'
    BY <1>1, NothingWritten DEF RecoveryInv, StateInv
<1>3. NotDone' = NotDone /\ queue' = queue
    BY <1>1 DEF NotDone, index
<1>4. PhaseInv'
    BY <1>1, <1>3 DEF RecoveryInv, PhaseInv, Working, Resting, WalkLeavesNothing
<1>5. ListInv'
    BY <1>1 DEF RecoveryInv, ListInv
<1> QED  BY <1>2, <1>4, <1>5 DEF RecoveryInv, TablesInv

LEMMA RecoverReturnsStep ==
    ASSUME RecoveryInv, RecoverReturns
    PROVE  RecoveryInv'
<1>1. /\ pc = "recovered" /\ pc' = "idle" /\ finished' = TRUE
      /\ UNCHANGED <<db, disk, index, after, left, root, cur, stack, tops, restarts, cut>>
    BY DEF RecoverReturns, walk
<1>2. TablesInv'
    BY <1>1, NothingWritten
<1>3. NotDone' = NotDone /\ queue' = queue
    BY <1>1 DEF NotDone, index
<1>4. PhaseInv'
    BY <1>1, <1>3 DEF RecoveryInv, PhaseInv, Working, Resting, WalkLeavesNothing
<1>5. after = "recovered"
    BY <1>1 DEF RecoveryInv, PhaseInv
<1>6. ListInv'
    BY <1>1, <1>5 DEF RecoveryInv, ListInv
<1> QED  BY <1>2, <1>4, <1>6 DEF RecoveryInv, TablesInv

LEMMA ResumeReturnsStep ==
    ASSUME RecoveryInv, ResumeReturns
    PROVE  RecoveryInv'
<1>1. /\ pc = "resume" /\ pc' = after /\ NotDone = {}
      /\ UNCHANGED <<db, disk, index, after, left, root, cur, stack, tops, restarts, finished, cut>>
    BY DEF ResumeReturns, walk, history
<1>2. after \in {"idle", "register_root", "recovered"}
    BY DEF RecoveryInv, PhaseInv
<1>3. TablesInv'
    BY <1>1, <1>2, NothingWritten DEF RecoveryInv, StateInv
<1>4. NotDone' = NotDone /\ queue' = queue
    BY <1>1 DEF NotDone, index
<1>5. PhaseInv'
    BY <1>1, <1>2, <1>4 DEF RecoveryInv, PhaseInv, Working, Resting, WalkLeavesNothing
<1>6. ListInv'
    BY <1>1, <1>2 DEF RecoveryInv, ListInv
<1> QED  BY <1>3, <1>5, <1>6 DEF RecoveryInv, TablesInv

\* The first of the snapshots that are not Done.
LEMMA NextSnapIs ==
    ASSUME RecoveryInv, NotDone # {}
    PROVE  NextSnap \in 1..Len(db.snaps) /\ db.snaps[NextSnap] \in Snap
<1>1. IsTables(db, idCounter)
    BY DEF RecoveryInv, Good
<1>2. PICK S : S = NotDone
    OBVIOUS
<1>3. S \subseteq 1..Len(db.snaps) /\ S \subseteq Nat
    BY <1>2 DEF NotDone
<1>4. \E s \in S : \A t \in S : s <= t
    BY <1>2, <1>3, Least
<1>5. NextSnap \in S
    BY <1>2, <1>4 DEF NextSnap
<1> QED  BY <1>1, <1>3, <1>5 DEF IsTables

LEMMA ResumeRecoveryStep ==
    ASSUME RecoveryInv, ResumeRecovery
    PROVE  RecoveryInv'
<1>1. PICK s : s = NextSnap
    OBVIOUS
<1>2. /\ pc = "resume" /\ NotDone # {} /\ db.snaps[s].tag = "RecoverInProgress"
      /\ cur' = s /\ stack' = <<db.snaps[s].hash>> /\ tops' = {} /\ pc' = "walk"
      /\ UNCHANGED <<db, disk, index, after, left, root, restarts, finished, cut>>
    BY <1>1 DEF ResumeRecovery, history
<1>3. s \in 1..Len(db.snaps) /\ db.snaps[s].hash \in Hash
    BY <1>1, <1>2, NextSnapIs DEF Snap
<1>4. TablesInv'
    BY <1>2, NothingWritten DEF RecoveryInv, StateInv
<1>5. queue' = EmptyTable
    BY <1>2 DEF RecoveryInv, PhaseInv, WalkLeavesNothing, index
<1>6. PICK f \in Hash : f = db.snaps[s].hash
    BY <1>3
<1>7. WalkInv(db, EmptyTable, f, <<f>>, {})
    <2>1. <<f>> \in Seq(Hash) /\ Range(<<f>>) = {f}
        BY DEF Range
    <2>2. DOMAIN EmptyTable = {}
        BY DEF EmptyTable
    <2> QED  BY <2>1, <2>2, NeedClosed DEF WalkInv
<1>8. WalkInv(db, queue, Final, stack, tops)'
    BY <1>2, <1>5, <1>6, <1>7 DEF Final
<1>9. PhaseInv'
    BY <1>2, <1>3, <1>8 DEF RecoveryInv, PhaseInv, Working, Resting, WalkLeavesNothing
<1>10. ListInv'
    BY <1>2 DEF RecoveryInv, ListInv
<1> QED  BY <1>4, <1>9, <1>10 DEF RecoveryInv, TablesInv

LEMMA ResumeFinalizeStep ==
    ASSUME RecoveryInv, ResumeFinalize
    PROVE  RecoveryInv'
<1>1. PICK s : s = NextSnap
    OBVIOUS
<1>2. /\ pc = "resume" /\ NotDone # {} /\ db.snaps[s].tag = "Complete"
      /\ cur' = s /\ pc' = "ready_commit"
      /\ UNCHANGED <<db, disk, index, after, left, root, stack, tops, restarts, finished, cut>>
    BY <1>1 DEF ResumeFinalize, history
<1>3. s \in Saved(db)
    BY <1>1, <1>2, NextSnapIs DEF Saved
<1>4. TablesInv'
    BY <1>2, <1>3, NothingWritten DEF RecoveryInv, StateInv
<1>5. \A h \in Need[db.snaps[s].hash] : IsReady(db, h)
    BY <1>3 DEF RecoveryInv, Good, ThereInv
<1>6. s \in 1..Len(db.snaps) /\ Final' = db.snaps[s].hash
    BY <1>2, <1>3 DEF Saved, Final
<1>7. \A h \in Need[Final'] : IsReady(db', h)
    BY <1>2, <1>5, <1>6
<1>8. queue' = EmptyTable
    BY <1>2 DEF RecoveryInv, PhaseInv, WalkLeavesNothing, index
<1>9. PhaseInv'
    BY <1>2, <1>6, <1>7, <1>8 DEF RecoveryInv, PhaseInv, Working, Resting, WalkLeavesNothing
<1>10. ListInv'
    BY <1>2 DEF RecoveryInv, ListInv
<1> QED  BY <1>4, <1>9, <1>10 DEF RecoveryInv, TablesInv

-----------------------------------------------------------------------------
\* The steps that save the tables between two walks.

\* Outside of a walk all rows are ready.
LEMMA NotWalking ==
    ASSUME RecoveryInv, pc # "walk"
    PROVE  queue = EmptyTable /\ AllReady(db)
<1>1. queue = EmptyTable
    BY DEF RecoveryInv, PhaseInv, WalkLeavesNothing
<1>2. QueueInv(db, EmptyTable, cut)
    BY <1>1 DEF RecoveryInv
<1> QED  BY <1>1, <1>2, NothingQueued

LEMMA AllSaved ==
    ASSUME RecoveryInv, pc # "walk", pc' # "ready_commit",
           disk' = db', Good(db', idCounter, cut, Saved(db')), AllReady(db'),
           \E n \in Nat : DOMAIN db'.blobs \subseteq 1..n,
           queue' = queue, idCounter' = idCounter, cut' = cut, finished' \in BOOLEAN
    PROVE  TablesInv'
<1>1. Registered(db)' = Saved(db')
    BY DEF Registered, Saved
<1>2. QueueInv(db', queue', cut') /\ FrontInv(queue')
    BY NotWalking, NothingQueued
<1>3. StateInv'
    BY DEF RecoveryInv, StateInv
<1>4. Good(db', idCounter', cut', Registered(db)') /\ Good(disk', idCounter', cut', Saved(disk'))
    BY <1>1
<1> QED  BY <1>2, <1>3, <1>4 DEF TablesInv

\* Outside of ready_commit what is counted is saved.
LEMMA RegisteredIsSaved ==
    ASSUME RecoveryInv, pc # "ready_commit"
    PROVE  Good(db, idCounter, cut, Saved(db)) /\ IsTables(db, idCounter)
<1>1. Registered(db) = Saved(db)
    BY DEF Registered, Saved
<1> QED  BY <1>1 DEF RecoveryInv, Good

\* A blob may come as long as there is no list.
LEMMA NoListYet ==
    ASSUME RecoveryInv, ~Settled(db) \/ pc = "blob_commit"
    PROVE  db.snaps = <<>> /\ ~finished /\ after = "idle"
BY DEF RecoveryInv, ListInv

LEMMA BlobInAirStep ==
    ASSUME RecoveryInv, NEW b, BlobInAir(b)
    PROVE  RecoveryInv'
<1>1. PICK B : B = With(db.blobs, b, "InProgress")
    OBVIOUS
<1>2. /\ pc = "blobs" /\ b \in left /\ b \notin DOMAIN db.blobs
      /\ db' = [db EXCEPT !.blobs = B] /\ disk' = db'
      /\ pc' = "blob_commit" /\ left' = {b} \cup left /\ cur' = b
      /\ queue' = queue /\ idCounter' = idCounter
      /\ UNCHANGED <<after, root, stack, tops, restarts, finished, cut>>
    BY <1>1 DEF BlobInAir, Save, index, history
<1>3. left \subseteq Blobs /\ Blobs \ left \subseteq DOMAIN db.blobs /\ NotDone = {}
    BY <1>2 DEF RecoveryInv, PhaseInv, Resting
<1>4. Good(db, idCounter, cut, Saved(db)) /\ IsTables(db, idCounter)
    BY <1>2, RegisteredIsSaved
<1>5. /\ DOMAIN B = DOMAIN db.blobs \cup {b} /\ DOMAIN B \subseteq Blobs
      /\ B \in [DOMAIN B -> {"InProgress", "Done"}]
    BY <1>1, <1>2, <1>3, <1>4 DEF With, IsTables
<1>6. DOMAIN db.blobs \subseteq DOMAIN B
    BY <1>5
<1>7. /\ Good(db', idCounter, cut, Saved(db))
      /\ db'.rows = db.rows /\ db'.snaps = db.snaps /\ db'.blobs = B
    BY <1>2, <1>4, <1>5, <1>6, BlobsKeep
<1>8. Saved(db') = Saved(db) /\ AllReady(db')
    BY <1>2, <1>7, NotWalking DEF Saved, AllReady
<1>9. \E n \in Nat : DOMAIN db'.blobs \subseteq 1..n
    <2>1. PICK n \in Nat : DOMAIN db.blobs \subseteq 1..n
        BY DEF RecoveryInv, StateInv
    <2>2. b \in Nat /\ b # 0
        BY <1>2, <1>3, RecoveryAssumption DEF Blobs
    <2>3. DOMAIN B \subseteq 1..(n + b)
        BY <1>5, <2>1, <2>2
    <2>4. n + b \in Nat
        BY <2>2
    <2> QED  BY <1>7, <2>3, <2>4
<1>10. TablesInv'
    BY <1>2, <1>7, <1>8, <1>9, AllSaved DEF RecoveryInv, StateInv
<1>11. NotDone' = NotDone
    BY <1>7 DEF NotDone
<1>12. queue' = EmptyTable
    BY <1>2, NotWalking
<1>13. cur' \in DOMAIN db'.blobs /\ left' \subseteq Blobs /\ Blobs \ left' \subseteq DOMAIN db'.blobs
    BY <1>2, <1>3, <1>5, <1>7
<1>14. PhaseInv'
    BY <1>2, <1>3, <1>11, <1>12, <1>13 DEF RecoveryInv, PhaseInv, Working, Resting, WalkLeavesNothing
<1>15. db.snaps = <<>> /\ ~finished /\ after = "idle"
    <2>1. ~Settled(db)
        BY <1>2, <1>3 DEF Settled
    <2> QED  BY <2>1, NoListYet
<1>16. ListInv'
    BY <1>2, <1>7, <1>15 DEF ListInv
<1> QED  BY <1>10, <1>14, <1>16 DEF RecoveryInv, TablesInv

LEMMA BlobCommitStep ==
    ASSUME RecoveryInv, BlobCommit
    PROVE  RecoveryInv'
<1>1. PICK B : B = [db.blobs EXCEPT ![cur] = "Done"]
    OBVIOUS
<1>2. /\ pc = "blob_commit"
      /\ db' = [db EXCEPT !.blobs = B] /\ disk' = db'
      /\ pc' = "blobs" /\ left' = left \ {cur}
      /\ queue' = queue /\ idCounter' = idCounter
      /\ UNCHANGED <<after, root, cur, stack, tops, restarts, finished, cut>>
    BY <1>1 DEF BlobCommit, Save, index, history, walk
<1>3. /\ left \subseteq Blobs /\ Blobs \ left \subseteq DOMAIN db.blobs /\ NotDone = {}
      /\ cur \in DOMAIN db.blobs
    BY <1>2 DEF RecoveryInv, PhaseInv, Resting
<1>4. Good(db, idCounter, cut, Saved(db)) /\ IsTables(db, idCounter)
    BY <1>2, RegisteredIsSaved
<1>5. /\ DOMAIN B = DOMAIN db.blobs /\ DOMAIN B \subseteq Blobs
      /\ B \in [DOMAIN B -> {"InProgress", "Done"}]
    BY <1>1, <1>4 DEF IsTables
<1>6. DOMAIN db.blobs \subseteq DOMAIN B
    BY <1>5
<1>7. /\ Good(db', idCounter, cut, Saved(db))
      /\ db'.rows = db.rows /\ db'.snaps = db.snaps /\ db'.blobs = B
    BY <1>2, <1>4, <1>5, <1>6, BlobsKeep
<1>8. Saved(db') = Saved(db) /\ AllReady(db')
    BY <1>2, <1>7, NotWalking DEF Saved, AllReady
<1>9. \E n \in Nat : DOMAIN db'.blobs \subseteq 1..n
    BY <1>5, <1>7 DEF RecoveryInv, StateInv
<1>10. TablesInv'
    BY <1>2, <1>7, <1>8, <1>9, AllSaved DEF RecoveryInv, StateInv
<1>11. NotDone' = NotDone
    BY <1>7 DEF NotDone
<1>12. queue' = EmptyTable
    BY <1>2, NotWalking
<1>13. left' \subseteq Blobs /\ Blobs \ left' \subseteq DOMAIN db'.blobs
    BY <1>2, <1>3, <1>5, <1>7
<1>14. PhaseInv'
    BY <1>2, <1>3, <1>11, <1>12, <1>13 DEF RecoveryInv, PhaseInv, Working, Resting, WalkLeavesNothing
<1>15. db.snaps = <<>> /\ ~finished /\ after = "idle"
    BY <1>2, NoListYet
<1>16. ListInv'
    BY <1>2, <1>7, <1>15 DEF ListInv
<1> QED  BY <1>10, <1>14, <1>16 DEF RecoveryInv, TablesInv

LEMMA PickRootStep ==
    ASSUME RecoveryInv, PickRoot
    PROVE  RecoveryInv'
<1>1. PICK r : r = RootOf(db)
    OBVIOUS
<1>2. PICK S : S = SnapshotRecover(db.snaps, OnList(r))
    OBVIOUS
<1>3. /\ pc = "blobs" /\ left = {} /\ DoneRoots(db) # {} /\ root' = r
      /\ db' = [db EXCEPT !.snaps = S] /\ disk' = db'
      /\ pc' = "resume" /\ after' = "register_root"
      /\ queue' = queue /\ idCounter' = idCounter
      /\ UNCHANGED <<left, cur, stack, tops, restarts, finished, cut>>
    BY <1>1, <1>2 DEF PickRoot, RootOf, Save, index, history, walk
<1>4. Settled(db)
    BY <1>3 DEF RecoveryInv, PhaseInv, Settled
<1>5. \E n \in Nat : DOMAIN db.blobs \subseteq 1..n
    BY DEF RecoveryInv, StateInv
<1>6. r \in Roots
    BY <1>1, <1>3, <1>5, RootOfIsRoot
<1>7. Good(db, idCounter, cut, Saved(db)) /\ db.snaps \in Seq(Snap)
    BY <1>3, RegisteredIsSaved DEF IsTables
<1>8. PICK es \in Seq(Snap) : es = OnList(r)
    BY <1>6, EntriesOf
<1>9. PICK L \in Nat : L = Len(Listing[r])
    BY <1>6, Constants
<1>10. Len(es) = L /\ \A k \in 1..L : es[k].key = k /\ es[k].tag = "RecoverInProgress"
    BY <1>6, <1>8, <1>9, EntriesOf, EntryFields
<1>11. db.snaps = <<>> \/ IsOf(db.snaps, OnList(r)) \/ IsOf(db.snaps, Full(r))
    BY <1>1 DEF RecoveryInv, ListInv
<1>12. /\ Extends(db.snaps, S)
       /\ IsOf(S, OnList(r)) \/ IsOf(S, Full(r))
       /\ finished => IsOf(S, Full(r))
    <2>1. CASE db.snaps = <<>>
        <3>1. S = es
            BY <1>2, <1>8, <2>1, RecoverAll
        <3>2. Len(db.snaps) = 0
            BY <2>1
        <3>3. Extends(db.snaps, S)
            BY <1>10, <3>1, <3>2 DEF Extends
        <3>4. IsOf(S, OnList(r))
            BY <1>8, <3>1 DEF IsOf
        <3>5. ~finished
            BY <1>6, <1>1, <1>9, <3>2, IsOfFacts DEF RecoveryInv, ListInv
        <3> QED  BY <3>3, <3>4, <3>5
    <2>2. CASE IsOf(db.snaps, OnList(r)) \/ IsOf(db.snaps, Full(r))
        <3>1. Len(es) <= Len(db.snaps) /\ \A k \in 1..L : db.snaps[k].key = k
            BY <1>6, <1>9, <1>10, <2>2, IsOfFacts
        <3>2. S = db.snaps
            BY <1>2, <1>7, <1>8, <1>10, <3>1, RecoverNone
        <3>3. Extends(db.snaps, S)
            BY <1>7, <3>2 DEF Extends
        <3>4. finished => IsOf(S, Full(r))
            BY <1>1, <3>2 DEF RecoveryInv, ListInv
        <3> QED  BY <2>2, <3>2, <3>3, <3>4
    <2> QED  BY <1>11, <2>1, <2>2
<1>13. /\ Good(db', idCounter, cut, Saved(db'))
       /\ db'.rows = db.rows /\ db'.snaps = S /\ db'.blobs = db.blobs
    <2>1. Extends(db.snaps, S) /\ db' = [db EXCEPT !.snaps = S]
        BY <1>3, <1>12
    <2>2. PICK e : e = db'
        OBVIOUS
    <2>3. e = [db EXCEPT !.snaps = S]
        BY <2>1, <2>2
    <2>4. /\ Good(e, idCounter, cut, Saved(e))
          /\ e.rows = db.rows /\ e.snaps = S /\ e.blobs = db.blobs
        BY <1>7, <2>1, <2>3, SnapsKeep, SMTT(30)
    <2> QED  BY <2>2, <2>4
<1>14. AllReady(db')
    BY <1>3, <1>13, NotWalking DEF AllReady
<1>15. TablesInv'
    BY <1>3, <1>5, <1>13, <1>14, AllSaved DEF RecoveryInv, StateInv
<1>16. PhaseInv'
    BY <1>3, NotWalking DEF RecoveryInv, PhaseInv, Working, Resting, WalkLeavesNothing
<1>17. Settled(db') /\ RootOf(db') = r
    BY <1>1, <1>4, <1>13, SameBlobs
<1>18. db'.snaps = <<>> => OnList(r) = <<>>
    <2>1. ASSUME S = <<>> PROVE es = <<>>
        <3>1. Len(S) = 0
            BY <2>1
        <3>2. L = 0
            BY <1>6, <1>9, <1>12, <3>1, IsOfFacts
        <3> QED  BY <1>10, <3>2
    <2> QED  BY <1>8, <1>13, <2>1
<1>19. ListInv'
    BY <1>3, <1>12, <1>13, <1>17, <1>18 DEF ListInv
<1> QED  BY <1>15, <1>16, <1>19 DEF RecoveryInv, TablesInv

LEMMA RegisterRootStep ==
    ASSUME RecoveryInv, RegisterRoot
    PROVE  RecoveryInv'
<1>1. PICK r : r = RootOf(db)
    OBVIOUS
<1>2. pc = "register_root" /\ after = "register_root"
    BY DEF RegisterRoot, RecoveryInv, PhaseInv
<1>3. root = r /\ Settled(db) /\ (db.snaps = <<>> => OnList(r) = <<>>)
    BY <1>1, <1>2 DEF RecoveryInv, ListInv
<1>4. \E n \in Nat : DOMAIN db.blobs \subseteq 1..n
    BY DEF RecoveryInv, StateInv
<1>5. r \in Roots
    BY <1>1, <1>3, <1>4, RootOfIsRoot DEF Settled
<1>6. Good(db, idCounter, cut, Saved(db)) /\ db.snaps \in Seq(Snap)
    BY <1>2, RegisteredIsSaved DEF IsTables
<1>7. db.snaps = <<>> \/ IsOf(db.snaps, OnList(r)) \/ IsOf(db.snaps, Full(r))
    BY <1>1 DEF RecoveryInv, ListInv
<1>8. CASE Latest(db) = r
    <2>1. IsOf(db.snaps, Full(r))
        BY <1>5, <1>6, <1>7, <1>8, LatestIs
    <2>2. /\ pc' = "idle" /\ finished' = TRUE
          /\ UNCHANGED <<db, disk, index, after, left, root, cur, stack, tops, restarts, cut>>
        BY <1>3, <1>8 DEF RegisterRoot, walk
    <2>3. TablesInv'
        BY <1>2, <2>2, NothingWritten
    <2>4. NotDone' = NotDone /\ queue' = queue
        BY <2>2 DEF NotDone, index
    <2>5. PhaseInv'
        BY <1>2, <2>2, <2>4 DEF RecoveryInv, PhaseInv, Working, Resting, WalkLeavesNothing
    <2>6. ListInv'
        BY <1>1, <1>3, <2>1, <2>2 DEF RecoveryInv, ListInv
    <2> QED  BY <2>3, <2>5, <2>6 DEF RecoveryInv, TablesInv
<1>9. CASE Latest(db) # r
    <2>1. IsOf(db.snaps, OnList(r))
        <3>1. ASSUME db.snaps = <<>> PROVE IsOf(db.snaps, OnList(r))
            <4>1. OnList(r) = db.snaps
                BY <1>3, <3>1
            <4> QED  BY <4>1 DEF IsOf
        <3> QED  BY <1>5, <1>6, <1>7, <1>9, <3>1, LatestIs
    <2>2. PICK S : S = Append(db.snaps, Entry(0, r))
        OBVIOUS
    <2>3. /\ db' = [db EXCEPT !.snaps = S] /\ disk' = db'
          /\ pc' = "resume" /\ after' = "recovered"
          /\ queue' = queue /\ idCounter' = idCounter
          /\ UNCHANGED <<left, root, cur, stack, tops, restarts, finished, cut>>
        BY <1>3, <1>9, <2>2 DEF RegisterRoot, Save, index, walk
    <2>4. PICK x \in Snap : x = Entry(0, r)
        BY <1>5, Constants DEF Entry, Snap, SnapTag
    <2>5. x.key = 0 /\ x.hash = r /\ x.tag = "RecoverInProgress"
        BY <2>4, EntryFields
    <2>6. PICK M \in Nat : M = Len(db.snaps)
        BY <1>6
    <2>7. /\ S \in Seq(Snap) /\ Len(S) = M + 1
          /\ \A k \in 1..M : S[k] = db.snaps[k]
          /\ S[M + 1] = x
        BY <1>6, <2>2, <2>4, <2>6
    <2>8. Extends(db.snaps, S)
        BY <2>5, <2>6, <2>7 DEF Extends
    <2>9. IsOf(S, Full(r))
        BY <1>5, <2>1, <2>5, <2>6, <2>7, IsOfFacts
    <2>10. /\ Good(db', idCounter, cut, Saved(db'))
           /\ db'.rows = db.rows /\ db'.snaps = S /\ db'.blobs = db.blobs
        BY <1>6, <2>3, <2>8, SnapsKeep
    <2>11. AllReady(db')
        BY <1>2, <2>10, NotWalking DEF AllReady
    <2>12. TablesInv'
        BY <1>2, <1>4, <2>3, <2>10, <2>11, AllSaved DEF RecoveryInv, StateInv
    <2>13. PhaseInv'
        BY <1>2, <2>3, NotWalking DEF RecoveryInv, PhaseInv, Working, Resting, WalkLeavesNothing
    <2>14. Settled(db') /\ RootOf(db') = r
        BY <1>1, <1>3, <2>10, SameBlobs
    <2>15. S # <<>>
        BY <2>7
    <2>16. ListInv'
        BY <1>3, <2>3, <2>9, <2>10, <2>14, <2>15 DEF ListInv
    <2> QED  BY <2>12, <2>13, <2>16 DEF RecoveryInv, TablesInv
<1> QED  BY <1>8, <1>9

-----------------------------------------------------------------------------
\* The recovery of one snapshot.

\* Tags are nothing to the list.
LEMMA SameList ==
    ASSUME RecoveryInv, db'.blobs = db.blobs,
           db'.snaps \in Seq(Snap), db.snaps \in Seq(Snap), Len(db'.snaps) = Len(db.snaps),
           \A k \in 1..Len(db.snaps) : /\ db'.snaps[k].key = db.snaps[k].key
                                       /\ db'.snaps[k].hash = db.snaps[k].hash,
           pc' # "blob_commit", root' = root, finished' = finished, after' = after
    PROVE  ListInv'
<1>1. db'.snaps = <<>> <=> db.snaps = <<>>
    OBVIOUS
<1>2. \A es : IsOf(db.snaps, es) => IsOf(db'.snaps, es)
    BY DEF IsOf
<1>3. (Settled(db') <=> Settled(db)) /\ RootOf(db') = RootOf(db)
    BY SameBlobs
<1> QED  BY <1>1, <1>2, <1>3 DEF RecoveryInv, ListInv

LEMMA VisitStep ==
    ASSUME RecoveryInv, Visit
    PROVE  RecoveryInv'
<1>1. PICK h : h = Head(stack)
    OBVIOUS
<1>2. PICK hs : hs = Append(Kids[h], h)
    OBVIOUS
<1>3. PICK x : x = Index
    OBVIOUS
<1>4. PICK r : r = ReserveAll(x, hs)
    OBVIOUS
<1>5. PICK y : y = Recovered(r, h)
    OBVIOUS
<1>6. /\ pc = "walk" /\ pc' = "walk" /\ stack # <<>> /\ BlobOf[h] \in DOMAIN db.blobs
      /\ db' = y.db /\ queue' = y.queue /\ idCounter' = y.next
      /\ disk' = disk \/ disk' \in FlushedIn(x, hs) \/ disk' = y.db
      /\ stack' = Kids[h] \o Lists[h] \o Tail(stack)
      /\ tops' = tops \cup Range(Lists[h])
      /\ UNCHANGED <<after, left, root, cur, restarts, finished, cut>>
    BY <1>1, <1>2, <1>3, <1>4, <1>5 DEF Visit, Reserved, history
<1>7. /\ cur \in 1..Len(db.snaps) /\ db.snaps[cur].tag = "RecoverInProgress"
      /\ WalkInv(db, queue, Final, stack, tops)
    BY <1>6 DEF RecoveryInv, PhaseInv, Working
<1>8. Good(db, idCounter, cut, Saved(db)) /\ db.snaps \in Seq(Snap)
    BY <1>6, RegisteredIsSaved DEF IsTables
<1>9. PICK f \in Hash : f = db.snaps[cur].hash /\ f = Final
    <2>1. db.snaps[cur] \in Snap
        BY <1>7, <1>8
    <2> QED  BY <2>1 DEF Snap, Final
<1>10. WalkInv(db, queue, f, stack, tops)
    BY <1>7, <1>9
<1>11. h \in Hash /\ h \in Need[f]
    BY <1>1, <1>6, <1>10, HeadTail DEF WalkInv
<1>12. x = [db |-> db, queue |-> queue, next |-> idCounter]
    BY <1>3 DEF Index
<1>13. idCounter \in Nat /\ cut \in BOOLEAN /\ QueueInv(db, queue, cut) /\ FrontInv(queue)
    BY DEF RecoveryInv, StateInv
<1>14. hs \in Seq(Hash) /\ Range(hs) = Range(Kids[h]) \cup {h}
    BY <1>2, <1>11, ToReserve
<1>15. /\ y.next = idCounter + Cardinality(NewOf(x, hs))
       /\ y.next \in Nat /\ idCounter <= y.next
       /\ Good(y.db, y.next, cut, Saved(y.db))
       /\ y.db.snaps = db.snaps /\ y.db.blobs = db.blobs
       /\ QueueInv(y.db, y.queue, cut) /\ FrontInv(y.queue)
       /\ Advanced(db, queue, y.db, y.queue, h, Range(Kids[h]) \cup {h})
    <2>1. h \in Need[db.snaps[cur].hash]
        BY <1>9, <1>11
    <2>2. EntryDue(db, idCounter, cut, queue, h, cur, x)
        BY <1>6, <1>7, <1>8, <1>11, <1>12, <1>13, <2>1, Zenon DEF EntryDue
    <2>3. y = Recovered(ReserveAll(x, Append(Kids[h], h)), h)
        BY <1>2, <1>4, <1>5
    <2>4. EntryRecovered(db, idCounter, cut, queue, h, x, y)
        BY <2>2, <2>3, RecoverEntry
    <2> QED  BY <1>2, <2>4, Zenon DEF EntryRecovered
<1>16. Good(disk', y.next, cut, Saved(disk')) /\ disk'.snaps = db.snaps /\ disk'.blobs = db.blobs
    <2>1. CASE disk' = disk
        BY <1>13, <1>15, <2>1, MoreIds DEF RecoveryInv, StateInv
    <2>2. CASE disk' \in FlushedIn(x, hs)
        <3>1. Range(hs) \subseteq Need[db.snaps[cur].hash]
            BY <1>9, <1>11, <1>14, NeedClosed DEF Below
        <3> QED  BY <1>7, <1>8, <1>12, <1>13, <1>14, <1>15, <2>2, <3>1, FlushedKeeps
    <2>3. CASE disk' = y.db
        BY <1>15, <2>3
    <2> QED  BY <1>6, <2>1, <2>2, <2>3
<1>17. Registered(db)' = Saved(db')
    BY <1>6 DEF Registered, Saved
<1>18. StateInv'
    BY <1>6, <1>15, <1>16 DEF RecoveryInv, StateInv
<1>19. TablesInv'
    BY <1>6, <1>15, <1>16, <1>17, <1>18 DEF TablesInv
<1>20. WalkInv(y.db, y.queue, f, Kids[h] \o Lists[h] \o Tail(stack), tops \cup Range(Lists[h]))
    <2>1. DOMAIN queue \subseteq DOMAIN db.rows /\ DOMAIN y.queue \subseteq DOMAIN y.db.rows /\ Unique(y.db)
        BY <1>13, <1>15 DEF QueueInv, Good
    <2> QED  BY <1>1, <1>6, <1>10, <1>15, <2>1, WalkStep
<1>21. Final' = f /\ cur' = cur /\ db'.snaps = db.snaps
    BY <1>6, <1>9, <1>15 DEF Final
<1>22. WalkInv(db, queue, Final, stack, tops)'
    BY <1>6, <1>20, <1>21
<1>23. PhaseInv'
    BY <1>6, <1>7, <1>21, <1>22 DEF RecoveryInv, PhaseInv, Working, Resting, WalkLeavesNothing
<1>24. ListInv'
    BY <1>6, <1>8, <1>15, SameList
<1> QED  BY <1>19, <1>23, <1>24 DEF RecoveryInv, TablesInv

LEMMA TagTopsStep ==
    ASSUME RecoveryInv, TagTops
    PROVE  RecoveryInv'
<1>1. PICK I : I = {GetId(db, h) : h \in tops \ {Final}}
    OBVIOUS
<1>2. PICK a : a = SetAllTags(db, "Done")
    OBVIOUS
<1>3. /\ pc = "walk" /\ pc' = "register" /\ stack = <<>>
      /\ \A h \in tops : Located(db, h)
      /\ db' = SetTag(a, I, "Reserved") /\ disk' = db'
      /\ queue' = queue /\ idCounter' = idCounter
      /\ UNCHANGED <<after, left, root, cur, stack, tops, restarts, finished, cut>>
    BY <1>1, <1>2 DEF TagTops, Save, index, history, walk
<1>4. /\ cur \in 1..Len(db.snaps) /\ db.snaps[cur].tag = "RecoverInProgress"
      /\ WalkInv(db, queue, Final, stack, tops)
    BY <1>3 DEF RecoveryInv, PhaseInv, Working
<1>5. /\ Good(db, idCounter, cut, Saved(db)) /\ IsTables(db, idCounter)
      /\ db.snaps \in Seq(Snap) /\ Unique(db)
    BY <1>3, RegisteredIsSaved DEF IsTables, Good
<1>6. PICK f \in Hash : f = db.snaps[cur].hash /\ f = Final
    <2>1. db.snaps[cur] \in Snap
        BY <1>4, <1>5
    <2> QED  BY <2>1 DEF Snap, Final
<1>7. WalkInv(db, queue, f, <<>>, tops)
    BY <1>3, <1>4, <1>6
<1>8. Range(<<>>) = {}
    BY DEF Range
\* Nothing that is not complete is left, so nothing is.
<1>9. queue = EmptyTable
    <2>1. \A i \in DOMAIN queue : queue[i].complete
        BY <1>7, <1>8 DEF WalkInv
    <2>2. DOMAIN queue = {}
        BY <2>1 DEF RecoveryInv, FrontInv
    <2>3. queue \in [DOMAIN queue -> Waiting]
        BY DEF RecoveryInv, QueueInv
    <2> QED  BY <2>2, <2>3 DEF EmptyTable
<1>10. AllReady(db)
    <2>1. QueueInv(db, EmptyTable, cut)
        BY <1>9 DEF RecoveryInv
    <2> QED  BY <2>1, NothingQueued
<1>11. \A h \in Need[f] : IsReady(db, h) /\ Range(Lists[h]) \subseteq tops
    BY <1>7, <1>8, <1>10 DEF WalkInv, Met, IsReady, AllReady
<1>12. tops \ {f} = Tops[f] \ {f}
    <2>1. tops \subseteq Tops[f]
        BY <1>7 DEF WalkInv
    <2> QED  BY <1>11, <2>1, TopsFacts
<1>13. Retagged(db, a, DOMAIN db.rows, "Done")
    BY <1>2, <1>5, SetTagEffect DEF SetAllTags, RowTag
<1>14. /\ Good(a, idCounter, cut, Saved(db)) /\ IsTables(a, idCounter)
       /\ a.snaps = db.snaps /\ a.blobs = db.blobs
       /\ \A h : IsReady(db, h) => IsReady(a, h)
    BY <1>5, <1>13, RetaggedKeeps DEF Good
<1>15. Retagged(a, db', I, "Reserved")
    BY <1>3, <1>14, SetTagEffect DEF RowTag
<1>16. /\ Good(db', idCounter, cut, Saved(db))
       /\ db'.snaps = db.snaps /\ db'.blobs = db.blobs
       /\ \A h : IsReady(db, h) => IsReady(db', h)
    BY <1>14, <1>15, RetaggedKeeps
<1>17. /\ DOMAIN db'.rows = DOMAIN db.rows
       /\ \A i \in DOMAIN db.rows :
            /\ db'.rows[i].hash = db.rows[i].hash
            /\ db'.rows[i].ready = db.rows[i].ready
            /\ db'.rows[i].tag = IF i \in I THEN "Reserved" ELSE "Done"
    BY <1>13, <1>15 DEF Retagged
<1>18. AllReady(db') /\ Saved(db') = Saved(db)
    BY <1>10, <1>16, <1>17 DEF AllReady, Saved
<1>19. Registered(db)' = Saved(db')
    BY <1>3 DEF Registered, Saved
<1>20. StateInv'
    BY <1>3, <1>16 DEF RecoveryInv, StateInv
<1>21. QueueInv(db', queue', cut') /\ FrontInv(queue')
    BY <1>3, <1>9, <1>18, NothingQueued
<1>22. TablesInv'
    BY <1>3, <1>16, <1>18, <1>19, <1>20, <1>21 DEF TablesInv
<1>23. ASSUME NEW i \in DOMAIN db.rows
       PROVE  db'.rows[i].tag = "Reserved" <=> db.rows[i].hash \in Tops[f] \ {f}
    <2>1. i \in I <=> db.rows[i].hash \in tops \ {f}
        BY <1>1, <1>3, <1>5, <1>6, GetIdFinds DEF Located
    <2> QED  BY <1>12, <1>17, <2>1
<1>24. Final' = f
    BY <1>3, <1>6, <1>16 DEF Final
<1>25. \A i \in DOMAIN db'.rows : db'.rows[i].tag = "Reserved" <=> db'.rows[i].hash \in Tops[Final'] \ {Final'}
    BY <1>17, <1>23, <1>24
<1>26. \A h \in Need[Final'] : IsReady(db', h)
    BY <1>11, <1>16, <1>24
<1>27. PhaseInv'
    BY <1>3, <1>4, <1>9, <1>16, <1>25, <1>26 DEF RecoveryInv, PhaseInv, Working, Resting, WalkLeavesNothing
<1>28. ListInv'
    BY <1>3, <1>5, <1>16, SameList
<1> QED  BY <1>22, <1>27, <1>28 DEF RecoveryInv, TablesInv

LEMMA RegisterFinalStep ==
    ASSUME RecoveryInv, RegisterFinal
    PROVE  RecoveryInv'
<1>1. /\ pc = "register" /\ pc' = "ready_commit"
      /\ db' = Counted(db, GetId(db, Final)) /\ disk' = db
      /\ queue' = queue /\ idCounter' = idCounter
      /\ UNCHANGED <<after, left, root, cur, stack, tops, restarts, finished, cut>>
    BY DEF RegisterFinal, history, walk
<1>2. /\ cur \in 1..Len(db.snaps) /\ db.snaps[cur].tag = "RecoverInProgress"
      /\ \A h \in Need[Final] : IsReady(db, h)
      /\ \A i \in DOMAIN db.rows :
            db.rows[i].tag = "Reserved" <=> db.rows[i].hash \in Tops[Final] \ {Final}
    BY <1>1 DEF RecoveryInv, PhaseInv, Working
<1>3. Good(db, idCounter, cut, Saved(db)) /\ db.snaps \in Seq(Snap)
    BY <1>1, RegisteredIsSaved DEF IsTables
<1>4. queue = EmptyTable /\ AllReady(db)
    BY <1>1, NotWalking
<1>5. PICK F : F = Final /\ F = db.snaps[cur].hash
    BY DEF Final
<1>6. PICK e : e = db'
    OBVIOUS
<1>7. /\ Good(e, idCounter, cut, Saved(db) \cup {cur}) /\ AllReady(e)
      /\ e.snaps = db.snaps /\ e.blobs = db.blobs
      /\ \A h : IsReady(db, h) => IsReady(e, h)
    <2>1. /\ \A h \in Need[F] : IsReady(db, h)
          /\ \A i \in DOMAIN db.rows : db.rows[i].tag = "Reserved" <=> db.rows[i].hash \in Tops[F] \ {F}
          /\ e = Counted(db, GetId(db, F)) /\ F = db.snaps[cur].hash
        BY <1>1, <1>2, <1>5, <1>6
    <2>2. CountDue(db, idCounter, cut, cur, F)
        BY <1>2, <1>3, <1>4, <2>1, Zenon DEF CountDue
    <2> QED  BY <2>1, <2>2, CountedKeeps
<1>8. /\ Good(db', idCounter, cut, Saved(db) \cup {cur}) /\ AllReady(db')
      /\ db'.snaps = db.snaps /\ db'.blobs = db.blobs
      /\ \A h : IsReady(db, h) => IsReady(db', h)
    BY <1>6, <1>7
<1>9. Registered(db)' = Saved(db) \cup {cur}
    BY <1>1, <1>2, <1>8 DEF Registered, Saved
<1>10. StateInv'
    BY <1>1, <1>8 DEF RecoveryInv, StateInv
<1>11. QueueInv(db', queue', cut') /\ FrontInv(queue')
    BY <1>1, <1>4, <1>8, NothingQueued
<1>12. TablesInv'
    BY <1>1, <1>3, <1>8, <1>9, <1>10, <1>11 DEF TablesInv
<1>13. Final' = Final
    BY <1>1, <1>8 DEF Final
<1>14. \A h \in Need[Final'] : IsReady(db', h)
    BY <1>2, <1>8, <1>13
<1>15. PhaseInv'
    BY <1>1, <1>2, <1>4, <1>8, <1>14 DEF RecoveryInv, PhaseInv, Working, Resting, WalkLeavesNothing
<1>16. ListInv'
    BY <1>1, <1>3, <1>8, SameList
<1> QED  BY <1>12, <1>15, <1>16 DEF RecoveryInv, TablesInv

LEMMA ReadyCommitStep ==
    ASSUME RecoveryInv, ReadyCommit
    PROVE  RecoveryInv'
<1>1. /\ pc = "ready_commit" /\ pc' = "register_cleanup"
      /\ db' = SnapshotSetTag(db, cur, "Complete") /\ disk' = db'
      /\ queue' = queue /\ idCounter' = idCounter
      /\ UNCHANGED <<after, left, root, cur, stack, tops, restarts, finished, cut>>
    BY DEF ReadyCommit, Save, index, history, walk
<1>2. cur \in 1..Len(db.snaps) /\ \A h \in Need[db.snaps[cur].hash] : IsReady(db, h)
    BY <1>1 DEF RecoveryInv, PhaseInv, Working, Final
<1>3. Registered(db) = Saved(db) \cup {cur}
    BY <1>1, <1>2 DEF Registered, Saved
<1>4. PICK R : R = Registered(db) /\ R \subseteq 1..Len(db.snaps)
    BY DEF Registered
<1>5. Good(db, idCounter, cut, R) /\ IsTables(db, idCounter) /\ db.snaps \in Seq(Snap)
    BY <1>4 DEF RecoveryInv, Good, IsTables
<1>6. PICK e : e = db'
    OBVIOUS
<1>7. e = SnapshotSetTag(db, cur, "Complete") /\ "Complete" \in SnapTag
    BY <1>1, <1>6 DEF SnapTag
<1>8. Good(e, idCounter, cut, R) /\ e.rows = db.rows /\ e.blobs = db.blobs
    BY <1>2, <1>4, <1>5, <1>7, SnapTagKeeps
<1>9. /\ e.snaps \in Seq(Snap) /\ Len(e.snaps) = Len(db.snaps)
      /\ \A k \in 1..Len(db.snaps) :
            /\ e.snaps[k].key = db.snaps[k].key
            /\ e.snaps[k].hash = db.snaps[k].hash
            /\ e.snaps[k].tag = IF k = cur THEN "Complete" ELSE db.snaps[k].tag
    BY <1>2, <1>5, <1>7, SnapTagEffect
<1>10. Saved(e) = R
    BY <1>2, <1>3, <1>4, <1>9 DEF Saved
<1>11. AllReady(e)
    BY <1>1, <1>8, NotWalking DEF AllReady
<1>12. \E n \in Nat : DOMAIN e.blobs \subseteq 1..n
    BY <1>8 DEF RecoveryInv, StateInv
<1>13. TablesInv'
    BY <1>1, <1>6, <1>8, <1>10, <1>11, <1>12, AllSaved DEF RecoveryInv, StateInv
<1>14. cur' \in 1..Len(db'.snaps) /\ db'.snaps[cur'].tag = "Complete"
    BY <1>1, <1>2, <1>6, <1>9
<1>15. queue' = EmptyTable
    BY <1>1, NotWalking
<1>16. PhaseInv'
    BY <1>1, <1>14, <1>15 DEF RecoveryInv, PhaseInv, Working, Resting, WalkLeavesNothing
<1>17. ListInv'
    BY <1>1, <1>5, <1>6, <1>8, <1>9, SameList
<1> QED  BY <1>13, <1>16, <1>17 DEF RecoveryInv, TablesInv

LEMMA RegisterCleanupStep ==
    ASSUME RecoveryInv, RegisterCleanup
    PROVE  RecoveryInv'
<1>1. /\ pc = "register_cleanup" /\ pc' = "commit_done"
      /\ db' = SetAllTags(db, "Done") /\ disk' = db'
      /\ queue' = queue /\ idCounter' = idCounter
      /\ UNCHANGED <<after, left, root, cur, stack, tops, restarts, finished, cut>>
    BY DEF RegisterCleanup, Save, index, history, walk
<1>2. cur \in 1..Len(db.snaps) /\ db.snaps[cur].tag = "Complete"
    BY <1>1 DEF RecoveryInv, PhaseInv, Working
<1>3. /\ Good(db, idCounter, cut, Saved(db)) /\ IsTables(db, idCounter)
      /\ db.snaps \in Seq(Snap)
    BY <1>1, RegisteredIsSaved DEF IsTables
<1>4. PICK e : e = db'
    OBVIOUS
<1>5. Retagged(db, e, DOMAIN db.rows, "Done")
    BY <1>1, <1>3, <1>4, SetTagEffect DEF SetAllTags, RowTag
<1>6. Good(e, idCounter, cut, Saved(e)) /\ e.snaps = db.snaps /\ e.blobs = db.blobs
    BY <1>3, <1>5, RetaggedKeeps
<1>7. AllReady(e)
    BY <1>1, <1>5, NotWalking DEF AllReady, Retagged
<1>8. \E n \in Nat : DOMAIN e.blobs \subseteq 1..n
    BY <1>6 DEF RecoveryInv, StateInv
<1>9. TablesInv'
    BY <1>1, <1>4, <1>6, <1>7, <1>8, AllSaved DEF RecoveryInv, StateInv
<1>10. cur' \in 1..Len(db'.snaps) /\ db'.snaps[cur'].tag = "Complete"
    BY <1>1, <1>2, <1>4, <1>6
<1>11. queue' = EmptyTable
    BY <1>1, NotWalking
<1>12. PhaseInv'
    BY <1>1, <1>10, <1>11 DEF RecoveryInv, PhaseInv, Working, Resting, WalkLeavesNothing
<1>13. ListInv'
    BY <1>1, <1>3, <1>4, <1>6, SameList
<1> QED  BY <1>9, <1>12, <1>13 DEF RecoveryInv, TablesInv

LEMMA CommitDoneStep ==
    ASSUME RecoveryInv, CommitDone
    PROVE  RecoveryInv'
<1>1. /\ pc = "commit_done" /\ pc' = "resume"
      /\ db' = SnapshotSetTag(db, cur, "Done") /\ disk' = db'
      /\ queue' = queue /\ idCounter' = idCounter
      /\ UNCHANGED <<after, left, root, cur, stack, tops, restarts, finished, cut>>
    BY DEF CommitDone, Save, index, history, walk
<1>2. cur \in 1..Len(db.snaps) /\ db.snaps[cur].tag = "Complete"
    BY <1>1 DEF RecoveryInv, PhaseInv, Working
<1>3. /\ Good(db, idCounter, cut, Saved(db)) /\ IsTables(db, idCounter)
      /\ db.snaps \in Seq(Snap) /\ ThereInv(db)
    BY <1>1, RegisteredIsSaved DEF IsTables, Good
<1>4. PICK R : R = Saved(db) /\ R \subseteq 1..Len(db.snaps)
    BY DEF Saved
<1>5. cur \in R /\ \A h \in Need[db.snaps[cur].hash] : IsReady(db, h)
    BY <1>2, <1>3, <1>4 DEF ThereInv, Saved
<1>6. PICK e : e = db'
    OBVIOUS
<1>7. e = SnapshotSetTag(db, cur, "Done") /\ "Done" \in SnapTag
    BY <1>1, <1>6 DEF SnapTag
<1>8. Good(e, idCounter, cut, R) /\ e.rows = db.rows /\ e.blobs = db.blobs
    BY <1>2, <1>3, <1>4, <1>5, <1>7, SnapTagKeeps
<1>9. /\ e.snaps \in Seq(Snap) /\ Len(e.snaps) = Len(db.snaps)
      /\ \A k \in 1..Len(db.snaps) :
            /\ e.snaps[k].key = db.snaps[k].key
            /\ e.snaps[k].hash = db.snaps[k].hash
            /\ e.snaps[k].tag = IF k = cur THEN "Done" ELSE db.snaps[k].tag
    BY <1>2, <1>3, <1>7, SnapTagEffect
<1>10. Saved(e) = R
    BY <1>4, <1>5, <1>9 DEF Saved
<1>11. AllReady(e)
    BY <1>1, <1>8, NotWalking DEF AllReady
<1>12. \E n \in Nat : DOMAIN e.blobs \subseteq 1..n
    BY <1>8 DEF RecoveryInv, StateInv
<1>13. TablesInv'
    BY <1>1, <1>6, <1>8, <1>10, <1>11, <1>12, AllSaved DEF RecoveryInv, StateInv
<1>14. queue' = EmptyTable
    BY <1>1, NotWalking
<1>15. PhaseInv'
    BY <1>1, <1>14 DEF RecoveryInv, PhaseInv, Working, Resting, WalkLeavesNothing
<1>16. ListInv'
    BY <1>1, <1>3, <1>6, <1>8, <1>9, SameList
<1> QED  BY <1>13, <1>15, <1>16 DEF RecoveryInv, TablesInv

LEMMA RestartStep ==
    ASSUME RecoveryInv, Restart
    PROVE  RecoveryInv'
<1>1. /\ pc' = "resume" /\ after' = "idle" /\ queue' = EmptyTable
      /\ disk' = disk /\ finished' = finished
      /\ db' = [disk EXCEPT !.rows = ReadyRows(disk)]
      /\ idCounter' = MaxOf(DOMAIN disk.rows)
      /\ cut' = (cut \/ \E i \in DOMAIN db'.rows :
                            ~(Range(db'.rows[i].childs) \subseteq DOMAIN db'.rows))
    BY DEF Restart
<1>2. Good(disk, idCounter, cut, Saved(disk)) /\ IsTables(disk, idCounter)
    BY DEF RecoveryInv, Good
<1>3. idCounter \in Nat /\ cut \in BOOLEAN /\ finished \in BOOLEAN
    BY DEF RecoveryInv, StateInv
<1>4. disk.snaps = db.snaps /\ disk.blobs = db.blobs /\ \E n \in Nat : DOMAIN db.blobs \subseteq 1..n
    BY DEF RecoveryInv, StateInv
<1>5. PICK e, m, cc : e = db' /\ m = idCounter' /\ cc = cut'
    OBVIOUS
<1>6. /\ e = [disk EXCEPT !.rows = ReadyRows(disk)] /\ m = MaxOf(DOMAIN disk.rows)
      /\ cc = (cut \/ \E i \in DOMAIN e.rows : ~(Range(e.rows[i].childs) \subseteq DOMAIN e.rows))
    BY <1>1, <1>5
<1>7. cc \in BOOLEAN
    BY <1>6
<1>8. /\ Good(e, m, cc, Saved(e)) /\ Good(disk, m, cc, Saved(disk)) /\ m \in Nat
      /\ AllReady(e) /\ e.snaps = disk.snaps /\ e.blobs = disk.blobs
    <2>1. Reopened(disk, idCounter, cut, e, m, cc)
        BY <1>2, <1>3, <1>6, <1>7, Zenon DEF Reopened
    <2> QED  BY <2>1, ReadyPartKeeps
<1>9. Registered(db)' = Saved(db')
    BY <1>1 DEF Registered, Saved
<1>10. StateInv'
    BY <1>1, <1>3, <1>4, <1>5, <1>7, <1>8 DEF StateInv
<1>11. QueueInv(db', queue', cut') /\ FrontInv(queue')
    BY <1>1, <1>5, <1>8, NothingQueued
<1>12. TablesInv'
    BY <1>1, <1>5, <1>8, <1>9, <1>10, <1>11 DEF TablesInv
<1>13. PhaseInv'
    BY <1>1 DEF PhaseInv, Working, Resting, WalkLeavesNothing
<1>14. (Settled(db') <=> Settled(db)) /\ RootOf(db') = RootOf(db) /\ db'.snaps = db.snaps
    BY <1>4, <1>5, <1>8, SameBlobs
<1>15. ListInv'
    BY <1>1, <1>14 DEF RecoveryInv, ListInv
<1> QED  BY <1>12, <1>13, <1>15 DEF RecoveryInv, TablesInv

-----------------------------------------------------------------------------
\* The theorems.

\* A new client's tables are empty.
LEMMA InvInit == RecoveryInit => RecoveryInv
<1> SUFFICES ASSUME RecoveryInit PROVE RecoveryInv
    OBVIOUS
<1>1. /\ db = [rows |-> EmptyTable, cnt |-> EmptyTable, snaps |-> <<>>, blobs |-> EmptyTable]
      /\ disk = db /\ queue = EmptyTable /\ idCounter = 0 /\ pc = "resume" /\ after = "idle"
      /\ finished = FALSE /\ cut = FALSE
    BY DEF RecoveryInit
<1>2. db.rows = EmptyTable /\ db.cnt = EmptyTable /\ db.snaps = <<>> /\ db.blobs = EmptyTable
    BY <1>1
<1>3. DOMAIN EmptyTable = {} /\ \A S : EmptyTable \in [{} -> S]
    BY DEF EmptyTable
<1>4. \A i \in 1..0 : FALSE
    OBVIOUS
<1>5. Len(db.snaps) = 0 /\ db.snaps \in Seq(Snap)
    BY <1>2
<1>6. Saved(db) = {} /\ Registered(db) = {}
    BY <1>4, <1>5 DEF Saved, Registered
<1>7. IsTables(db, 0)
    BY <1>1, <1>2, <1>3, <1>5 DEF IsTables
<1>8. Good(db, 0, FALSE, {})
    BY <1>2, <1>3, <1>6, <1>7
       DEF Good, Unique, ThereInv, ReadyInv, CountInv, FromInv, ChildInv
<1>9. AllReady(db)
    BY <1>2, <1>3 DEF AllReady
<1>10. QueueInv(db, queue, cut) /\ FrontInv(queue)
    BY <1>1, <1>9, NothingQueued
<1>11. StateInv
    BY <1>1, <1>2, <1>3 DEF StateInv
<1>12. PhaseInv
    BY <1>1 DEF PhaseInv, Working, Resting, WalkLeavesNothing
<1>13. ListInv
    BY <1>1, <1>2 DEF ListInv
<1> QED  BY <1>1, <1>6, <1>8, <1>10, <1>11, <1>12, <1>13 DEF RecoveryInv

LEMMA InvStutter ==
    ASSUME RecoveryInv, UNCHANGED vars
    PROVE  RecoveryInv'
<1>1. UNCHANGED <<db, disk, queue, idCounter, pc, after, left, root, cur, stack, tops, finished, cut>>
    BY DEF vars
<1>2. Registered(db)' = Registered(db) /\ NotDone' = NotDone /\ Final' = Final
    BY <1>1 DEF Registered, NotDone, Final
<1>3. StateInv'
    BY <1>1 DEF RecoveryInv, StateInv
<1>4. PhaseInv'
    BY <1>1, <1>2 DEF RecoveryInv, PhaseInv, Working, Resting, WalkLeavesNothing
<1>5. ListInv'
    BY <1>1 DEF RecoveryInv, ListInv
<1> QED  BY <1>1, <1>2, <1>3, <1>4, <1>5 DEF RecoveryInv

\* The invariant is inductive: one lemma for each action.
LEMMA InvNext ==
    ASSUME RecoveryInv, [RecoveryNext]_vars
    PROVE  RecoveryInv'
<1>1. CASE Recover
    BY <1>1, RecoverStep
<1>2. CASE Step
    <2>1. ASSUME NEW b \in Blobs, BlobExists(b) PROVE RecoveryInv'
        BY <2>1, BlobExistsStep
    <2>2. ASSUME NEW b \in Blobs, BlobInAir(b) PROVE RecoveryInv'
        BY <2>2, BlobInAirStep
    <2>3. CASE BlobCommit
        BY <2>3, BlobCommitStep
    <2>4. CASE PickRoot
        BY <2>4, PickRootStep
    <2>5. CASE NoRoot
        BY <2>5, NoRootStep
    <2>6. CASE RegisterRoot
        BY <2>6, RegisterRootStep
    <2>7. CASE RecoverReturns
        BY <2>7, RecoverReturnsStep
    <2>8. CASE ResumeRecovery
        BY <2>8, ResumeRecoveryStep
    <2>9. CASE ResumeFinalize
        BY <2>9, ResumeFinalizeStep
    <2>10. CASE ResumeReturns
        BY <2>10, ResumeReturnsStep
    <2>11. CASE Visit
        BY <2>11, VisitStep
    <2>12. CASE TagTops
        BY <2>12, TagTopsStep
    <2>13. CASE RegisterFinal
        BY <2>13, RegisterFinalStep
    <2>14. CASE ReadyCommit
        BY <2>14, ReadyCommitStep
    <2>15. CASE RegisterCleanup
        BY <2>15, RegisterCleanupStep
    <2>16. CASE CommitDone
        BY <2>16, CommitDoneStep
    <2> QED  BY <1>2, <2>1, <2>2, <2>3, <2>4, <2>5, <2>6, <2>7, <2>8, <2>9, <2>10, <2>11,
                <2>12, <2>13, <2>14, <2>15, <2>16 DEF Step
<1>3. CASE Restart
    BY <1>3, RestartStep
<1>4. CASE UNCHANGED vars
    BY <1>4, InvStutter
<1> QED  BY <1>1, <1>2, <1>3, <1>4 DEF RecoveryNext

\* The invariant holds of every recovery, however often it is cut off.
THEOREM RecoveryInvariant == RecoverySpec => []RecoveryInv
<1>1. RecoveryInv /\ [RecoveryNext]_vars => RecoveryInv'
    BY InvNext
<1> QED  BY <1>1, InvInit, PTL DEF RecoverySpec

\* The tables hold rows with the queue's rows not ready, for every number of
\* chunks, blobs and restarts (hash/mod.rs, InternalHashIndex).
THEOREM RecoveryTypeCorrect == RecoverySpec => []RecoveryTypeOK
<1>1. RecoveryInv => RecoveryTypeOK
    <2> SUFFICES ASSUME RecoveryInv PROVE RecoveryTypeOK
        OBVIOUS
    <2>1. IsTables(db, idCounter) /\ Unique(db) /\ ReadyInv(db) /\ QueueInv(db, queue, cut)
        BY DEF RecoveryInv, Good
    <2>2. \A i \in DOMAIN db.rows : i \in 1..idCounter /\ db.rows[i].hash \in Hash
        BY <2>1 DEF IsTables, Row
    <2>3. \A s \in 1..Len(db.snaps) : db.snaps[s] \in Snap
        BY <2>1 DEF IsTables
    <2>4. \A s \in 1..Len(db.snaps) : db.snaps[s].hash \in Hash /\ db.snaps[s].tag \in SnapTag
        BY <2>3 DEF Snap
    <2> QED  BY <2>1, <2>2, <2>4 DEF RecoveryTypeOK, QueueInv, Unique, ReadyInv
<1> QED  BY <1>1, RecoveryInvariant, PTL

\* What the collector has counted survives a crash whole: every chunk of a
\* snapshot that is Complete or Done on disk has a ready row there, and a blob
\* (recover_entry, flush_blob_store before register_final).
THEOREM CountedIsThereAlways == RecoverySpec => []CountedIsThere
<1>1. RecoveryInv => CountedIsThere
    <2> SUFFICES ASSUME RecoveryInv,
                        NEW s \in 1..Len(disk.snaps), disk.snaps[s].tag # "RecoverInProgress",
                        NEW h \in Need[disk.snaps[s].hash]
                 PROVE  /\ \E i \in DOMAIN disk.rows : disk.rows[i].hash = h /\ disk.rows[i].ready
                        /\ BlobOf[h] \in DOMAIN disk.blobs
        BY DEF CountedIsThere
    <2>1. ThereInv(disk) /\ ReadyInv(disk)
        BY DEF RecoveryInv, Good
    <2>2. IsReady(disk, h)
        BY <2>1 DEF ThereInv, Saved
    <2> QED  BY <2>1, <2>2 DEF IsReady, ReadyInv
<1> QED  BY <1>1, RecoveryInvariant, PTL

\* A walk leaves no hash reserved: whatever a branch reserved for its children
\* has been visited, so the index can be dropped (InternalHashIndex::drop).
THEOREM WalkLeavesNothingAlways == RecoverySpec => []WalkLeavesNothing
<1>1. RecoveryInv => WalkLeavesNothing
    BY DEF RecoveryInv, PhaseInv
<1> QED  BY <1>1, RecoveryInvariant, PTL

\* However often recovery was cut off and resumed, a top's count is the number of
\* recovered snapshots that have it (register_final, resume).
THEOREM RecoveredCountsExactAlways == RecoverySpec => []RecoveredCountsExact
<1>1. RecoveryInv => RecoveredCountsExact
    <2> SUFFICES ASSUME RecoveryInv, NEW i \in DOMAIN db.rows
                 PROVE  Count(db, i) = Cardinality({s \in Registered(db) :
                                            db.rows[i].hash \in Tops[db.snaps[s].hash]})
        BY DEF RecoveredCountsExact
    <2>1. CountInv(db, Registered(db))
        BY DEF RecoveryInv, Good
    <2> QED  BY <2>1 DEF CountInv, Refs
<1> QED  BY <1>1, RecoveryInvariant, PTL

\* Once recover has returned, the database has the snapshots of one list and the
\* list, each once and all of them Done; the list is the newest whose blob is
\* not in progress (Hat::recover).
THEOREM RecoveredExactlyAlways == RecoverySpec => []RecoveredExactly
<1>1. RecoveryInv => RecoveredExactly
    <2> SUFFICES ASSUME RecoveryInv, finished, pc = "idle"
                 PROVE  /\ NotDone = {}
                        /\ \E r \in Roots :
                              /\ {db.snaps[s].hash : s \in 1..Len(db.snaps)} = InRecovery(r)
                              /\ Len(db.snaps) = Len(Listing[r]) + 1
                              /\ r = Newest({q \in Roots : db.blobs[BlobOf[q]] # "InProgress"})
        BY DEF RecoveredExactly
    <2>1. NotDone = {}
        BY DEF RecoveryInv, PhaseInv, Resting
    <2>2. PICK r : r = RootOf(db)
        OBVIOUS
    <2>3. Settled(db) /\ IsOf(db.snaps, Full(r))
        BY <2>2 DEF RecoveryInv, ListInv
    <2>4. r \in Roots
        BY <2>2, <2>3, RootOfIsRoot DEF Settled, RecoveryInv, StateInv
    <2>5. PICK L \in Nat, l \in Seq(Hash) : l = Listing[r] /\ L = Len(l)
        BY <2>4, Constants
    <2>6. /\ Len(db.snaps) = L + 1
          /\ \A k \in 1..L : db.snaps[k].hash = l[k]
          /\ db.snaps[L + 1].hash = r
        BY <2>3, <2>4, <2>5, IsOfFacts
    <2>7. Range(l) = {l[k] : k \in 1..L}
        BY <2>5 DEF Range
    <2>8. \A k : k \in 1..(L + 1) <=> k \in 1..L \/ k = L + 1
        OBVIOUS
    <2>9. {db.snaps[s].hash : s \in 1..Len(db.snaps)} = {r} \cup Range(l)
        BY <2>6, <2>7, <2>8
    <2>10. {q \in Roots : db.blobs[BlobOf[q]] # "InProgress"} = DoneRoots(db)
        <3>1. IsTables(db, idCounter)
            BY DEF RecoveryInv, Good
        <3>2. ASSUME NEW q \in Roots PROVE BlobOf[q] \in DOMAIN db.blobs
            BY <2>3, Constants DEF Settled
        <3> QED  BY <3>1, <3>2 DEF DoneRoots, IsTables
    <2> QED  BY <2>1, <2>2, <2>4, <2>5, <2>6, <2>9, <2>10 DEF InRecovery, RootOf
<1> QED  BY <1>1, RecoveryInvariant, PTL

\* A collection after recovery deletes nothing: what the marking from the counted
\* tops along the children reaches is everything that was recovered, unless a
\* restart took children from under a branch ("Check that we now reference all
\* the blobs", src/hat/tests.rs).
THEOREM GcSparesRecoveredAlways == RecoverySpec => []GcSparesRecovered
<1>1. RecoveryInv => GcSparesRecovered
    <2> SUFFICES ASSUME RecoveryInv, finished, pc = "idle", ~cut,
                        NEW i \in DOMAIN db.rows,
                        NEW I \in SUBSET DOMAIN db.rows, MarkedBy(I)
                 PROVE  i \in I
        BY DEF GcSparesRecovered, Marked
    <2>1. /\ IsTables(db, idCounter) /\ Unique(db) /\ ThereInv(db) /\ ReadyInv(db)
          /\ CountInv(db, Registered(db)) /\ FromInv(db) /\ ChildInv(db, cut)
        BY DEF RecoveryInv, Good
    <2>2. PICK s \in 1..Len(db.snaps) : db.rows[i].hash \in Need[db.snaps[s].hash]
        BY <2>1 DEF FromInv
    <2>3. db.snaps[s].tag = "Done"
        <3>1. NotDone = {}
            BY DEF RecoveryInv, PhaseInv, Resting
        <3> QED  BY <3>1 DEF NotDone
    <2>4. s \in Saved(db) /\ s \in Registered(db)
        BY <2>3 DEF Saved, Registered
    <2>5. PICK f \in Hash : f = db.snaps[s].hash
        <3>1. db.snaps[s] \in Snap
            BY <2>1 DEF IsTables
        <3> QED  BY <3>1 DEF Snap
    <2>6. \A h \in Need[f] : IsReady(db, h)
        BY <2>1, <2>4, <2>5 DEF ThereInv
    <2>7. \A j \in DOMAIN db.rows : Count(db, j) > 0 => j \in I
        BY DEF MarkedBy
    \* The tops have a count.
    <2>8. ASSUME NEW h \in Tops[f] PROVE \E j \in I : db.rows[j].hash = h
        <3>1. PICK j \in DOMAIN db.rows : db.rows[j].hash = h
            BY <2>6, TopsFacts DEF IsReady
        <3>2. Count(db, j) = Cardinality(Refs(db, Registered(db), h))
            BY <2>1, <3>1 DEF CountInv
        <3>3. s \in Refs(db, Registered(db), h)
            BY <2>4, <2>5 DEF Refs
        <3>4. IsFiniteSet(Refs(db, Registered(db), h)) /\ Cardinality(Refs(db, Registered(db), h)) \in Nat
            <4>1. Registered(db) \subseteq 1..Len(db.snaps)
                BY DEF Registered
            <4> QED  BY <2>1, <4>1, RefsFinite
        <3>5. Cardinality(Refs(db, Registered(db), h)) # 0
            BY <3>3, <3>4, FS_EmptySet
        <3> QED  BY <2>7, <3>1, <3>2, <3>4, <3>5
    \* What has a row that is marked has all below it marked.
    <2> DEFINE S == {h \in Need[f] : \E j \in I : db.rows[j].hash = h}
    <2>9. f \in S
        BY <2>8, TopsFacts
    <2>10. ASSUME NEW g \in S, NEW k \in Below(g) PROVE k \in S
        <3>1. g \in Need[f] /\ k \in Need[f] /\ g \in Hash
            BY <2>10, NeedClosed
        <3>2. CASE k \in Range(Lists[g])
            BY <2>8, <3>1, <3>2, TopsFacts
        <3>3. CASE k \in Range(Kids[g])
            <4>1. PICK j \in I : db.rows[j].hash = g
                OBVIOUS
            <4>2. j \in DOMAIN db.rows /\ db.rows[j].ready
                BY <2>1, <2>6, <3>1, <4>1 DEF IsReady, Unique
            <4>3. PICK ids : ids = db.rows[j].childs
                OBVIOUS
            <4>4. Linked(db, g, ids)
                BY <2>1, <4>1, <4>2, <4>3 DEF ChildInv
            <4>5. Kids[g] \in Seq(Hash)
                BY <3>1, Constants
            <4>6. PICK n \in 1..Len(Kids[g]) : Kids[g][n] = k
                BY <3>3, <4>5 DEF Range
            <4>7. ids[n] \in DOMAIN db.rows /\ db.rows[ids[n]].hash = k /\ n \in 1..Len(ids)
                BY <4>4, <4>6 DEF Linked
            <4>8. ids \in Seq(Nat)
                BY <2>1, <4>2, <4>3 DEF IsTables, Row, Ids
            <4>9. ids[n] \in Range(ids)
                BY <4>7, <4>8 DEF Range
            <4>10. ids[n] \in I
                BY <4>3, <4>7, <4>9 DEF MarkedBy
            <4> QED  BY <3>1, <4>7, <4>10
        <3> QED  BY <2>10, <3>2, <3>3 DEF Below
    <2>11. Need[f] \subseteq S
        <3>1. S \subseteq Hash
            BY NeedClosed
        <3> HIDE DEF S
        <3> QED  BY <2>9, <2>10, <3>1, NeedSmallest
    <2>12. PICK j \in I : db.rows[j].hash = db.rows[i].hash
        BY <2>2, <2>5, <2>11
    <2> QED  BY <2>1, <2>12 DEF Unique
<1> QED  BY <1>1, RecoveryInvariant, PTL

=============================================================================

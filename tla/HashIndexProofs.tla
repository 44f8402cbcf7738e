-------------------------- MODULE HashIndexProofs ---------------------------
(***************************************************************************)
(* Proofs about HashIndex for every set of hashes, every assignment of     *)
(* children to them and every number of ids: the inductive invariant       *)
(* HashInv, the safety properties that follow from it, and the refinement  *)
(* of DurableHashSet.                                                      *)
(***************************************************************************)
EXTENDS HashIndex, TLAPS, WellFoundedInduction

-----------------------------------------------------------------------------
\* The highest id of a bounded set of ids: what hash_refresh_id_counter reads
\* off the table bounds every id in it.
LEMMA MaxOfBounds ==
    ASSUME NEW n \in Nat, NEW S, S \subseteq 1..n
    PROVE  MaxOf(S) \in Nat /\ S \subseteq 1..MaxOf(S)
<1>1. CASE S = {}
    BY <1>1 DEF MaxOf
<1>2. CASE S # {}
    <2> DEFINE U == {u \in Nat : \A j \in S : j <= u}
    <2>1. n \in U /\ U \subseteq Nat
        BY SMT
    <2>2. PICK m \in U : \A u \in U : ~(<<u, m>> \in OpToRel(<, Nat))
        <3> HIDE DEF U
        <3> QED  BY <2>1, NatLessThanWellFounded, WFMin
    <2>3. \A u \in U : m <= u
        <3> TAKE u \in U
        <3>1. u \in Nat /\ m \in Nat
            BY <2>1, <2>2
        <3>2. ~(u < m)
            BY <2>2, <3>1 DEF OpToRel
        <3> QED  BY <3>1, <3>2
    <2>4. m \in S
        <3> SUFFICES ASSUME m \notin S PROVE FALSE
            OBVIOUS
        <3>1. \A j \in S : j \in Nat /\ 1 <= j /\ j < m
            BY SMT
        <3>2. PICK j0 \in S : j0 \in Nat /\ 1 <= j0 /\ j0 < m
            BY <3>1, <1>2
        <3>3. m \in Nat
            BY <2>1
        <3>4. m - 1 \in Nat /\ \A j \in S : j <= m - 1
            BY <3>1, <3>2, <3>3
        <3>5. m <= m - 1
            BY <2>3, <3>4
        <3> QED  BY <3>3, <3>5
    <2>5. \E i \in S : \A j \in S : j <= i
        BY <2>4
    <2>6. MaxOf(S) \in S /\ \A j \in S : j <= MaxOf(S)
        BY <1>2, <2>5 DEF MaxOf
    <2>7. \A j \in S : j \in Nat /\ 1 <= j
        BY SMT
    <2>8. PICK k \in S : k = MaxOf(S) /\ \A j \in S : j <= k
        BY <2>6
    <2>9. k \in Nat /\ S \subseteq 1..k
        BY <2>7, <2>8
    <2> QED  BY <2>8, <2>9
<1> QED  BY <1>1, <1>2

-----------------------------------------------------------------------------
\* The three ways in which an operation changes a table keep it good.

\* hash_insert_new: a new, unfinished row above all others.
LEMMA PutIsGood ==
    ASSUME NEW t, GoodTable(t),
           NEW i \in Nat \ {0}, \A j \in DOMAIN t : j < i,
           NEW r \in Row, ~r.ready, r.childs \subseteq DOMAIN t,
           {t[c].hash : c \in r.childs} = Childs[r.hash],
           \A j \in DOMAIN t : t[j].hash # r.hash
    PROVE  GoodTable(Put(t, i, r))
<1> DEFINE u == Put(t, i, r)
<1>0. IsTable(t, Row)
    BY DEF GoodTable
<1>1. /\ DOMAIN u = DOMAIN t \cup {i}
      /\ i \notin DOMAIN t
      /\ u[i] = r
      /\ \A j \in DOMAIN t : u[j] = t[j] /\ j \in Nat
    BY <1>0 DEF Put, IsTable
<1>2. u = [j \in DOMAIN u |-> u[j]]
    BY DEF Put
<1> HIDE DEF u
<1>3. IsTable(u, Row)
    BY <1>0, <1>1, <1>2 DEF IsTable
<1>4. Linked(u)
    <2> SUFFICES ASSUME NEW k \in DOMAIN u
                 PROVE  /\ \A c \in u[k].childs : c \in DOMAIN u /\ c < k
                        /\ {u[c].hash : c \in u[k].childs} = Childs[u[k].hash]
        BY DEF Linked
    <2>1. CASE k = i
        <3>1. \A c \in r.childs : u[c] = t[c]
            BY <1>1
        <3> QED  BY <1>1, <2>1, <3>1
    <2>2. CASE k \in DOMAIN t
        <3>1. /\ \A c \in t[k].childs : c \in DOMAIN t /\ c < k
              /\ {t[c].hash : c \in t[k].childs} = Childs[t[k].hash]
            BY <2>2 DEF GoodTable, Linked
        <3>2. \A c \in t[k].childs : u[c] = t[c]
            BY <1>1, <3>1
        <3> QED  BY <1>1, <2>2, <3>1, <3>2
    <2> QED  BY <1>1, <2>1, <2>2
<1>5. UniqueHash(u)
    BY <1>1 DEF GoodTable, UniqueHash
<1>6. ReadyFirst(u)
    BY <1>1 DEF GoodTable, ReadyFirst
<1>7. ReadyHasRef(u)
    BY <1>1 DEF GoodTable, ReadyHasRef
<1> QED  BY <1>3, <1>4, <1>5, <1>6, <1>7 DEF GoodTable, u

\* hash_delete and hash_delete_not_ready: rows go that no row left points to.
LEMMA DropIsGood ==
    ASSUME NEW t, GoodTable(t), NEW D,
           \A i \in DOMAIN t \ D : t[i].childs \cap D = {}
    PROVE  GoodTable(Drop(t, D))
<1> DEFINE u == Drop(t, D)
<1>0. IsTable(t, Row)
    BY DEF GoodTable
<1>1. /\ DOMAIN u = DOMAIN t \ D
      /\ \A j \in DOMAIN u : u[j] = t[j]
    BY DEF Drop
<1>2. u = [j \in DOMAIN u |-> u[j]]
    BY DEF Drop
<1> HIDE DEF u
<1>3. IsTable(u, Row)
    BY <1>0, <1>1, <1>2 DEF IsTable
<1>4. Linked(u)
    <2> SUFFICES ASSUME NEW k \in DOMAIN u
                 PROVE  /\ \A c \in u[k].childs : c \in DOMAIN u /\ c < k
                        /\ {u[c].hash : c \in u[k].childs} = Childs[u[k].hash]
        BY DEF Linked
    <2>1. /\ \A c \in t[k].childs : c \in DOMAIN t /\ c < k
          /\ {t[c].hash : c \in t[k].childs} = Childs[t[k].hash]
        BY <1>1 DEF GoodTable, Linked
    <2>2. \A c \in t[k].childs : c \in DOMAIN u /\ u[c] = t[c]
        BY <1>1, <2>1
    <2> QED  BY <1>1, <2>1, <2>2
<1>5. UniqueHash(u) /\ ReadyFirst(u) /\ ReadyHasRef(u)
    BY <1>1 DEF GoodTable, UniqueHash, ReadyFirst, ReadyHasRef
<1> QED  BY <1>3, <1>4, <1>5 DEF GoodTable, u

\* The children of a ready row are ready: they lie below it, and every
\* unfinished row lies above it.
LEMMA ReadyChilds ==
    ASSUME NEW t, GoodTable(t), NEW i \in ReadyIds(t)
    PROVE  t[i].childs \subseteq ReadyIds(t)
<1> SUFFICES ASSUME NEW c \in t[i].childs, c \notin ReadyIds(t) PROVE FALSE
    OBVIOUS
<1>1. i \in DOMAIN t /\ t[i].ready
    BY DEF ReadyIds
<1>2. c \in DOMAIN t /\ c < i
    BY <1>1 DEF GoodTable, Linked
<1>3. i < c
    BY <1>1, <1>2 DEF GoodTable, ReadyFirst, ReadyIds
<1>4. i \in Nat /\ c \in Nat
    BY <1>1, <1>2 DEF GoodTable, IsTable
<1> QED  BY <1>2, <1>3, <1>4

-----------------------------------------------------------------------------
\* Reservations.

\* locate finds the row of every hash that is there.
LEMMA LocatedRow ==
    ASSUME HashInv, NEW c, HashExists(c)
    PROVE  GetId(c) \in DOMAIN rows /\ rows[GetId(c)].hash = c
<1>1. QueueIds(c) # {} \/ RowIds(c) # {}
    BY DEF HashExists
<1>2. CASE QueueIds(c) # {}
    <2>1. GetId(c) \in QueueIds(c)
        BY <1>2 DEF GetId
    <2> QED  BY <2>1 DEF QueueIds, HashInv, QueueMirrorsTable
<1>3. CASE QueueIds(c) = {}
    <2>1. GetId(c) \in RowIds(c)
        BY <1>1, <1>3 DEF GetId
    <2> QED  BY <2>1 DEF RowIds
<1> QED  BY <1>2, <1>3

\* The ids that the caller passes as children are those of rows with the
\* hashes that the content lists.
LEMMA ReservedChilds ==
    ASSUME HashInv, NEW h \in Hash, \A c \in Childs[h] : HashExists(c)
    PROVE  /\ {GetId(c) : c \in Childs[h]} \subseteq DOMAIN rows
           /\ {rows[i].hash : i \in {GetId(c) : c \in Childs[h]}} = Childs[h]
<1>1. \A c \in Childs[h] : GetId(c) \in DOMAIN rows /\ rows[GetId(c)].hash = c
    BY LocatedRow
<1> DEFINE childs == {GetId(c) : c \in Childs[h]}
<1>2. childs \subseteq DOMAIN rows
    BY <1>1
<1>3. ASSUME NEW x \in {rows[i].hash : i \in childs} PROVE x \in Childs[h]
    <2>1. PICK i \in childs : x = rows[i].hash
        OBVIOUS
    <2>2. PICK c \in Childs[h] : i = GetId(c)
        BY <2>1
    <2> QED  BY <1>1, <2>1, <2>2
<1>4. ASSUME NEW x \in Childs[h] PROVE x \in {rows[i].hash : i \in childs}
    <2>1. GetId(x) \in childs /\ rows[GetId(x)].hash = x
        BY <1>1
    <2> HIDE DEF childs
    <2> QED  BY <2>1
<1>5. {rows[i].hash : i \in childs} = Childs[h]
    <2> HIDE DEF childs
    <2> QED  BY <1>3, <1>4
<1> QED  BY <1>2, <1>5

\* reserve: the new row and the new entry agree, and the row lies above the rest.
LEMMA ReserveKeepsInv ==
    ASSUME HashInv, NEW h \in Hash, NEW fired \in BOOLEAN, Reserve(h, fired)
    PROVE  HashInv'
<1> DEFINE id == idCounter + 1
           childs == {GetId(c) : c \in Childs[h]}
           r == [hash |-> h, childs |-> childs, pref |-> NoRef, ready |-> FALSE]
           e == [hash |-> h, childs |-> childs, pref |-> NoRef, status |-> "Pending"]
<1>1. /\ idCounter \in Nat /\ id \in Nat \ {0}
      /\ DOMAIN rows \subseteq 1..idCounter /\ DOMAIN disk \subseteq 1..idCounter
      /\ IsTable(queue, Entry) /\ autoFlush \in BOOLEAN
    BY DEF HashInv, HashTypeOK
<1>2. \A j \in DOMAIN rows : j < id
    BY <1>1
<1>3. childs \subseteq DOMAIN rows /\ {rows[i].hash : i \in childs} = Childs[h]
    BY ReservedChilds DEF Reserve
<1>4. childs \subseteq Nat
    BY <1>1, <1>3
<1>5. \A j \in DOMAIN rows : rows[j].hash # h
    BY DEF Reserve, HashExists, RowIds
<1>6. /\ rows' = Put(rows, id, r) /\ queue' = Put(queue, id, e)
      /\ idCounter' = id /\ autoFlush' = autoFlush
      /\ disk' = rows \/ disk' = disk
    BY DEF Reserve, MaybeFlush
<1> HIDE DEF childs, id
<1>7. r \in Row /\ e \in Entry
    BY <1>4 DEF Row, Entry
<1>8. GoodTable(rows')
    BY <1>1, <1>2, <1>3, <1>5, <1>6, <1>7, PutIsGood DEF HashInv
<1>9. GoodTable(disk')
    BY <1>6 DEF HashInv
<1>10. /\ DOMAIN queue \subseteq DOMAIN rows
       /\ id \notin DOMAIN rows
    BY <1>1, <1>2 DEF HashInv, QueueMirrorsTable, id
<1>11. /\ DOMAIN rows' = DOMAIN rows \cup {id} /\ DOMAIN queue' = DOMAIN queue \cup {id}
       /\ rows'[id] = r /\ queue'[id] = e
       /\ \A j \in DOMAIN rows : rows'[j] = rows[j]
       /\ \A j \in DOMAIN queue : queue'[j] = queue[j]
       /\ queue' = [j \in DOMAIN queue' |-> queue'[j]]
    BY <1>6, <1>10 DEF Put
<1>12. HashTypeOK'
    <2>1. IsTable(queue', Entry)
        BY <1>1, <1>7, <1>11 DEF IsTable
    <2>2. DOMAIN rows' \cup DOMAIN disk' \subseteq 1..idCounter'
        BY <1>1, <1>6, <1>11 DEF id
    <2> QED  BY <1>1, <1>6, <1>8, <1>9, <2>1, <2>2 DEF HashTypeOK, GoodTable, id
<1>13. QueueMirrorsTable'
    BY <1>10, <1>11 DEF HashInv, QueueMirrorsTable
<1>14. \A i \in DOMAIN queue' : queue'[i].status = "Ready" => queue'[i].pref # NoRef
    BY <1>11 DEF HashInv
<1> QED  BY <1>8, <1>9, <1>12, <1>13, <1>14 DEF HashInv

\* blob::Store has returned the reference of the chunk.
LEMMA StoreDoneKeepsInv ==
    ASSUME HashInv, NEW id \in DOMAIN queue, NEW p \in PRef, StoreDone(id, p)
    PROVE  HashInv'
<1>1. /\ queue' = [queue EXCEPT ![id].pref = p]
      /\ UNCHANGED <<rows, disk, idCounter, autoFlush>>
    BY DEF StoreDone, UpdateReserved
<1>2. IsTable(queue, Entry)
    BY DEF HashInv, HashTypeOK
<1>3. /\ DOMAIN queue' = DOMAIN queue
      /\ \A j \in DOMAIN queue : /\ queue'[j].hash = queue[j].hash
                                 /\ queue'[j].childs = queue[j].childs
                                 /\ queue'[j].status = queue[j].status
                                 /\ queue'[j].pref = (IF j = id THEN p ELSE queue[j].pref)
                                 /\ queue'[j] \in Entry
      /\ queue' = [j \in DOMAIN queue' |-> queue'[j]]
    BY <1>1, <1>2 DEF IsTable, Entry
<1>4. IsTable(queue', Entry)
    BY <1>2, <1>3 DEF IsTable
<1>5. HashTypeOK'
    BY <1>1, <1>4 DEF HashInv, HashTypeOK
<1>6. QueueMirrorsTable'
    BY <1>1, <1>3 DEF HashInv, QueueMirrorsTable
<1>7. \A i \in DOMAIN queue' : queue'[i].status = "Ready" => queue'[i].pref # NoRef
    BY <1>3, RefAssumption DEF HashInv
<1> QED  BY <1>1, <1>5, <1>6, <1>7 DEF HashInv

-----------------------------------------------------------------------------
\* The callback of a stored chunk.

\* insert_completed_in_order turns a prefix of the unfinished rows into ready
\* ones that keep their hashes and children.
LEMMA CommitHashKeepsInv ==
    ASSUME HashInv, NEW id \in DOMAIN queue, NEW fired \in BOOLEAN, Callback(id, fired)
    PROVE  HashInv'
<1> DEFINE q == SetReady(id)
           P == CompletedInOrder(q)
<1>1. /\ IsTable(queue, Entry) /\ IsTable(rows, Row) /\ GoodTable(rows)
      /\ QueueMirrorsTable
      /\ idCounter \in Nat /\ autoFlush \in BOOLEAN
      /\ DOMAIN rows \subseteq 1..idCounter /\ DOMAIN disk \subseteq 1..idCounter
    BY DEF HashInv, HashTypeOK
<1>2. /\ DOMAIN q = DOMAIN queue
      /\ \A j \in DOMAIN queue : /\ q[j].hash = queue[j].hash
                                 /\ q[j].childs = queue[j].childs
                                 /\ q[j].pref = queue[j].pref
                                 /\ q[j].status = (IF j = id THEN "Ready" ELSE queue[j].status)
                                 /\ q[j] \in Entry
    BY <1>1 DEF SetReady, IsTable, Entry
<1>3. \A j \in DOMAIN q : q[j].status = "Ready" => q[j].pref # NoRef
    BY <1>2 DEF HashInv, Callback
<1>4. /\ rows' = InsertCompleted(q) /\ queue' = Drop(q, P)
      /\ idCounter' = idCounter /\ autoFlush' = autoFlush
      /\ disk' = rows' \/ disk' = disk
    BY DEF Callback, CommitHash, MaybeFlush
<1> HIDE DEF q
<1>5. /\ P \subseteq DOMAIN q
      /\ \A i \in P : q[i].status = "Ready"
      /\ \A i \in P : \A j \in DOMAIN q \ P : i < j
    <2>1. \A i \in DOMAIN q : i \in Nat
        BY <1>1, <1>2 DEF IsTable
    <2>2. P \subseteq DOMAIN q /\ \A i \in P : q[i].status = "Ready"
        BY <2>1 DEF CompletedInOrder
    <2>3. ASSUME NEW i \in P, NEW j \in DOMAIN q \ P PROVE i < j
        <3>1. PICK k \in DOMAIN q : k <= j /\ q[k].status # "Ready"
            BY DEF CompletedInOrder
        <3>2. ~(k <= i)
            BY <3>1 DEF CompletedInOrder
        <3> QED  BY <2>1, <2>2, <3>1, <3>2
    <2> QED  BY <2>2, <2>3
<1> HIDE DEF P
<1>6. /\ DOMAIN rows' = DOMAIN rows
      /\ \A i \in DOMAIN rows \ P : rows'[i] = rows[i]
      /\ \A i \in P : rows'[i] = [hash |-> rows[i].hash, childs |-> q[i].childs,
                                  pref |-> q[i].pref, ready |-> TRUE]
      /\ rows' = [i \in DOMAIN rows' |-> rows'[i]]
      /\ P \subseteq DOMAIN rows
    <2>1. P \subseteq DOMAIN rows
        BY <1>1, <1>2, <1>5 DEF QueueMirrorsTable
    <2> QED  BY <1>4, <2>1 DEF InsertCompleted, P
<1>6a. ASSUME NEW i \in P
      PROVE  /\ rows'[i].hash = rows[i].hash /\ rows'[i].childs = rows[i].childs
             /\ rows'[i].pref = q[i].pref /\ rows'[i].ready = TRUE
             /\ rows'[i] \in Row
    <2>1. rows'[i] = [hash |-> rows[i].hash, childs |-> q[i].childs,
                      pref |-> q[i].pref, ready |-> TRUE]
        BY <1>6
    <2>2. q[i].childs = rows[i].childs /\ q[i] \in Entry
        BY <1>1, <1>2, <1>5 DEF QueueMirrorsTable
    <2>3. rows[i].hash \in Hash
        BY <1>1, <1>6 DEF IsTable, Row
    <2> QED  BY <2>1, <2>2, <2>3 DEF Row, Entry
<1>7. \A i \in DOMAIN rows : /\ rows'[i].hash = rows[i].hash
                             /\ rows'[i].childs = rows[i].childs
    BY <1>6, <1>6a
<1>8. \A i \in DOMAIN rows : rows'[i].ready <=> (rows[i].ready \/ i \in P)
    <2> TAKE i \in DOMAIN rows
    <2>1. CASE i \in P
        BY <1>6a, <2>1
    <2>2. CASE i \notin P
        BY <1>6, <2>2
    <2> QED  BY <2>1, <2>2
<1>9. IsTable(rows', Row)
    <2>1. \A i \in DOMAIN rows : rows[i] \in Row
        BY <1>1 DEF IsTable
    <2>2. \A i \in DOMAIN rows' : rows'[i] \in Row
        BY <1>6, <1>6a, <2>1
    <2> QED  BY <1>1, <1>6, <2>2 DEF IsTable
<1>10. Linked(rows')
    <2> SUFFICES ASSUME NEW i \in DOMAIN rows'
                 PROVE  /\ \A c \in rows'[i].childs : c \in DOMAIN rows' /\ c < i
                        /\ {rows'[c].hash : c \in rows'[i].childs} = Childs[rows'[i].hash]
        BY DEF Linked
    <2>1. /\ \A c \in rows[i].childs : c \in DOMAIN rows /\ c < i
          /\ {rows[c].hash : c \in rows[i].childs} = Childs[rows[i].hash]
        BY <1>1, <1>6 DEF GoodTable, Linked
    <2>2. \A c \in rows[i].childs : rows'[c].hash = rows[c].hash
        BY <1>7, <2>1
    <2> QED  BY <1>6, <1>7, <2>1, <2>2
<1>11. UniqueHash(rows')
    BY <1>1, <1>6, <1>7 DEF GoodTable, UniqueHash
<1>12. ReadyFirst(rows')
    <2> SUFFICES ASSUME NEW i \in DOMAIN rows', NEW j \in DOMAIN rows',
                        rows'[i].ready, ~rows'[j].ready
                 PROVE  i < j
        BY DEF ReadyFirst
    <2>1. j \in DOMAIN q \ P
        BY <1>1, <1>2, <1>6, <1>8 DEF QueueMirrorsTable
    <2>2. CASE i \in P
        BY <1>5, <2>1, <2>2
    <2>3. CASE rows[i].ready
        BY <1>1, <1>6, <1>8, <2>3 DEF GoodTable, ReadyFirst
    <2> QED  BY <1>6, <1>8, <2>2, <2>3
<1>13. ReadyHasRef(rows')
    <2> SUFFICES ASSUME NEW i \in DOMAIN rows', rows'[i].ready PROVE rows'[i].pref # NoRef
        BY DEF ReadyHasRef
    <2>1. CASE i \in P
        BY <1>3, <1>5, <1>6a, <2>1
    <2>2. CASE i \notin P
        BY <1>1, <1>6, <2>2 DEF GoodTable, ReadyHasRef
    <2> QED  BY <2>1, <2>2
<1>14. GoodTable(rows') /\ GoodTable(disk')
    BY <1>4, <1>9, <1>10, <1>11, <1>12, <1>13 DEF GoodTable, HashInv
<1>15. /\ DOMAIN queue' = DOMAIN queue \ P
       /\ \A j \in DOMAIN queue' : queue'[j] = q[j]
       /\ queue' = [j \in DOMAIN queue' |-> queue'[j]]
    BY <1>2, <1>4 DEF Drop
<1>16. IsTable(queue', Entry)
    BY <1>1, <1>2, <1>15 DEF IsTable
<1>17. HashTypeOK'
    BY <1>1, <1>4, <1>6, <1>9, <1>14, <1>16 DEF HashTypeOK, GoodTable
<1>18. QueueMirrorsTable'
    BY <1>1, <1>2, <1>6, <1>7, <1>8, <1>15 DEF QueueMirrorsTable
<1>19. \A i \in DOMAIN queue' : queue'[i].status = "Ready" => queue'[i].pref # NoRef
    BY <1>2, <1>3, <1>15
<1> QED  BY <1>14, <1>17, <1>18, <1>19 DEF HashInv

-----------------------------------------------------------------------------
\* The collector, the transaction and a restart.

\* gc deletes ready rows that no row left points to; the queue is not concerned.
LEMMA DeleteUnusedKeepsInv ==
    ASSUME HashInv, NEW D, DeleteUnused(D)
    PROVE  HashInv'
<1>1. /\ rows' = Drop(rows, D) /\ disk' = Drop(rows, D)
      /\ UNCHANGED <<queue, idCounter, autoFlush>>
    BY DEF DeleteUnused
<1>2. GoodTable(rows') /\ GoodTable(disk')
    BY <1>1, DropIsGood DEF HashInv, DeleteUnused
<1>3. DOMAIN rows' = DOMAIN rows \ D /\ \A i \in DOMAIN rows' : rows'[i] = rows[i]
    BY <1>1 DEF Drop
<1>4. HashTypeOK'
    BY <1>1, <1>2, <1>3 DEF HashInv, HashTypeOK, GoodTable
<1>5. QueueMirrorsTable'
    BY <1>1, <1>3 DEF HashInv, QueueMirrorsTable, DeleteUnused, ReadyIds
<1> QED  BY <1>1, <1>2, <1>4, <1>5 DEF HashInv

\* flush and manual_commit copy a good table to disk.
LEMMA FlushKeepsInv ==
    ASSUME HashInv, Flush \/ ManualCommit
    PROVE  HashInv'
<1>1. /\ disk' = rows /\ UNCHANGED <<rows, queue, idCounter>>
      /\ autoFlush' \in {autoFlush, FALSE}
    BY DEF Flush, ManualCommit
<1> QED  BY <1>1 DEF HashInv, HashTypeOK, QueueMirrorsTable

\* A restart: unfinished rows lie above all ready ones, so none is a child.
LEMMA RestartKeepsInv ==
    ASSUME HashInv, Restart
    PROVE  HashInv'
<1> DEFINE D == {i \in DOMAIN disk : ~disk[i].ready}
<1>1. /\ rows' = Drop(disk, D) /\ disk' = disk /\ queue' = NoEntries
      /\ idCounter' = MaxOf(DOMAIN disk) /\ autoFlush' = TRUE
    BY DEF Restart
<1>2. \A i \in DOMAIN disk \ D : disk[i].childs \cap D = {}
    BY ReadyChilds DEF HashInv, ReadyIds
<1> HIDE DEF D
<1>3. GoodTable(rows') /\ GoodTable(disk')
    BY <1>1, <1>2, DropIsGood DEF HashInv
<1>4. DOMAIN rows' = DOMAIN disk \ D /\ \A i \in DOMAIN rows' : rows'[i] = disk[i]
    BY <1>1 DEF Drop
<1>5. DOMAIN queue' = {} /\ IsTable(queue', Entry)
    BY <1>1 DEF NoEntries, IsTable
<1>6. idCounter' \in Nat /\ DOMAIN disk \subseteq 1..idCounter'
    BY <1>1, MaxOfBounds DEF HashInv, HashTypeOK
<1>7. HashTypeOK'
    BY <1>1, <1>3, <1>4, <1>5, <1>6 DEF HashTypeOK, GoodTable
<1>8. QueueMirrorsTable'
    BY <1>4, <1>5 DEF QueueMirrorsTable, D
<1> QED  BY <1>3, <1>5, <1>7, <1>8 DEF HashInv

-----------------------------------------------------------------------------
\* Every step of the index, by its caller or by a crash, keeps HashInv.
LEMMA StepKeepsInv ==
    ASSUME HashInv, [HashNext]_hashVars
    PROVE  HashInv'
<1>1. ASSUME NEW h \in Hash, NEW fired \in BOOLEAN, Reserve(h, fired) PROVE HashInv'
    BY <1>1, ReserveKeepsInv
<1>2. ASSUME NEW id \in DOMAIN queue, NEW p \in PRef, StoreDone(id, p) PROVE HashInv'
    BY <1>2, StoreDoneKeepsInv
<1>3. ASSUME NEW id \in DOMAIN queue, NEW fired \in BOOLEAN, Callback(id, fired)
      PROVE  HashInv'
    BY <1>3, CommitHashKeepsInv
<1>4. ASSUME NEW D \in SUBSET DOMAIN rows, DeleteUnused(D) PROVE HashInv'
    BY <1>4, DeleteUnusedKeepsInv
<1>5. CASE Flush \/ ManualCommit
    BY <1>5, FlushKeepsInv
<1>6. CASE Restart
    BY <1>6, RestartKeepsInv
<1>7. CASE UNCHANGED hashVars
    BY <1>7 DEF hashVars, HashInv, HashTypeOK, QueueMirrorsTable
<1> QED  BY <1>1, <1>2, <1>3, <1>4, <1>5, <1>6, <1>7 DEF HashNext

\* The empty repository satisfies HashInv.
LEMMA InitHasInv ==
    ASSUME HashInit
    PROVE  HashInv
<1>1. DOMAIN NoEntries = {} /\ \A R : IsTable(NoEntries, R)
    BY DEF NoEntries, IsTable
<1>2. GoodTable(NoEntries)
    BY <1>1 DEF GoodTable, Linked, UniqueHash, ReadyFirst, ReadyHasRef
<1> QED  BY <1>1, <1>2 DEF HashInit, HashInv, HashTypeOK, QueueMirrorsTable

\* HashInv holds in every state that the index can reach.
THEOREM HashInvariant == HashSpec => []HashInv
BY InitHasInv, StepKeepsInv, PTL DEF HashSpec

\* The tables and the queue of hash/mod.rs stay well formed, and ids are only
\* ever in use below the counter.
THEOREM HashTypeCorrect == HashSpec => []HashTypeOK
<1>1. HashInv => HashTypeOK
    BY DEF HashInv
<1> QED  BY <1>1, HashInvariant, PTL

\* The priority queue holds exactly the unfinished rows (locate, commit).
THEOREM QueueIsMirror == HashSpec => []QueueMirrorsTable
<1>1. HashInv => QueueMirrorsTable
    BY DEF HashInv
<1> QED  BY <1>1, HashInvariant, PTL

\* reserve never gives a hash a second row, neither in the running program nor
\* on disk.
THEOREM HashesAreUnique == HashSpec => []EachHashStoredOnce
<1>1. HashInv => EachHashStoredOnce
    BY DEF HashInv, GoodTable, EachHashStoredOnce
<1> QED  BY <1>1, HashInvariant, PTL

\* In a good table the children of a ready row are ready rows of its hashes.
LEMMA GoodIsResolved ==
    ASSUME NEW t, GoodTable(t)
    PROVE  Resolved(t)
<1> SUFFICES ASSUME NEW i \in ReadyIds(t)
             PROVE  /\ t[i].pref # NoRef
                    /\ t[i].childs \subseteq ReadyIds(t)
                    /\ {t[c].hash : c \in t[i].childs} = Childs[t[i].hash]
    BY DEF Resolved
<1>1. i \in DOMAIN t /\ t[i].ready
    BY DEF ReadyIds
<1>2. t[i].childs \subseteq ReadyIds(t)
    BY ReadyChilds
<1> QED  BY <1>1, <1>2 DEF GoodTable, Linked, ReadyHasRef

\* A ready hash has its reference and all of its children, ready too, in the
\* running program and in what any crash leaves behind.
THEOREM ChildsNeverDangle == HashSpec => []NoDanglingChilds
<1>1. HashInv => NoDanglingChilds
    BY GoodIsResolved DEF HashInv, NoDanglingChilds
<1> QED  BY <1>1, HashInvariant, PTL

-----------------------------------------------------------------------------
\* The refinement of DurableHashSet.

\* A good table's ready hashes are closed under children.
LEMMA GoodIsClosed ==
    ASSUME NEW t, GoodTable(t)
    PROVE  /\ Abstract!Closed(ReadyHashes(t))
           /\ ReadyHashes(t) \subseteq Hash
<1>1. ASSUME NEW h \in ReadyHashes(t) PROVE Childs[h] \subseteq ReadyHashes(t)
    <2>1. PICK i \in ReadyIds(t) : h = t[i].hash
        BY DEF ReadyHashes
    <2>2. t[i].childs \subseteq ReadyIds(t)
        BY ReadyChilds
    <2>3. {t[c].hash : c \in t[i].childs} = Childs[h]
        BY <2>1 DEF GoodTable, Linked, ReadyIds
    <2>4. {t[c].hash : c \in t[i].childs} \subseteq ReadyHashes(t)
        BY <2>2 DEF ReadyHashes
    <2> QED  BY <2>3, <2>4
<1>2. \A i \in ReadyIds(t) : t[i].hash \in Hash
    BY DEF ReadyIds, GoodTable, IsTable, Row
<1> QED  BY <1>1, <1>2 DEF Abstract!Closed, ReadyHashes

\* Every step of the index is a step of DurableHashSet, or changes neither set.
LEMMA StepIsAbstractStep ==
    ASSUME HashInv, HashInv', [HashNext]_hashVars
    PROVE  [Abstract!Next]_(Abstract!vars)
<1> DEFINE live == ReadyHashes(rows)
           durable == ReadyHashes(disk)
           Stutter == live' = live /\ durable' = durable
<1>1. ASSUME NEW h \in Hash, NEW fired \in BOOLEAN, Reserve(h, fired)
      PROVE  Stutter \/ Abstract!Save
    <2> DEFINE id == idCounter + 1
               r == [hash |-> h, childs |-> {GetId(c) : c \in Childs[h]},
                     pref |-> NoRef, ready |-> FALSE]
    <2>1. rows' = Put(rows, id, r) /\ r.ready = FALSE
        BY <1>1 DEF Reserve
    <2>2. id \notin DOMAIN rows
        BY DEF HashInv, HashTypeOK
    <2> HIDE DEF id, r
    <2>3. /\ DOMAIN rows' = DOMAIN rows \cup {id} /\ rows'[id].ready = FALSE
          /\ \A i \in DOMAIN rows : rows'[i] = rows[i]
        BY <2>1, <2>2 DEF Put
    <2>4. ReadyIds(rows') = ReadyIds(rows)
        BY <2>3 DEF ReadyIds
    <2>5. \A i \in ReadyIds(rows) : rows'[i] = rows[i]
        BY <2>3 DEF ReadyIds
    <2>6. live' = live
        BY <2>4, <2>5 DEF ReadyHashes
    <2>7. disk' = rows \/ disk' = disk
        BY <1>1 DEF Reserve, MaybeFlush
    <2> QED  BY <2>6, <2>7 DEF Abstract!Save
<1>2. ASSUME NEW id \in DOMAIN queue, NEW p \in PRef, StoreDone(id, p) PROVE Stutter
    BY <1>2 DEF StoreDone, UpdateReserved
<1>3. ASSUME NEW id \in DOMAIN queue, NEW fired \in BOOLEAN, Callback(id, fired)
      PROVE  Abstract!Publish
    <2>1. rows' = InsertCompleted(SetReady(id)) /\ (disk' = rows' \/ disk' = disk)
        BY <1>3 DEF Callback, CommitHash, MaybeFlush
    <2>2. DOMAIN rows' = DOMAIN rows
        BY <2>1 DEF InsertCompleted
    <2>3. ASSUME NEW i \in ReadyIds(rows)
          PROVE  i \in ReadyIds(rows') /\ rows'[i].hash = rows[i].hash
        <3>1. i \in DOMAIN rows /\ rows[i].ready
            BY DEF ReadyIds
        <3>2. i \notin CompletedInOrder(SetReady(id))
            BY <3>1 DEF CompletedInOrder, SetReady, HashInv, QueueMirrorsTable
        <3>3. rows'[i] = rows[i]
            BY <2>1, <3>1, <3>2 DEF InsertCompleted
        <3> QED  BY <2>2, <3>1, <3>3 DEF ReadyIds
    <2>4. live \subseteq live'
        BY <2>3 DEF ReadyHashes
    <2>5. GoodTable(rows')
        BY DEF HashInv
    <2>6. Abstract!Closed(live') /\ live' \subseteq Hash
        BY <2>5, GoodIsClosed
    <2>7. durable' \in {durable, live'}
        BY <2>1
    <2> QED  BY <2>4, <2>6, <2>7 DEF Abstract!Publish
<1>4. ASSUME NEW D \in SUBSET DOMAIN rows, DeleteUnused(D) PROVE Abstract!Collect
    <2>1. rows' = Drop(rows, D) /\ disk' = rows'
        BY <1>4 DEF DeleteUnused
    <2>2. ReadyIds(rows') \subseteq ReadyIds(rows)
          /\ \A i \in ReadyIds(rows') : rows'[i] = rows[i]
        BY <2>1 DEF Drop, ReadyIds
    <2>3. live' \subseteq live
        BY <2>2 DEF ReadyHashes
    <2>4. GoodTable(rows')
        BY DEF HashInv
    <2> QED  BY <2>1, <2>3, <2>4, GoodIsClosed DEF Abstract!Collect
<1>5. ASSUME Flush \/ ManualCommit PROVE Abstract!Save
    BY <1>5 DEF Flush, ManualCommit, Abstract!Save
<1>6. ASSUME Restart PROVE Abstract!Crash
    <2> DEFINE D == {i \in DOMAIN disk : ~disk[i].ready}
    <2>1. rows' = Drop(disk, D) /\ disk' = disk
        BY <1>6 DEF Restart
    <2>2. ReadyIds(rows') = ReadyIds(disk)
          /\ \A i \in ReadyIds(disk) : rows'[i] = disk[i]
        BY <2>1 DEF Drop, ReadyIds
    <2>3. live' = durable
        BY <2>2 DEF ReadyHashes
    <2> QED  BY <2>1, <2>3 DEF Abstract!Crash
<1>7. ASSUME UNCHANGED hashVars PROVE Stutter
    BY <1>7 DEF hashVars
<1>8. Stutter => UNCHANGED Abstract!vars
    BY DEF Abstract!vars
<1> HIDE DEF live, durable, Stutter
<1>9. CASE HashNext
    BY <1>1, <1>2, <1>3, <1>4, <1>5, <1>6, <1>8, <1>9 DEF HashNext, Abstract!Next
<1>10. CASE UNCHANGED hashVars
    <2>1. Stutter
        BY <1>7, <1>10
    <2> QED  BY <1>8, <2>1
<1> QED  BY <1>9, <1>10

\* The hash index implements DurableHashSet: children first, whole saves,
\* nothing but a crash or the collector takes a hash away.
THEOREM HashIndexRefines == HashSpec => ImplementsDurableHashSet
<1>1. HashInit => Abstract!Init
    <2> SUFFICES ASSUME HashInit PROVE Abstract!Init
        OBVIOUS
    <2>1. ReadyIds(NoEntries) = {}
        BY DEF ReadyIds, NoEntries
    <2>2. ReadyHashes(NoEntries) = {}
        BY <2>1 DEF ReadyHashes
    <2> QED  BY <2>2 DEF HashInit, Abstract!Init
<1>2. HashInv /\ HashInv' /\ [HashNext]_hashVars => [Abstract!Next]_(Abstract!vars)
    BY StepIsAbstractStep
<1> QED  BY <1>1, <1>2, HashInvariant, PTL
         DEF HashSpec, ImplementsDurableHashSet, Abstract!Spec

=============================================================================

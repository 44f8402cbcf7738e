--------------------------- MODULE HashTreeProofs ---------------------------
(***************************************************************************)
(* Proofs about HashTree for trees of every order and size, over every set *)
(* of blocks, repeated ones included, and for any number of calls of       *)
(* hash(): a chunk is inserted after the chunks it refers to, a visitor    *)
(* meets every node of the tree, parents first, and its leafs are the      *)
(* blocks that were appended, in their order.                              *)
(***************************************************************************)
EXTENDS HashTree, TLAPS, WellFoundedInduction

Chunk == [node : Nat, block : Block \cup {EmptyBlock, NoBlock}, refs : Seq(Ref)]

\* The reference is to a chunk that the backend has, of the height it names.
Names(r) == r.id \in DOMAIN chunks /\ chunks[r.id].node = r.node

\* A chunk that may be inserted: what it refers to is one level below, and
\* there already.
WellFormed(c) ==
    /\ c.node = 0 => c.refs = <<>>
    /\ \A k \in DOMAIN c.refs : Names(c.refs[k]) /\ c.refs[k].node + 1 = c.node

ChunksInv ==
    /\ chunks \in Seq(Chunk)
    /\ \A i \in DOMAIN chunks : WellFormed(chunks[i])

\* The rightmost path holds, level by level, fewer references than fill a chunk.
LevelsInv ==
    /\ levels \in Seq(Seq(Ref))
    /\ \A n \in DOMAIN levels :
        /\ Len(levels[n]) < order
        /\ \A k \in DOMAIN levels[n] : Names(levels[n][k]) /\ levels[n][k].node + 1 = n

PendingInv ==
    /\ pending \in Seq(Chunk) /\ Len(pending) <= 1
    /\ pending # <<>> => WellFormed(pending[1]) /\ pending[1].node <= Len(levels)

\* The top level is not empty, or what is pending will be on top: hash() finds
\* a root.
TopInv ==
    /\ levels # <<>> =>
        levels[Len(levels)] # <<>> \/ (pending # <<>> /\ pending[1].node + 1 >= Len(levels))
    /\ pc # "append" => levels # <<>> \/ pending # <<>>
    /\ pc = "collapse" => top \in Nat /\ top < Len(levels) /\ next \in 0..top
    /\ pc \in {"done", "read", "end"} => pending = <<>> /\ root # <<>>
    /\ root # <<>> => root \in Seq(Ref) /\ Len(root) = 1 /\ Names(root[1])

\* The walker's stack and what the visitor was handed are references to nodes.
ReaderInv ==
    /\ stack \in Seq([leave : BOOLEAN, ref : Ref])
    /\ \A k \in DOMAIN stack : Names(stack[k].ref)
    /\ out \in Seq(Ref)
    /\ \A k \in DOMAIN out : Names(out[k])
    /\ pc \notin {"read", "end"} => stack = <<>> /\ out = <<>>
    /\ pc = "end" => stack = <<>>

\* r is a child of p.
ChildOf(r, p) == \E m \in DOMAIN chunks[p.id].refs : chunks[p.id].refs[m] = r

\* What the visitor has met: the root first, then children of what it has met;
\* the children it has not met are on the stack.
MetInv ==
    visitor = "nodes" /\ pc \in {"read", "end"} =>
        /\ out = <<>> => stack = <<Enter(root[1])>>
        /\ out # <<>> => out[1] = root[1]
        /\ \A k \in DOMAIN stack : ~stack[k].leave =>
              out = <<>> \/ \E j \in DOMAIN out : ChildOf(stack[k].ref, out[j])
        /\ \A k \in 2 .. Len(out) : \E j \in 1 .. (k - 1) : ChildOf(out[k], out[j])
        /\ \A j \in DOMAIN out, r \in Ref :
              ChildOf(r, out[j]) =>
                  \/ \E k \in DOMAIN out : out[k] = r
                  \/ \E k \in DOMAIN stack : stack[k] = Enter(r)

TreeInv ==
    /\ order \in Order
    /\ pc \in {"append", "locate", "collapse", "root", "done", "read", "end"}
    /\ visitor \in {"leafs", "nodes"}
    /\ pc \notin {"read", "end"} => visitor = "leafs"
    /\ ChunksInv /\ ChildrenPrecedeParents
    /\ LevelsInv /\ PendingInv /\ TopInv /\ ReaderInv /\ MetInv

-----------------------------------------------------------------------------
\* Sequences.

\* An element is pushed.
LEMMA AppendFacts ==
    ASSUME NEW S, NEW q \in Seq(S), NEW e \in S
    PROVE  /\ Append(q, e) \in Seq(S) /\ Append(q, e) # <<>>
           /\ Len(q) \in Nat /\ Len(Append(q, e)) = Len(q) + 1
           /\ DOMAIN q = 1..Len(q) /\ DOMAIN Append(q, e) = 1..(Len(q) + 1)
           /\ \A k \in 1..Len(q) : Append(q, e)[k] = q[k]
           /\ Append(q, e)[Len(q) + 1] = e
OBVIOUS

\* The last element is taken off.
LEMMA FrontFacts ==
    ASSUME NEW S, NEW q \in Seq(S), q # <<>>
    PROVE  /\ Len(q) \in Nat \ {0} /\ DOMAIN q = 1..Len(q)
           /\ Last(q) = q[Len(q)] /\ Last(q) \in S
           /\ Front(q) \in Seq(S) /\ DOMAIN Front(q) = 1..(Len(q) - 1)
           /\ \A k \in 1..(Len(q) - 1) : Front(q)[k] = q[k]
<1>1. Len(q) \in Nat \ {0} /\ DOMAIN q = 1..Len(q) /\ q[Len(q)] \in S
    OBVIOUS
<1>2. /\ SubSeq(q, 1, Len(q) - 1) \in Seq(S)
      /\ DOMAIN SubSeq(q, 1, Len(q) - 1) = 1..(Len(q) - 1)
      /\ \A k \in 1..(Len(q) - 1) : SubSeq(q, 1, Len(q) - 1)[k] = q[k]
    BY <1>1
<1> QED  BY <1>1, <1>2 DEF Last, Front

\* Two sequences are joined.
LEMMA ConcatFacts ==
    ASSUME NEW S, NEW p \in Seq(S), NEW q \in Seq(S)
    PROVE  /\ p \o q \in Seq(S)
           /\ Len(p) \in Nat /\ Len(q) \in Nat /\ Len(p \o q) = Len(p) + Len(q)
           /\ DOMAIN p = 1..Len(p) /\ DOMAIN q = 1..Len(q)
           /\ DOMAIN (p \o q) = 1..(Len(p) + Len(q))
           /\ \A k \in 1..Len(p) : (p \o q)[k] = p[k]
           /\ \A k \in 1..Len(q) : (p \o q)[Len(p) + k] = q[k]
<1>1. /\ Len(p) \in Nat /\ Len(q) \in Nat /\ DOMAIN p = 1..Len(p) /\ DOMAIN q = 1..Len(q)
      /\ p \o q \in Seq(S) /\ Len(p \o q) = Len(p) + Len(q)
    OBVIOUS
<1>2. \A k \in 1..(Len(p) + Len(q)) : (p \o q)[k] = IF k <= Len(p) THEN p[k] ELSE q[k - Len(p)]
    OBVIOUS
<1>3. \A k \in 1..Len(p) : (p \o q)[k] = p[k]
    BY <1>1, <1>2
<1>4. ASSUME NEW k \in 1..Len(q) PROVE (p \o q)[Len(p) + k] = q[k]
    <2>1. Len(p) + k \in 1..(Len(p) + Len(q)) /\ ~(Len(p) + k <= Len(p)) /\ Len(p) + k - Len(p) = k
        BY <1>1
    <2> QED  BY <1>2, <2>1
<1>5. DOMAIN (p \o q) = 1..(Len(p) + Len(q))
    BY <1>1
<1> QED  BY <1>1, <1>3, <1>4, <1>5

-----------------------------------------------------------------------------
\* The backend.

\* What was there stays, under the id it had.
LEMMA NamesKept ==
    ASSUME chunks \in Seq(Chunk), NEW c \in Chunk, chunks' \in {chunks, Append(chunks, c)}
    PROVE  /\ chunks' \in Seq(Chunk)
           /\ \A i \in DOMAIN chunks : i \in DOMAIN chunks' /\ chunks'[i] = chunks[i]
           /\ \A r : Names(r) => Names(r)'
           /\ \A d : WellFormed(d) => WellFormed(d)'
<1>1. /\ chunks' \in Seq(Chunk)
      /\ \A i \in DOMAIN chunks : i \in DOMAIN chunks' /\ chunks'[i] = chunks[i]
    <2>1. CASE chunks' = chunks
        BY <2>1
    <2>2. CASE chunks' = Append(chunks, c)
        BY <2>2, AppendFacts
    <2> QED  BY <2>1, <2>2
<1>2. \A r : Names(r) => Names(r)'
    BY <1>1 DEF Names
<1>3. \A d : WellFormed(d) => WellFormed(d)'
    BY <1>2 DEF WellFormed
<1> QED  BY <1>1, <1>2, <1>3

\* insert_chunk: the chunk is there, under one id, and after its children.
LEMMA InsertChunkFacts ==
    ASSUME ChunksInv, ChildrenPrecedeParents,
           NEW c \in Chunk, WellFormed(c), InsertChunk(c)
    PROVE  /\ chunks' \in {chunks, Append(chunks, c)}
           /\ ChunksInv' /\ ChildrenPrecedeParents'
           /\ IdOf(c) \in Nat \ {0}
           /\ IdOf(c) \in DOMAIN chunks' /\ chunks'[IdOf(c)] = c
<1>0. chunks \in Seq(Chunk)
    BY DEF ChunksInv
<1>1. CASE Known(c)
    <2>1. chunks' = chunks
        BY <1>1 DEF InsertChunk
    <2>2. IdOf(c) \in DOMAIN chunks /\ chunks[IdOf(c)] = c
        BY <1>1 DEF Known, IdOf
    <2>3. ChunksInv' /\ ChildrenPrecedeParents'
        BY <2>1 DEF ChunksInv, ChildrenPrecedeParents, WellFormed, Names
    <2>4. DOMAIN chunks \subseteq Nat \ {0}
        BY <1>0
    <2> QED  BY <2>1, <2>2, <2>3, <2>4
<1>2. CASE ~Known(c)
    <2>0. PICK n \in Nat : n = Len(chunks)
        BY <1>0
    <2>1. chunks' = Append(chunks, c) /\ IdOf(c) = n + 1
        BY <1>2, <2>0 DEF InsertChunk, IdOf
    <2>2. /\ DOMAIN chunks = 1..n /\ DOMAIN chunks' = 1..(n + 1)
          /\ chunks'[n + 1] = c
          /\ \A i \in 1..n : chunks'[i] = chunks[i]
        BY <1>0, <2>0, <2>1, AppendFacts
    <2>3. /\ chunks' \in Seq(Chunk) /\ \A d : WellFormed(d) => WellFormed(d)'
        BY <1>0, <2>1, NamesKept
    <2>4. 1..(n + 1) = 1..n \cup {n + 1}
        BY <2>0
    <2>5. \A i \in DOMAIN chunks' : WellFormed(chunks[i])'
        <3> SUFFICES ASSUME NEW i \in 1..(n + 1) PROVE WellFormed(chunks[i])'
            BY <2>2
        <3>1. PICK d : d = chunks'[i]
            OBVIOUS
        <3>2. WellFormed(d)
            BY <2>2, <2>4, <3>1 DEF ChunksInv
        <3> QED  BY <2>3, <3>1, <3>2
    <2>6. ChunksInv'
        BY <2>3, <2>5 DEF ChunksInv
    <2>7. \A k \in DOMAIN c.refs : c.refs[k].id \in 1..n
        BY <2>2 DEF WellFormed, Names
    <2>8. \A k \in DOMAIN c.refs : c.refs[k].id < n + 1
        BY <2>0, <2>7
    <2>9. ChildrenPrecedeParents'
        BY <2>2, <2>4, <2>8 DEF ChildrenPrecedeParents
    <2> QED  BY <2>0, <2>1, <2>2, <2>6, <2>9
<1> QED  BY <1>1, <1>2

-----------------------------------------------------------------------------
\* The writer.

\* self.levels gets a new, empty level if the tree grows.
LEMMA GrowFacts ==
    ASSUME LevelsInv, NEW n \in Nat, n <= Len(levels)
    PROVE  /\ GrowTo(n) \in Seq(Seq(Ref))
           /\ Len(GrowTo(n)) = IF n < Len(levels) THEN Len(levels) ELSE n + 1
           /\ \A k \in DOMAIN levels : GrowTo(n)[k] = levels[k]
           /\ n = Len(levels) => GrowTo(n)[n + 1] = <<>>
<1>0. levels \in Seq(Seq(Ref)) /\ Len(levels) \in Nat /\ DOMAIN levels = 1..Len(levels)
    BY DEF LevelsInv
<1>1. PICK m \in Nat : m = IF n < Len(levels) THEN 0 ELSE n + 1 - Len(levels)
    BY <1>0
<1>2. PICK g : g = [i \in 1..m |-> <<>>]
    OBVIOUS
<1>3. <<>> \in Seq(Ref)
    OBVIOUS
<1>4. g \in Seq(Seq(Ref)) /\ Len(g) = m /\ \A i \in 1..m : g[i] = <<>>
    BY <1>1, <1>2, <1>3
<1>5. GrowTo(n) = levels \o g
    BY <1>1, <1>2 DEF GrowTo
<1>6. PICK h : h = levels \o g
    OBVIOUS
<1>7. /\ h \in Seq(Seq(Ref)) /\ Len(h) = Len(levels) + m
      /\ \A k \in DOMAIN levels : h[k] = levels[k]
      /\ \A k \in 1..m : h[Len(levels) + k] = <<>>
    BY <1>0, <1>4, <1>6, ConcatFacts
<1>8. Len(levels) + m = IF n < Len(levels) THEN Len(levels) ELSE n + 1
    BY <1>0, <1>1
<1>9. n = Len(levels) => m = 1 /\ 1 \in 1..m
    BY <1>0, <1>1
<1> QED  BY <1>5, <1>6, <1>7, <1>8, <1>9

\* ls is the levels, of which there are l, with r pushed to level n.
IsPushed(ls, n, l, r) ==
    /\ r \in Ref
    /\ ls \in Seq(Seq(Ref)) /\ DOMAIN levels = 1..l
    /\ Len(ls) = IF n < l THEN l ELSE n + 1
    /\ DOMAIN ls = 1..(IF n < l THEN l ELSE n + 1)
    /\ \A k \in DOMAIN ls : k # n + 1 => k \in 1..l /\ ls[k] = levels[k]
    /\ n + 1 \in DOMAIN ls
    /\ \/ n + 1 \in 1..l /\ ls[n + 1] = Append(levels[n + 1], r)
       \/ n = l /\ ls[n + 1] = <<r>>

\* append_hashref_at: the reference is the last one of its level, and no other
\* level changes.
LEMMA PushedFacts ==
    ASSUME LevelsInv, NEW c, NEW n \in Nat, NEW l \in Nat, n = c.node, l = Len(levels), n <= l,
           IdOf(c) \in Nat \ {0},
           NEW r, r = [id |-> IdOf(c), node |-> n], NEW ls, ls = Pushed(c)
    PROVE  IsPushed(ls, n, l, r)
<1>1. r \in Ref
    BY DEF Ref
<1>2. DOMAIN levels = 1..l
    <2>1. levels \in Seq(Seq(Ref))
        BY DEF LevelsInv
    <2> QED  BY <2>1
<1>3. PICK g : g = GrowTo(n)
    OBVIOUS
<1>4. PICK m \in Nat : /\ g \in Seq(Seq(Ref)) /\ m = Len(g) /\ DOMAIN g = 1..m
                       /\ m = IF n < l THEN l ELSE n + 1
                       /\ \A k \in 1..l : g[k] = levels[k]
                       /\ n = l => g[n + 1] = <<>>
    <2>1. /\ g \in Seq(Seq(Ref))
          /\ Len(g) = IF n < l THEN l ELSE n + 1
          /\ \A k \in 1..l : g[k] = levels[k]
          /\ n = l => g[n + 1] = <<>>
        BY <1>2, <1>3, GrowFacts
    <2>2. Len(g) \in Nat /\ DOMAIN g = 1..Len(g)
        BY <2>1
    <2> QED  BY <2>1, <2>2
<1>5. /\ n + 1 \in 1..m
      /\ \A k \in 1..m : k # n + 1 => k \in 1..l
      /\ n + 1 \in 1..l \/ n = l
    BY <1>4
<1>6. ls = [g EXCEPT ![n + 1] = Append(g[n + 1], r)]
    BY <1>3 DEF Pushed
<1>7. g[n + 1] \in Seq(Ref)
    BY <1>4, <1>5
<1>8. Append(g[n + 1], r) \in Seq(Ref)
    BY <1>1, <1>7
<1>9. /\ ls \in Seq(Seq(Ref)) /\ Len(ls) = m
      /\ DOMAIN ls = 1..m
      /\ ls[n + 1] = Append(g[n + 1], r)
      /\ \A k \in 1..m : k # n + 1 => ls[k] = g[k]
    BY <1>4, <1>5, <1>6, <1>8
<1>10. Append(<<>>, r) = <<r>>
    BY <1>1
<1>11. \/ n + 1 \in 1..l /\ ls[n + 1] = Append(levels[n + 1], r)
       \/ n = l /\ ls[n + 1] = <<r>>
    BY <1>4, <1>5, <1>9, <1>10
<1> QED  BY <1>1, <1>2, <1>4, <1>5, <1>9, <1>11 DEF IsPushed

\* References, level by level, to chunks of the backend.
GoodRefs(ls) ==
    \A k \in DOMAIN ls : \A j \in DOMAIN ls[k] : Names(ls[k][j]) /\ ls[k][j].node + 1 = k

\* collapse_level: the level is empty, and its references are a chunk to insert
\* one level up.
LEMMA CollapseFacts ==
    ASSUME order \in Order, order' = order,
           NEW ls \in Seq(Seq(Ref)), GoodRefs(ls)', NEW n \in Nat, n + 1 \in DOMAIN ls,
           \A k \in DOMAIN ls : k # n + 1 => Len(ls[k]) < order,
           CollapseLevel(ls, n)
    PROVE  /\ LevelsInv' /\ PendingInv'
           /\ pending' # <<>> /\ pending'[1].node = n + 1
           /\ Len(levels') = Len(ls)
           /\ \A k \in DOMAIN ls : k # n + 1 => levels'[k] = ls[k]
<1>0. order \in Nat /\ 0 < order
    BY TreeAssumption
<1>1. PICK m \in Nat : m = Len(ls) /\ DOMAIN ls = 1..m
    OBVIOUS
<1>2. <<>> \in Seq(Ref) /\ Len(<<>>) = 0 /\ DOMAIN <<>> = {}
    OBVIOUS
<1>3. levels' = [ls EXCEPT ![n + 1] = <<>>] /\ pending' = <<Branch(n + 1, ls[n + 1])>>
    BY DEF CollapseLevel
<1>4. /\ levels' \in Seq(Seq(Ref)) /\ Len(levels') = m /\ DOMAIN levels' = 1..m
      /\ levels'[n + 1] = <<>>
      /\ \A k \in 1..m : k # n + 1 => levels'[k] = ls[k]
    BY <1>1, <1>2, <1>3
<1>5. LevelsInv'
    <2>1. ASSUME NEW k \in 1..m
          PROVE  /\ Len(levels'[k]) < order
                 /\ \A j \in DOMAIN levels'[k] : Names(levels[k][j])' /\ levels'[k][j].node + 1 = k
        <3>1. CASE k = n + 1
            BY <1>0, <1>2, <1>4, <3>1
        <3>2. CASE k # n + 1
            <4>1. levels'[k] = ls[k]
                BY <1>4, <3>2
            <4> QED  BY <1>1, <3>2, <4>1 DEF GoodRefs, Names
        <3> QED  BY <3>1, <3>2
    <2> QED  BY <1>4, <2>1 DEF LevelsInv
<1>6. PICK c : c = Branch(n + 1, ls[n + 1])
    OBVIOUS
<1>7. /\ c \in Chunk /\ c.node = n + 1 /\ c.refs = ls[n + 1]
    <2>1. ls[n + 1] \in Seq(Ref)
        OBVIOUS
    <2> QED  BY <1>6, <2>1 DEF Branch, Chunk
<1>8. WellFormed(c)'
    BY <1>7 DEF WellFormed, GoodRefs, Names
<1>9. pending' = <<c>> /\ <<c>> \in Seq(Chunk) /\ Len(<<c>>) = 1 /\ <<c>>[1] = c /\ <<c>> # <<>>
    BY <1>3, <1>6, <1>7
<1>10. n + 1 <= m
    BY <1>1
<1>11. WellFormed(pending[1])'
    BY <1>8, <1>9
<1>12. PendingInv'
    BY <1>4, <1>7, <1>9, <1>10, <1>11 DEF PendingInv
<1> QED  BY <1>1, <1>4, <1>5, <1>7, <1>9, <1>12

\* What append_at does, by the names of its parts.
LEMMA AppendAtParts ==
    ASSUME TreeInv, AppendAt
    PROVE  \E x \in Chunk, n \in Nat, l \in Nat, r \in Ref, ls \in Seq(Seq(Ref)) :
              /\ pending # <<>> /\ x = pending[1] /\ n = x.node /\ l = Len(levels) /\ n <= l
              /\ WellFormed(x) /\ InsertChunk(x) /\ r.id = IdOf(x) /\ r.node = n
              /\ IsPushed(ls, n, l, r)
              /\ IF Len(ls[n + 1]) = order
                 THEN levels' = [ls EXCEPT ![n + 1] = <<>>] /\ pending' = <<Branch(n + 1, ls[n + 1])>>
                 ELSE levels' = ls /\ pending' = <<>>
<1>0. PICK c, n, l, r, ls : /\ c = Head(pending) /\ n = c.node /\ l = Len(levels)
                            /\ r = [id |-> IdOf(c), node |-> n] /\ ls = Pushed(c)
    OBVIOUS
<1>1. /\ pending # <<>> /\ InsertChunk(c)
      /\ IF Len(ls[n + 1]) = order THEN CollapseLevel(ls, n) ELSE levels' = ls /\ pending' = <<>>
    BY <1>0 DEF AppendAt
<1>2. c \in Chunk /\ c = pending[1] /\ WellFormed(c) /\ n \in Nat /\ l \in Nat /\ n <= l
    <2>1. pending \in Seq(Chunk) /\ WellFormed(pending[1]) /\ pending[1].node <= Len(levels)
        BY <1>1 DEF TreeInv, PendingInv
    <2>2. c = pending[1] /\ c \in Chunk
        BY <1>0, <1>1, <2>1
    <2>3. n \in Nat
        BY <1>0, <2>2 DEF Chunk
    <2>4. levels \in Seq(Seq(Ref))
        BY DEF TreeInv, LevelsInv
    <2> QED  BY <1>0, <2>1, <2>2, <2>3, <2>4
<1>3. IdOf(c) \in Nat \ {0}
    BY <1>1, <1>2, InsertChunkFacts DEF TreeInv
<1>4. LevelsInv
    BY DEF TreeInv
<1>5. IsPushed(ls, n, l, r)
    BY <1>0, <1>2, <1>3, <1>4, PushedFacts
<1>6. r \in Ref /\ ls \in Seq(Seq(Ref)) /\ r.id = IdOf(c) /\ r.node = n
    BY <1>0, <1>5 DEF IsPushed
<1>7. Len(ls[n + 1]) = order =>
         levels' = [ls EXCEPT ![n + 1] = <<>>] /\ pending' = <<Branch(n + 1, ls[n + 1])>>
    BY <1>1 DEF CollapseLevel
<1>8. IF Len(ls[n + 1]) = order
      THEN levels' = [ls EXCEPT ![n + 1] = <<>>] /\ pending' = <<Branch(n + 1, ls[n + 1])>>
      ELSE levels' = ls /\ pending' = <<>>
    BY <1>1, <1>7
<1>9. /\ pending # <<>> /\ c = pending[1] /\ n = c.node /\ l = Len(levels) /\ n <= l
      /\ WellFormed(c) /\ InsertChunk(c)
    BY <1>0, <1>1, <1>2
<1>10. c \in Chunk /\ n \in Nat /\ l \in Nat
    BY <1>2
<1> HIDE DEF Ref, Chunk
<1> QED  BY <1>5, <1>6, <1>8, <1>9, <1>10

\* append_at: the chunk is inserted and its reference pushed; a level that is
\* full is collapsed.
LEMMA AppendAtKeepsInv ==
    ASSUME TreeInv, AppendAt
    PROVE  TreeInv'
<1>0. PICK c \in Chunk, n \in Nat, l \in Nat, r \in Ref, ls \in Seq(Seq(Ref)) :
        /\ pending # <<>> /\ c = pending[1] /\ n = c.node /\ l = Len(levels) /\ n <= l
        /\ WellFormed(c) /\ InsertChunk(c) /\ r.id = IdOf(c) /\ r.node = n
        /\ IsPushed(ls, n, l, r)
        /\ IF Len(ls[n + 1]) = order
           THEN levels' = [ls EXCEPT ![n + 1] = <<>>] /\ pending' = <<Branch(n + 1, ls[n + 1])>>
           ELSE levels' = ls /\ pending' = <<>>
    BY AppendAtParts
<1>1. /\ pending # <<>> /\ InsertChunk(c)
      /\ IF Len(ls[n + 1]) = order THEN CollapseLevel(ls, n) ELSE levels' = ls /\ pending' = <<>>
      /\ UNCHANGED <<order, blocks, pc, info, next, top, calls, root, visitor, stack, start, out>>
    BY <1>0 DEF AppendAt, CollapseLevel, readerVars
<1>2. /\ pc \in {"append", "locate", "collapse", "root"}
      /\ visitor = "leafs" /\ stack = <<>> /\ out = <<>>
    BY <1>1 DEF TreeInv, TopInv, ReaderInv
<1>3. c \in Chunk /\ WellFormed(c) /\ n \in Nat /\ l \in Nat /\ n <= l
    BY <1>0
<1>4. /\ chunks' \in {chunks, Append(chunks, c)} /\ chunks \in Seq(Chunk)
      /\ ChunksInv' /\ ChildrenPrecedeParents'
      /\ IdOf(c) \in Nat \ {0} /\ IdOf(c) \in DOMAIN chunks' /\ chunks'[IdOf(c)] = c
    BY <1>1, <1>3, InsertChunkFacts DEF TreeInv, ChunksInv
<1>5. \A p : Names(p) => Names(p)'
    BY <1>3, <1>4, NamesKept
<1>6. /\ r \in Ref
      /\ ls \in Seq(Seq(Ref)) /\ DOMAIN levels = 1..l
      /\ Len(ls) = IF n < l THEN l ELSE n + 1
      /\ DOMAIN ls = 1..(IF n < l THEN l ELSE n + 1)
      /\ \A k \in DOMAIN ls : k # n + 1 => k \in 1..l /\ ls[k] = levels[k]
      /\ n + 1 \in DOMAIN ls
      /\ \/ n + 1 \in 1..l /\ ls[n + 1] = Append(levels[n + 1], r)
         \/ n = l /\ ls[n + 1] = <<r>>
    BY <1>0 DEF IsPushed
<1>7. Names(r)' /\ r.node = n
    BY <1>0, <1>4 DEF Names
<1>8. order \in Nat /\ 1 < order
    BY TreeAssumption DEF TreeInv
<1>9. \A k \in DOMAIN ls : k # n + 1 =>
        /\ Len(ls[k]) < order
        /\ \A j \in DOMAIN ls[k] : Names(ls[k][j]) /\ ls[k][j].node + 1 = k
    <2>1. \A k \in DOMAIN levels :
            /\ Len(levels[k]) < order
            /\ \A j \in DOMAIN levels[k] : Names(levels[k][j]) /\ levels[k][j].node + 1 = k
        BY DEF TreeInv, LevelsInv
    <2> QED  BY <1>6, <2>1
<1>10. /\ ls[n + 1] # <<>> /\ Len(ls[n + 1]) <= order
       /\ \A j \in DOMAIN ls[n + 1] :
            (Names(ls[n + 1][j]) \/ ls[n + 1][j] = r) /\ ls[n + 1][j].node + 1 = n + 1
    <2>1. CASE n + 1 \in 1..l /\ ls[n + 1] = Append(levels[n + 1], r)
        <3>1. PICK q : q = levels[n + 1]
            OBVIOUS
        <3>2. /\ q \in Seq(Ref) /\ Len(q) < order
              /\ \A j \in DOMAIN q : Names(q[j]) /\ q[j].node + 1 = n + 1
            <4>1. levels \in Seq(Seq(Ref)) /\ n + 1 \in DOMAIN levels
                BY <1>6, <2>1 DEF TreeInv, LevelsInv
            <4>2. q \in Seq(Ref)
                BY <3>1, <4>1
            <4> QED  BY <3>1, <4>1, <4>2 DEF TreeInv, LevelsInv
        <3>3. PICK m \in Nat : m = Len(q)
            BY <3>2
        <3>4. /\ Append(q, r) # <<>> /\ Len(Append(q, r)) = m + 1
              /\ DOMAIN q = 1..m /\ DOMAIN Append(q, r) = 1..(m + 1)
              /\ \A j \in 1..m : Append(q, r)[j] = q[j]
              /\ Append(q, r)[m + 1] = r
            BY <1>6, <3>2, <3>3, AppendFacts
        <3>5. m + 1 <= order /\ 1..(m + 1) = 1..m \cup {m + 1}
            BY <1>8, <3>2, <3>3
        <3> QED  BY <1>7, <2>1, <3>1, <3>2, <3>4, <3>5
    <2>2. CASE n = l /\ ls[n + 1] = <<r>>
        <3>1. Len(<<r>>) = 1 /\ DOMAIN <<r>> = {1} /\ <<r>>[1] = r /\ <<r>> # <<>>
            OBVIOUS
        <3> QED  BY <1>7, <1>8, <2>2, <3>1
    <2> QED  BY <1>6, <2>1, <2>2
<1>11. GoodRefs(ls)'
    BY <1>5, <1>7, <1>9, <1>10 DEF GoodRefs
\* The top level after the push.
<1>12. /\ Len(ls) \in Nat /\ Len(ls) >= l /\ Len(ls) > n
       /\ Len(ls) # n + 1 => Len(ls) = l /\ l > n + 1
    BY <1>3, <1>6
<1>13. Len(ls) # n + 1 => ls[Len(ls)] # <<>>
    <2> SUFFICES ASSUME Len(ls) # n + 1 PROVE ls[Len(ls)] # <<>>
        OBVIOUS
    <2>1. Len(ls) = l /\ l > n + 1 /\ l \in 1..l /\ l \in DOMAIN ls
        BY <1>3, <1>6, <1>12
    <2>2. ls[l] = levels[l]
        BY <1>6, <2>1
    <2>3. levels # <<>> /\ ~(n + 1 >= l)
        BY <1>3, <1>6, <2>1
    <2>4. pending[1] = c
        BY <1>0, <1>1 DEF TreeInv, PendingInv
    <2>5. levels[l] # <<>>
        BY <1>0, <2>3, <2>4 DEF TreeInv, TopInv
    <2> QED  BY <2>1, <2>2, <2>5
<1>14. /\ LevelsInv' /\ PendingInv'
       /\ Len(levels') = Len(ls)
       /\ levels' # <<>> \/ pending' # <<>>
       /\ levels'[Len(ls)] # <<>> \/ (pending' # <<>> /\ pending'[1].node + 1 >= Len(ls))
    <2>1. CASE Len(ls[n + 1]) = order
        <3>1. CollapseLevel(ls, n)
            BY <1>1, <2>1
        <3>2. /\ LevelsInv' /\ PendingInv'
              /\ pending' # <<>> /\ pending'[1].node = n + 1
              /\ Len(levels') = Len(ls)
              /\ \A k \in DOMAIN ls : k # n + 1 => levels'[k] = ls[k]
            BY <1>1, <1>3, <1>6, <1>9, <1>11, <3>1, CollapseFacts DEF TreeInv
        <3>3. CASE Len(ls) = n + 1
            BY <1>3, <3>2, <3>3
        <3>4. CASE Len(ls) # n + 1
            <4>1. Len(ls) \in DOMAIN ls
                BY <1>6, <1>12
            <4> QED  BY <1>13, <3>2, <3>4, <4>1
        <3> QED  BY <3>3, <3>4
    <2>2. CASE Len(ls[n + 1]) # order
        <3>1. levels' = ls /\ pending' = <<>>
            BY <1>1, <2>2
        <3>2. Len(ls[n + 1]) < order
            <4>1. ls[n + 1] \in Seq(Ref)
                BY <1>6
            <4>2. Len(ls[n + 1]) \in Nat
                BY <4>1
            <4> QED  BY <1>8, <1>10, <2>2, <4>2
        <3>3. LevelsInv'
            BY <1>1, <1>6, <1>9, <1>11, <3>1, <3>2 DEF LevelsInv, GoodRefs
        <3>4. PendingInv'
            BY <3>1 DEF PendingInv
        <3>5. ls[Len(ls)] # <<>> /\ ls # <<>>
            BY <1>6, <1>10, <1>12, <1>13
        <3> QED  BY <3>1, <3>3, <3>4, <3>5
    <2> QED  BY <2>1, <2>2
<1>15. TopInv'
    <2>1. pc = "collapse" => top \in Nat /\ top < Len(levels') /\ next \in 0..top
        BY <1>0, <1>3, <1>12, <1>14 DEF TreeInv, TopInv
    <2>2. root # <<>> => root \in Seq(Ref) /\ Len(root) = 1 /\ Names(root[1])'
        <3>1. PICK p : p = root[1]
            OBVIOUS
        <3> QED  BY <1>1, <1>5, <3>1 DEF TreeInv, TopInv
    <2> QED  BY <1>1, <1>2, <1>14, <2>1, <2>2 DEF TopInv
<1>16. ReaderInv' /\ MetInv'
    BY <1>1, <1>2 DEF ReaderInv, MetInv
<1> QED  BY <1>1, <1>2, <1>4, <1>14, <1>15, <1>16 DEF TreeInv

\* What a step keeps that leaves the chunks, the levels and the reader alone,
\* and does not begin to read.
LEMMA WriterKeeps ==
    ASSUME TreeInv, UNCHANGED <<order, chunks, levels, readerVars>>,
           pc \notin {"read", "end"},
           pc' \in {"append", "locate", "collapse", "root", "done"}
    PROVE  /\ order' \in Order /\ visitor' = "leafs"
           /\ ChunksInv' /\ ChildrenPrecedeParents' /\ LevelsInv' /\ ReaderInv' /\ MetInv'
<1>1. UNCHANGED <<visitor, stack, start, out>> /\ visitor = "leafs" /\ stack = <<>> /\ out = <<>>
    BY DEF TreeInv, ReaderInv, readerVars
<1>2. ChunksInv' /\ ChildrenPrecedeParents'
    BY DEF TreeInv, ChunksInv, ChildrenPrecedeParents, WellFormed, Names
<1>3. LevelsInv'
    BY DEF TreeInv, LevelsInv, Names
<1>4. ReaderInv' /\ MetInv'
    BY <1>1 DEF ReaderInv, MetInv
<1> QED  BY <1>1, <1>2, <1>3, <1>4 DEF TreeInv

\* A leaf may always be inserted.
LEMMA LeafFacts ==
    ASSUME NEW b \in Block \cup {EmptyBlock}
    PROVE  /\ Leaf(b) \in Chunk /\ Leaf(b).node = 0 /\ WellFormed(Leaf(b))
           /\ <<Leaf(b)>> \in Seq(Chunk) /\ Len(<<Leaf(b)>>) = 1
           /\ <<Leaf(b)>>[1] = Leaf(b) /\ <<Leaf(b)>> # <<>>
<1>1. PICK c : c = Leaf(b)
    OBVIOUS
<1>2. c \in Chunk /\ c.node = 0 /\ c.refs = <<>> /\ DOMAIN c.refs = {}
    BY <1>1 DEF Leaf, Chunk
<1>3. WellFormed(c)
    BY <1>2 DEF WellFormed
<1>4. <<c>> \in Seq(Chunk) /\ Len(<<c>>) = 1 /\ <<c>>[1] = c /\ <<c>> # <<>>
    BY <1>2
<1> QED  BY <1>1, <1>2, <1>3, <1>4

\* append: the block is to be inserted.
LEMMA AppendBlockKeepsInv ==
    ASSUME TreeInv, NEW b \in Block, AppendBlock(b)
    PROVE  TreeInv'
<1>1. /\ pc = "append" /\ pending' = <<Leaf(b)>> /\ pending = <<>>
      /\ UNCHANGED <<order, chunks, levels, pc, next, top, root, readerVars>>
    BY DEF AppendBlock
<1>2. /\ order' \in Order /\ visitor' = "leafs"
      /\ ChunksInv' /\ ChildrenPrecedeParents' /\ LevelsInv' /\ ReaderInv' /\ MetInv'
    BY <1>1, WriterKeeps
<1>3. Len(levels) \in Nat
    BY DEF TreeInv, LevelsInv
<1>4. PendingInv'
    <2>1. WellFormed(pending[1])'
        BY <1>1, LeafFacts DEF WellFormed, Names
    <2> QED  BY <1>1, <1>3, <2>1, LeafFacts DEF PendingInv
<1>5. TopInv'
    BY <1>1 DEF TreeInv, TopInv, Names
<1> QED  BY <1>1, <1>2, <1>4, <1>5 DEF TreeInv

\* hash() is called: an empty tree gets an empty block.
LEMMA HashBeginKeepsInv ==
    ASSUME TreeInv, NEW i \in BOOLEAN, HashBegin(i)
    PROVE  TreeInv'
<1>1. /\ pc \in {"append", "done"} /\ pc' = "locate" /\ pending = <<>>
      /\ pending' = IF levels = <<>> THEN <<Leaf(EmptyBlock)>> ELSE <<>>
      /\ UNCHANGED <<order, chunks, levels, next, top, root, readerVars>>
    BY DEF HashBegin
<1>2. /\ order' \in Order /\ visitor' = "leafs"
      /\ ChunksInv' /\ ChildrenPrecedeParents' /\ LevelsInv' /\ ReaderInv' /\ MetInv'
    BY <1>1, WriterKeeps
<1>3. Len(levels) \in Nat
    BY DEF TreeInv, LevelsInv
<1>4. PendingInv'
    <2>1. CASE levels = <<>>
        <3>1. WellFormed(pending[1])'
            BY <1>1, <2>1, LeafFacts DEF WellFormed, Names
        <3> QED  BY <1>1, <1>3, <2>1, <3>1, LeafFacts DEF PendingInv
    <2>2. CASE levels # <<>>
        BY <1>1, <2>2 DEF PendingInv
    <2> QED  BY <2>1, <2>2
<1>5. TopInv'
    <2>1. levels # <<>> \/ pending' # <<>>
        BY <1>1, LeafFacts
    <2>2. levels # <<>> => levels[Len(levels)] # <<>>
        BY <1>1 DEF TreeInv, TopInv
    <2> QED  BY <1>1, <2>1, <2>2 DEF TreeInv, TopInv, Names
<1> QED  BY <1>1, <1>2, <1>4, <1>5 DEF TreeInv

\* Some level is the lowest that is not empty.
LEMMA LowestLevel ==
    ASSUME levels \in Seq(Seq(Ref)), levels # <<>>, levels[Len(levels)] # <<>>
    PROVE  \E n \in 0..TopLevel : levels[n + 1] # <<>> /\ \A m \in 1..n : levels[m] = <<>>
<1>1. PICK l \in Nat \ {0} : l = Len(levels) /\ TopLevel = l - 1
    BY DEF TopLevel
<1> DEFINE U == {n \in Nat : n < l /\ levels[n + 1] # <<>>}
<1>2. l - 1 \in U /\ U \subseteq Nat
    BY <1>1
<1>3. PICK n \in U : \A u \in U : ~(<<u, n>> \in OpToRel(<, Nat))
    <2> HIDE DEF U
    <2> QED  BY <1>2, NatLessThanWellFounded, WFMin
<1>4. n \in Nat /\ n < l /\ levels[n + 1] # <<>>
    OBVIOUS
<1>5. ASSUME NEW m \in 1..n PROVE levels[m] = <<>>
    <2>1. m - 1 \in Nat /\ m - 1 < n /\ m - 1 < l /\ (m - 1) + 1 = m
        BY <1>1, <1>4
    <2>2. m - 1 \in U => <<m - 1, n>> \in OpToRel(<, Nat)
        BY <1>4, <2>1 DEF OpToRel
    <2>3. m - 1 \notin U
        BY <1>3, <2>2
    <2> QED  BY <2>1, <2>3
<1>6. n \in 0..TopLevel
    BY <1>1, <1>4
<1> QED  BY <1>4, <1>5, <1>6

\* hash() fixes the range of levels to collapse.
LEMMA HashLocateKeepsInv ==
    ASSUME TreeInv, HashLocate
    PROVE  TreeInv'
<1>1. /\ pc = "locate" /\ pc' = "collapse" /\ pending = <<>> /\ pending' = pending
      /\ next' = CHOOSE n \in 0 .. TopLevel :
                   levels[n + 1] # <<>> /\ \A m \in 1 .. n : levels[m] = <<>>
      /\ top' = TopLevel
      /\ UNCHANGED <<order, chunks, levels, root, readerVars>>
    BY DEF HashLocate
<1>2. /\ order' \in Order /\ visitor' = "leafs"
      /\ ChunksInv' /\ ChildrenPrecedeParents' /\ LevelsInv' /\ ReaderInv' /\ MetInv'
    BY <1>1, WriterKeeps
<1>3. levels \in Seq(Seq(Ref)) /\ levels # <<>> /\ levels[Len(levels)] # <<>>
    BY <1>1 DEF TreeInv, LevelsInv, TopInv
<1>4. next' \in 0..TopLevel
    BY <1>1, <1>3, LowestLevel
<1>5. TopLevel \in Nat /\ TopLevel < Len(levels)
    BY <1>3 DEF TopLevel
<1>6. TopInv'
    BY <1>1, <1>3, <1>4, <1>5 DEF TreeInv, TopInv, Names
<1>7. PendingInv'
    BY <1>1 DEF PendingInv
<1> QED  BY <1>1, <1>2, <1>6, <1>7 DEF TreeInv

\* A level below the top, or the top level at the end, is collapsed: what is
\* pending will be a new top only in the second case.
LEMMA HashCollapses ==
    ASSUME TreeInv, pending = <<>>, NEW n \in Nat, n + 1 <= Len(levels), CollapseLevel(levels, n),
           UNCHANGED <<order, chunks, root, readerVars>>,
           pc \in {"collapse", "root"}, pc' \in {"collapse", "root"},
           pc' = "collapse" => top' \in Nat /\ top' < Len(levels) /\ next' \in 0..top'
    PROVE  TreeInv'
<1>0. PICK ls : ls = levels
    OBVIOUS
<1>1. LevelsInv /\ ls \in Seq(Seq(Ref))
    BY <1>0 DEF TreeInv, LevelsInv
<1>2. PICK l \in Nat : l = Len(ls) /\ DOMAIN ls = 1..l
    BY <1>1
<1>3. n + 1 \in 1..l /\ l \in 1..l
    BY <1>0, <1>2
<1>4. GoodRefs(ls)' /\ \A k \in DOMAIN ls : Len(ls[k]) < order
    BY <1>0, <1>1 DEF LevelsInv, GoodRefs, Names
<1>5. /\ LevelsInv' /\ PendingInv'
      /\ pending' # <<>> /\ pending'[1].node = n + 1
      /\ Len(levels') = l
      /\ \A k \in 1..l : k # n + 1 => levels'[k] = ls[k]
    BY <1>0, <1>1, <1>2, <1>3, <1>4, CollapseFacts DEF TreeInv
<1>6. levels # <<>> /\ levels[l] # <<>>
    <2>1. levels # <<>>
        BY DEF TreeInv, TopInv
    <2> QED  BY <1>0, <1>2, <2>1 DEF TreeInv, TopInv
<1>7. UNCHANGED <<visitor, stack, start, out>> /\ visitor = "leafs" /\ stack = <<>> /\ out = <<>>
    BY DEF TreeInv, ReaderInv, readerVars
<1>8. TopInv'
    <2>1. levels'[l] # <<>> \/ n + 2 >= l
        BY <1>0, <1>2, <1>3, <1>5, <1>6
    <2>2. root # <<>> => root \in Seq(Ref) /\ Len(root) = 1 /\ Names(root[1])'
        BY DEF TreeInv, TopInv, Names
    <2>3. n + 2 >= l => pending'[1].node + 1 >= l
        BY <1>5
    <2> QED  BY <1>0, <1>2, <1>5, <2>1, <2>2, <2>3 DEF TopInv
<1>9. ChunksInv' /\ ChildrenPrecedeParents'
    BY DEF TreeInv, ChunksInv, ChildrenPrecedeParents, WellFormed, Names
<1>10. ReaderInv' /\ MetInv'
    BY <1>7 DEF ReaderInv, MetInv
<1> QED  BY <1>5, <1>7, <1>8, <1>9, <1>10 DEF TreeInv

\* The loop of hash(), and its last step.
LEMMA HashCollapseKeepsInv ==
    ASSUME TreeInv, HashCollapse \/ HashTop
    PROVE  TreeInv'
<1>1. /\ pc = "collapse" /\ pending = <<>>
      /\ top \in Nat /\ top < Len(levels) /\ next \in 0..top
      /\ Len(levels) \in Nat /\ levels \in Seq(Seq(Ref))
    BY DEF TreeInv, TopInv, LevelsInv, HashCollapse, HashTop
<1>2. CASE HashCollapse
    <2>1. /\ next < top /\ CollapseLevel(levels, next) /\ next' = next + 1
          /\ UNCHANGED <<order, chunks, pc, top, root, readerVars>>
        BY <1>2 DEF HashCollapse
    <2>2. next \in Nat /\ next + 1 <= Len(levels) /\ next' \in 0..top
        BY <1>1, <2>1
    <2> QED  BY <1>1, <2>1, <2>2, HashCollapses
<1>3. CASE HashTop /\ NeedsRoot
    <2>1. /\ CollapseLevel(levels, TopLevel) /\ pc' = "root"
          /\ UNCHANGED <<order, chunks, root, readerVars>>
        BY <1>3 DEF HashTop
    <2>2. TopLevel \in Nat /\ TopLevel + 1 <= Len(levels)
        BY <1>1 DEF TopLevel
    <2> QED  BY <1>1, <2>1, <2>2, HashCollapses
<1>4. CASE HashTop /\ ~NeedsRoot
    <2>1. /\ pc' = "root"
          /\ UNCHANGED <<order, chunks, levels, pending, root, readerVars>>
        BY <1>4 DEF HashTop
    <2>2. /\ order' \in Order /\ visitor' = "leafs"
          /\ ChunksInv' /\ ChildrenPrecedeParents' /\ LevelsInv' /\ ReaderInv' /\ MetInv'
        BY <1>1, <2>1, WriterKeeps
    <2>3. PendingInv' /\ TopInv'
        BY <1>1, <2>1 DEF TreeInv, PendingInv, TopInv, Names
    <2> QED  BY <2>1, <2>2, <2>3 DEF TreeInv
<1> QED  BY <1>2, <1>3, <1>4

\* The root is the last reference of the top level.
LEMMA HashReturnKeepsInv ==
    ASSUME TreeInv, HashReturn
    PROVE  TreeInv'
<1>1. /\ pc = "root" /\ pc' = "done" /\ pending = <<>> /\ pending' = pending
      /\ root' = <<Last(Last(levels))>>
      /\ UNCHANGED <<order, chunks, levels, next, top, readerVars>>
    BY DEF HashReturn
<1>2. /\ order' \in Order /\ visitor' = "leafs"
      /\ ChunksInv' /\ ChildrenPrecedeParents' /\ LevelsInv' /\ ReaderInv' /\ MetInv'
    BY <1>1, WriterKeeps
<1>3. levels \in Seq(Seq(Ref)) /\ levels # <<>> /\ levels[Len(levels)] # <<>>
    BY <1>1 DEF TreeInv, LevelsInv, TopInv
<1>4. PICK q \in Seq(Ref) : q = Last(levels) /\ q # <<>> /\ \A k \in DOMAIN q : Names(q[k])
    <2>1. Len(levels) \in DOMAIN levels /\ levels[Len(levels)] \in Seq(Ref)
        BY <1>3
    <2> QED  BY <1>3, <2>1 DEF TreeInv, LevelsInv, Last
<1>5. PICK r \in Ref : r = Last(q) /\ Names(r)
    <2>1. Len(q) \in DOMAIN q /\ q[Len(q)] \in Ref
        BY <1>4
    <2> QED  BY <1>4, <2>1 DEF Last
<1>6. /\ root' = <<r>> /\ <<r>> \in Seq(Ref) /\ Len(<<r>>) = 1
      /\ <<r>>[1] = r /\ <<r>> # <<>>
    BY <1>1, <1>4, <1>5
<1>7. Names(root[1])'
    BY <1>1, <1>5, <1>6 DEF Names
<1>8. TopInv'
    BY <1>1, <1>3, <1>6, <1>7 DEF TopInv
<1>9. PendingInv'
    BY <1>1 DEF PendingInv
<1> QED  BY <1>1, <1>2, <1>8, <1>9 DEF TreeInv

-----------------------------------------------------------------------------
\* The reader.

Frame == [leave : BOOLEAN, ref : Ref]

\* What the reader leaves alone.
LEMMA ReaderKeeps ==
    ASSUME TreeInv, pc \in {"done", "read"}, pc' \in {"read", "end"},
           UNCHANGED <<order, writerVars>>, visitor' \in {"leafs", "nodes"},
           ReaderInv', MetInv'
    PROVE  TreeInv'
<1>1. UNCHANGED <<order, chunks, levels, pending, next, top, root>>
    BY DEF writerVars
<1>2. pending = <<>> /\ root # <<>> /\ levels # <<>>
    BY DEF TreeInv, TopInv
<1>3. ChunksInv' /\ ChildrenPrecedeParents'
    BY <1>1 DEF TreeInv, ChunksInv, ChildrenPrecedeParents, WellFormed, Names
<1>4. LevelsInv'
    BY <1>1 DEF TreeInv, LevelsInv, Names
<1>5. PendingInv'
    BY <1>1, <1>2 DEF PendingInv
<1>6. TopInv'
    BY <1>1, <1>2 DEF TreeInv, TopInv, Names
<1> QED  BY <1>1, <1>3, <1>4, <1>5, <1>6 DEF TreeInv

\* The walk begins at the root, and ends when the stack is empty.
LEMMA WalkerKeepsInv ==
    ASSUME TreeInv, WalkerEnd \/ \E v \in {"leafs", "nodes"} : WalkerNew(v)
    PROVE  TreeInv'
<1>1. CASE WalkerEnd
    <2>1. /\ pc = "read" /\ pc' = "end" /\ stack = <<>>
          /\ UNCHANGED <<order, writerVars, visitor, stack, start, out>>
          /\ UNCHANGED <<chunks, root>>
        BY <1>1 DEF WalkerEnd, readerVars, writerVars
    <2>2. ReaderInv'
        BY <2>1 DEF TreeInv, ReaderInv, Names
    <2>3. MetInv'
        BY <2>1 DEF TreeInv, MetInv, ChildOf
    <2> QED  BY <2>1, <2>2, <2>3, ReaderKeeps DEF TreeInv
<1>2. ASSUME NEW v \in {"leafs", "nodes"}, WalkerNew(v) PROVE TreeInv'
    <2>1. /\ pc = "done" /\ pc' = "read" /\ visitor' = v
          /\ stack' = <<Enter(root[1])>> /\ out' = <<>>
          /\ UNCHANGED <<order, writerVars, chunks, root>>
        BY <1>2 DEF WalkerNew, writerVars
    <2>2. root[1] \in Ref /\ Names(root[1])
        BY <2>1 DEF TreeInv, TopInv
    <2>3. PICK e : e = Enter(root[1])
        OBVIOUS
    <2>4. e \in Frame /\ e.ref = root[1]
        BY <2>2, <2>3 DEF Enter, Frame
    <2>5. <<e>> \in Seq(Frame) /\ DOMAIN <<e>> = {1} /\ <<e>>[1] = e
        BY <2>4
    <2>6. out' \in Seq(Ref) /\ DOMAIN out' = {} /\ Len(out') = 0
        BY <2>1
    <2>7. ReaderInv'
        BY <2>1, <2>2, <2>3, <2>4, <2>5, <2>6 DEF ReaderInv, Names, Frame
    <2>8. MetInv'
        <3>1. \A k \in 2..Len(out') : FALSE
            BY <2>6
        <3> QED  BY <2>1, <2>3, <2>5, <2>6, <3>1 DEF MetInv
    <2> QED  BY <2>1, <2>7, <2>8, ReaderKeeps
<1> QED  BY <1>1, <1>2

\* A branch whose children are done leaves the stack.
LEMMA LeaveNodeKeepsInv ==
    ASSUME TreeInv, LeaveNode
    PROVE  TreeInv'
<1>1. /\ pc = "read" /\ stack # <<>> /\ Last(stack).leave
      /\ stack' = Front(stack)
      /\ UNCHANGED <<order, writerVars, pc, visitor, start, out>>
      /\ UNCHANGED <<chunks, root>>
    BY DEF LeaveNode, writerVars
<1>2. stack \in Seq(Frame) /\ \A k \in DOMAIN stack : Names(stack[k].ref)
    BY DEF TreeInv, ReaderInv, Frame
<1>3. PICK n \in Nat \ {0} : /\ n = Len(stack) /\ DOMAIN stack = 1..n
                            /\ Last(stack) = stack[n]
                            /\ stack' \in Seq(Frame) /\ DOMAIN stack' = 1..(n - 1)
                            /\ \A k \in 1..(n - 1) : stack'[k] = stack[k]
    BY <1>1, <1>2, FrontFacts
<1>4. /\ 1..(n - 1) \subseteq 1..n /\ \A k \in 1..n : k # n => k \in 1..(n - 1)
      /\ n \in 1..n
    BY <1>3
<1>5. ReaderInv'
    BY <1>1, <1>2, <1>3, <1>4 DEF TreeInv, ReaderInv, Names, Frame
<1>6. \A r : stack[n] # Enter(r)
    BY <1>1, <1>3 DEF Enter
<1>7. MetInv'
    <2> SUFFICES ASSUME visitor = "nodes" PROVE MetInv'
        BY <1>1 DEF MetInv
    <2>1. MetInv
        BY DEF TreeInv
    <2>2. out # <<>>
        <3>1. stack = <<Enter(root[1])>> => n = 1 /\ stack[n] = Enter(root[1])
            BY <1>3
        <3> QED  BY <1>1, <1>6, <2>1, <3>1 DEF MetInv
    <2>3. \A r : (\E k \in DOMAIN stack : stack[k] = Enter(r))
                    => \E k \in DOMAIN stack' : stack'[k] = Enter(r)
        BY <1>3, <1>4, <1>6
    <2>4. \A k \in DOMAIN stack' : ~stack'[k].leave
                => \E j \in DOMAIN out : ChildOf(stack'[k].ref, out[j])
        BY <1>1, <1>3, <1>4, <2>1, <2>2 DEF MetInv
    <2>5. \A k \in DOMAIN stack' : ~stack'[k].leave
                => \E j \in DOMAIN out' : ChildOf(stack[k].ref, out[j])'
        BY <1>1, <2>4 DEF ChildOf
    <2>6. \A k \in 2 .. Len(out') : \E j \in 1 .. (k - 1) : ChildOf(out[k], out[j])'
        BY <1>1, <2>1 DEF MetInv, ChildOf
    <2>7. ASSUME NEW j \in DOMAIN out', NEW r \in Ref, ChildOf(r, out[j])'
          PROVE  \/ \E k \in DOMAIN out' : out'[k] = r
                 \/ \E k \in DOMAIN stack' : stack'[k] = Enter(r)
        <3>1. ChildOf(r, out[j])
            BY <1>1, <2>7 DEF ChildOf
        <3> QED  BY <1>1, <2>1, <2>3, <3>1 DEF MetInv
    <2>8. out' # <<>> => out'[1] = root'[1]
        BY <1>1, <2>1 DEF MetInv
    <2> QED  BY <1>1, <2>2, <2>5, <2>6, <2>7, <2>8 DEF MetInv
<1> QED  BY <1>1, <1>5, <1>7, ReaderKeeps DEF TreeInv

\* The visitor meets r, from the top of the stack, which s replaces: r's
\* children are on it, and what was below r.
LEMMA EnterKeepsInv ==
    ASSUME TreeInv, pc = "read", stack # <<>>, ~Last(stack).leave,
           UNCHANGED <<order, writerVars, pc, visitor>>,
           NEW r, r = Last(stack).ref,
           out' \in {out, Append(out, r)}, visitor = "nodes" => out' = Append(out, r),
           NEW s \in Seq(Frame), stack' = s,
           \A k \in 1..(Len(stack) - 1) : k \in DOMAIN s /\ s[k] = stack[k],
           \A k \in DOMAIN s \ 1..(Len(stack) - 1) :
              Names(s[k].ref) /\ (~s[k].leave => ChildOf(s[k].ref, r)),
           \A x \in Ref : ChildOf(x, r) => \E k \in DOMAIN s : s[k] = Enter(x)
    PROVE  TreeInv'
<1>1. UNCHANGED <<chunks, root>>
    BY DEF writerVars
<1>2. /\ stack \in Seq(Frame) /\ \A k \in DOMAIN stack : Names(stack[k].ref)
      /\ out \in Seq(Ref) /\ \A k \in DOMAIN out : Names(out[k])
    BY DEF TreeInv, ReaderInv, Frame
<1>3. PICK n \in Nat \ {0} : n = Len(stack) /\ DOMAIN stack = 1..n /\ stack[n] = Last(stack)
    BY <1>2, FrontFacts
<1>4. /\ 1..(n - 1) \subseteq 1..n /\ \A k \in 1..n : k # n => k \in 1..(n - 1)
      /\ n \in 1..n
    BY <1>3
<1>5. r \in Ref /\ Names(r) /\ stack[n] = Enter(r)
    <2>1. stack[n] \in Frame /\ ~stack[n].leave /\ stack[n].ref = r
        BY <1>2, <1>3, <1>4
    <2>2. r \in Ref /\ Names(r)
        BY <1>2, <1>3, <1>4, <2>1 DEF Frame
    <2> QED  BY <2>1, <2>2 DEF Enter, Frame
<1>6. PICK m \in Nat : m = Len(out) /\ DOMAIN out = 1..m
    BY <1>2
<1>7. /\ Append(out, r) \in Seq(Ref) /\ Append(out, r) # <<>> /\ Len(Append(out, r)) = m + 1
      /\ DOMAIN Append(out, r) = 1..(m + 1)
      /\ \A k \in 1..m : Append(out, r)[k] = out[k]
      /\ Append(out, r)[m + 1] = r
    BY <1>2, <1>5, <1>6, AppendFacts
<1>8. 1..(m + 1) = 1..m \cup {m + 1}
    BY <1>6
<1>9. ReaderInv'
    <2>1. out' \in Seq(Ref) /\ \A k \in DOMAIN out' : Names(out[k])'
        <3>1. out' \in Seq(Ref) /\ \A k \in DOMAIN out' : Names(out'[k])
            <4>1. CASE out' = out
                BY <1>2, <4>1
            <4>2. CASE out' = Append(out, r)
                BY <1>2, <1>5, <1>6, <1>7, <1>8, <4>2
            <4> QED  BY <4>1, <4>2
        <3> QED  BY <1>1, <3>1 DEF Names
    <2>2. \A k \in DOMAIN s : Names(s[k].ref)
        BY <1>2, <1>3, <1>4
    <2>3. \A k \in DOMAIN stack' : Names(stack[k].ref)'
        BY <1>1, <2>2 DEF Names
    <2> QED  BY <2>1, <2>3 DEF ReaderInv, Frame
<1>10. MetInv'
    <2> SUFFICES ASSUME visitor = "nodes" PROVE MetInv'
        BY DEF MetInv
    <2>0. /\ out' = Append(out, r)
          /\ out = <<>> => stack = <<Enter(root[1])>>
          /\ out # <<>> => out[1] = root[1]
          /\ \A k \in DOMAIN stack : ~stack[k].leave =>
                out = <<>> \/ \E j \in DOMAIN out : ChildOf(stack[k].ref, out[j])
          /\ \A k \in 2 .. m : \E j \in 1 .. (k - 1) : ChildOf(out[k], out[j])
          /\ \A j \in DOMAIN out, x \in Ref :
                ChildOf(x, out[j]) =>
                    \/ \E k \in DOMAIN out : out[k] = x
                    \/ \E k \in DOMAIN stack : stack[k] = Enter(x)
        BY <1>6 DEF TreeInv, MetInv
    <2>1. out = <<>> => n = 1 /\ r = root[1] /\ m = 0
        <3> SUFFICES ASSUME out = <<>> PROVE n = 1 /\ r = root[1] /\ m = 0
            OBVIOUS
        <3>1. PICK e : e = Enter(root[1])
            OBVIOUS
        <3>2. stack = <<e>> /\ Len(<<e>>) = 1 /\ <<e>>[1] = e
            BY <2>0, <3>1
        <3>3. n = 1 /\ stack[n] = e
            BY <1>3, <3>2
        <3>4. e.ref = root[1]
            BY <3>1 DEF Enter
        <3> QED  BY <1>3, <1>6, <3>3, <3>4
    <2>2. out # <<>> => m > 0
        BY <1>2, <1>6
    <2>3. out'[1] = root'[1]
        <3>1. CASE out = <<>>
            BY <1>1, <1>7, <2>0, <2>1, <3>1
        <3>2. CASE out # <<>>
            <4>1. 1 \in 1..m
                BY <1>6, <2>2, <3>2
            <4> QED  BY <1>1, <1>7, <2>0, <3>2, <4>1
        <3> QED  BY <3>1, <3>2
    <2>4. out # <<>> => \E j \in 1..m : ChildOf(r, out[j])
        <3> SUFFICES ASSUME out # <<>> PROVE \E j \in 1..m : ChildOf(r, out[j])
            OBVIOUS
        <3>1. ~stack[n].leave /\ stack[n].ref = r
            BY <1>3
        <3> QED  BY <1>3, <1>4, <1>6, <2>0, <3>1
    <2>5. \A k \in 2 .. (m + 1) : \E j \in 1 .. (k - 1) : ChildOf(out[k], out[j])'
        <3> SUFFICES ASSUME NEW k \in 2 .. (m + 1)
                     PROVE  \E j \in 1 .. (k - 1) : ChildOf(out'[k], out'[j])
            BY <1>1 DEF ChildOf
        <3>1. CASE k \in 2..m
            <4>1. PICK j \in 1 .. (k - 1) : ChildOf(out[k], out[j])
                BY <2>0, <3>1
            <4>2. j \in 1..m /\ k \in 1..m
                BY <1>6, <3>1
            <4> QED  BY <1>7, <2>0, <4>1, <4>2
        <3>2. CASE k = m + 1
            <4>1. out # <<>> /\ k - 1 = m
                BY <1>6, <2>1, <3>2
            <4> QED  BY <1>7, <2>0, <2>4, <3>2, <4>1
        <3>3. k \in 2..m \/ k = m + 1
            BY <1>6
        <3> QED  BY <3>1, <3>2, <3>3
    <2>6. ASSUME NEW k \in DOMAIN s, ~s[k].leave
          PROVE  \E j \in 1..(m + 1) : ChildOf(s[k].ref, out'[j])
        <3>1. CASE k \in 1..(n - 1)
            <4>1. out # <<>>
                BY <1>3, <2>1, <3>1
            <4>2. PICK j \in 1..m : ChildOf(s[k].ref, out[j])
                BY <1>3, <1>4, <1>6, <2>0, <2>6, <3>1, <4>1
            <4> QED  BY <1>7, <1>8, <2>0, <4>2
        <3>2. CASE k \notin 1..(n - 1)
            <4>1. ChildOf(s[k].ref, r)
                BY <1>3, <2>6, <3>2
            <4> QED  BY <1>7, <1>8, <2>0, <4>1
        <3> QED  BY <3>1, <3>2
    <2>7. \A k \in DOMAIN stack' : ~stack'[k].leave
                => \E j \in DOMAIN out' : ChildOf(stack[k].ref, out[j])'
        <3>1. DOMAIN out' = 1..(m + 1)
            BY <1>7, <2>0
        <3>2. \A k \in DOMAIN stack' : ~stack'[k].leave
                => \E j \in DOMAIN out' : ChildOf(stack'[k].ref, out'[j])
            BY <2>6, <3>1
        <3> QED  BY <1>1, <3>2 DEF ChildOf
    <2>8. ASSUME NEW j \in DOMAIN out', NEW x \in Ref, ChildOf(x, out[j])'
          PROVE  \/ \E k \in DOMAIN out' : out'[k] = x
                 \/ \E k \in DOMAIN stack' : stack'[k] = Enter(x)
        <3>1. ChildOf(x, out'[j])
            BY <1>1, <2>8 DEF ChildOf
        <3>2. CASE j = m + 1
            BY <1>7, <2>0, <3>1, <3>2
        <3>3. CASE j \in 1..m
            <4>1. ChildOf(x, out[j])
                BY <1>7, <2>0, <3>1, <3>3
            <4>2. CASE \E k \in 1..m : out[k] = x
                BY <1>7, <1>8, <2>0, <4>2
            <4>3. ASSUME NEW k \in 1..n, stack[k] = Enter(x)
                  PROVE  \/ \E i \in DOMAIN out' : out'[i] = x
                         \/ \E i \in DOMAIN stack' : stack'[i] = Enter(x)
                <5>1. CASE k = n
                    <6>1. x = r
                        BY <1>5, <4>3, <5>1 DEF Enter
                    <6> QED  BY <1>7, <1>8, <2>0, <6>1
                <5>2. CASE k # n
                    BY <1>3, <1>4, <4>3, <5>2
                <5> QED  BY <5>1, <5>2
            <4> QED  BY <1>3, <1>6, <2>0, <3>3, <4>1, <4>2, <4>3
        <3> QED  BY <1>7, <1>8, <2>0, <3>2, <3>3
    <2> QED  BY <1>7, <2>0, <2>3, <2>5, <2>7, <2>8 DEF MetInv
<1> QED  BY <1>9, <1>10, ReaderKeeps DEF TreeInv

\* What the top of the stack refers to.
LEMMA TopFrame ==
    ASSUME TreeInv, stack # <<>>, NEW r, r = Last(stack).ref
    PROVE  /\ stack \in Seq(Frame) /\ r \in Ref /\ Names(r)
           /\ chunks[r.id] \in Chunk /\ WellFormed(chunks[r.id])
<1>1. stack \in Seq(Frame) /\ \A k \in DOMAIN stack : Names(stack[k].ref)
    BY DEF TreeInv, ReaderInv, Frame
<1>2. PICK n \in DOMAIN stack : Last(stack) = stack[n] /\ stack[n] \in Frame
    <2>1. Len(stack) \in DOMAIN stack /\ Last(stack) = stack[Len(stack)] /\ Last(stack) \in Frame
        BY <1>1, FrontFacts
    <2> QED  BY <2>1
<1>3. r \in Ref /\ Names(r)
    BY <1>1, <1>2 DEF Frame
<1>4. chunks \in Seq(Chunk) /\ \A i \in DOMAIN chunks : WellFormed(chunks[i])
    BY DEF TreeInv, ChunksInv
<1> QED  BY <1>1, <1>3, <1>4 DEF Names

\* A leaf has no children.
LEMMA EnterLeafKeepsInv ==
    ASSUME TreeInv, EnterLeaf
    PROVE  TreeInv'
<1>0. PICK r, s : r = Last(stack).ref /\ s = Front(stack)
    OBVIOUS
<1>1. /\ pc = "read" /\ stack # <<>> /\ ~Last(stack).leave /\ r.node = 0
      /\ stack' = s /\ out' = Append(out, r)
      /\ UNCHANGED <<order, writerVars, pc, visitor>>
    BY <1>0 DEF EnterLeaf
<1>2. stack \in Seq(Frame) /\ Names(r) /\ WellFormed(chunks[r.id])
    BY <1>0, <1>1, TopFrame
<1>3. /\ s \in Seq(Frame) /\ DOMAIN s = 1..(Len(stack) - 1)
      /\ \A k \in 1..(Len(stack) - 1) : s[k] = stack[k]
    <2>1. stack \in Seq(Frame) /\ stack # <<>>
        BY <1>1, <1>2
    <2>2. s = Front(stack)
        BY <1>0
    <2> QED  BY <2>1, <2>2, FrontFacts
<1>4. chunks[r.id].refs = <<>> /\ DOMAIN <<>> = {}
    BY <1>1, <1>2 DEF Names, WellFormed
<1>5. \A x \in Ref : ~ChildOf(x, r)
    BY <1>4 DEF ChildOf
<1>6. \A k \in DOMAIN s \ 1..(Len(stack) - 1) :
         Names(s[k].ref) /\ (~s[k].leave => ChildOf(s[k].ref, r))
    BY <1>3
<1> QED  BY <1>0, <1>1, <1>3, <1>5, <1>6, EnterKeepsInv

\* The stack s is q with its top replaced by the end of r, and above that the
\* references to be entered.
Opens(s, q, r, refs) ==
    /\ s \in Seq(Frame)
    /\ \A k \in 1..(Len(q) - 1) : k \in DOMAIN s /\ s[k] = q[k]
    /\ \A k \in DOMAIN s \ 1..(Len(q) - 1) :
          s[k] = LeaveBranch(r) \/ \E m \in DOMAIN refs : s[k] = Enter(refs[m])
    /\ \A m \in DOMAIN refs : \E k \in DOMAIN s : s[k] = Enter(refs[m])

\* Frames are frames.
LEMMA FrameFacts ==
    ASSUME NEW x \in Ref
    PROVE  /\ Enter(x) \in Frame /\ Enter(x).ref = x
           /\ LeaveBranch(x) \in Frame /\ LeaveBranch(x).ref = x /\ LeaveBranch(x).leave
BY DEF Enter, LeaveBranch, Frame

\* The references are to be entered, all of them and no other.
IsEnters(es, refs, l) ==
    /\ es \in Seq(Frame) /\ l \in Nat /\ Len(es) = l
    /\ \A i \in 1..l : \E m \in DOMAIN refs : es[i] = Enter(refs[m])
    /\ \A m \in DOMAIN refs : \E i \in 1..l : es[i] = Enter(refs[m])

\* A sequence that is given element by element.
LEMMA FunctionIsSeq ==
    ASSUME NEW S, NEW q \in Nat, NEW h \in [1..q -> S]
    PROVE  h \in Seq(S) /\ Len(h) = q
OBVIOUS

\* What EnterBranch pushes.
Enters(refs) == LET childs == Reverse(refs) IN [i \in DOMAIN childs |-> Enter(childs[i])]

\* It is all of them, in the reverse order.
LEMMA EntersFacts ==
    ASSUME NEW refs \in Seq(Ref)
    PROVE  IsEnters(Enters(refs), refs, Len(refs))
<1>0. PICK q, es : q \in Nat /\ q = Len(refs) /\ es = Enters(refs)
    OBVIOUS
<1>1. DOMAIN refs = 1..q /\ \A m \in 1..q : refs[m] \in Ref
    BY <1>0
<1>2. Reverse(refs) = [i \in 1..q |-> refs[(q - i) + 1]]
    BY <1>0 DEF Reverse
<1>3. \A i \in 1..q : (q - i) + 1 \in 1..q /\ (q - ((q - i) + 1)) + 1 = i
    BY <1>0
<1>4. es = [i \in 1..q |-> Enter(refs[(q - i) + 1])]
    BY <1>0, <1>2 DEF Enters
<1>5. \A m \in 1..q : Enter(refs[m]) \in Frame
    BY <1>1, FrameFacts
<1>6. \A i \in 1..q : Enter(refs[(q - i) + 1]) \in Frame
    BY <1>3, <1>5
<1>7. es \in Seq(Frame) /\ Len(es) = q
    <2>1. es \in [1..q -> Frame]
        BY <1>4, <1>6
    <2>2. q \in Nat
        BY <1>0
    <2> QED  BY <2>1, <2>2, FunctionIsSeq
<1>8. \A i \in 1..q : \E m \in 1..q : es[i] = Enter(refs[m])
    BY <1>3, <1>4
<1>9. ASSUME NEW m \in 1..q PROVE \E i \in 1..q : es[i] = Enter(refs[m])
    <2>1. PICK i \in 1..q : (q - i) + 1 = m
        BY <1>3
    <2>2. es[i] = Enter(refs[(q - i) + 1])
        BY <1>4
    <2> QED  BY <2>1, <2>2
<1>10. IsEnters(es, refs, q)
    BY <1>0, <1>1, <1>7, <1>8, <1>9 DEF IsEnters
<1> QED  BY <1>0, <1>10

\* The top of q is replaced by e.
IsReplaced(p, q, e, n) ==
    /\ p \in Seq(Frame) /\ n \in Nat \ {0} /\ n = Len(p) /\ n = Len(q)
    /\ p[n] = e
    /\ \A k \in 1..(n - 1) : p[k] = q[k]

\* It is taken off, and e pushed.
LEMMA ReplacedFacts ==
    ASSUME NEW q \in Seq(Frame), q # <<>>, NEW e \in Frame, NEW p, p = Append(Front(q), e)
    PROVE  IsReplaced(p, q, e, Len(q))
<1>0. /\ Len(q) \in Nat \ {0} /\ Front(q) \in Seq(Frame)
      /\ DOMAIN Front(q) = 1..(Len(q) - 1)
      /\ \A k \in 1..(Len(q) - 1) : Front(q)[k] = q[k]
    BY FrontFacts
<1>1. PICK f : f = Front(q)
    OBVIOUS
<1>2. PICK n \in Nat \ {0} :
        /\ n = Len(q) /\ f \in Seq(Frame) /\ DOMAIN f = 1..(n - 1)
        /\ \A k \in 1..(n - 1) : f[k] = q[k]
    BY <1>0, <1>1
<1>3. Len(f) = n - 1 /\ (n - 1) + 1 = n
    BY <1>2
<1>4. /\ Append(f, e) \in Seq(Frame) /\ Len(Append(f, e)) = n /\ Append(f, e)[n] = e
      /\ \A k \in 1..(n - 1) : Append(f, e)[k] = f[k]
    BY <1>2, <1>3, AppendFacts
<1>5. p = Append(f, e)
    BY <1>1
<1> QED  BY <1>2, <1>4, <1>5 DEF IsReplaced

\* es lies on p.
IsJoined(s, p, es, n, l) ==
    /\ s \in Seq(Frame) /\ DOMAIN s = 1..(n + l)
    /\ \A k \in 1..n : s[k] = p[k]
    /\ \A k \in 1..l : s[n + k] = es[k]

\* So it does in their concatenation.
LEMMA JoinedFacts ==
    ASSUME NEW p \in Seq(Frame), NEW es \in Seq(Frame)
    PROVE  IsJoined(p \o es, p, es, Len(p), Len(es))
BY ConcatFacts DEF IsJoined

\* The parts make the stack that a branch is opened with.
LEMMA OpensFacts ==
    ASSUME NEW s, NEW p, NEW es, NEW q, NEW r, NEW refs, NEW n, NEW l,
           IsReplaced(p, q, LeaveBranch(r), n), IsEnters(es, refs, l), IsJoined(s, p, es, n, l)
    PROVE  Opens(s, q, r, refs)
<1>1. /\ n \in Nat \ {0} /\ n = Len(q) /\ p[n] = LeaveBranch(r)
      /\ \A k \in 1..(n - 1) : p[k] = q[k]
    BY DEF IsReplaced
<1>2. /\ l \in Nat
      /\ \A i \in 1..l : \E m \in DOMAIN refs : es[i] = Enter(refs[m])
      /\ \A m \in DOMAIN refs : \E i \in 1..l : es[i] = Enter(refs[m])
    BY DEF IsEnters
<1>3. /\ s \in Seq(Frame) /\ DOMAIN s = 1..(n + l)
      /\ \A k \in 1..n : s[k] = p[k]
      /\ \A k \in 1..l : s[n + k] = es[k]
    BY DEF IsJoined
<1>4. /\ \A k \in 1..(n - 1) : k \in 1..n /\ k \in 1..(n + l)
      /\ \A i \in 1..l : n + i \in 1..(n + l)
      /\ n \in 1..n
    BY <1>1, <1>2
<1>5. ASSUME NEW k \in 1..(n + l), k \notin 1..(n - 1), k # n
      PROVE  \E i \in 1..l : k = n + i
    <2>1. k - n \in 1..l /\ k = n + (k - n)
        BY <1>1, <1>2, <1>5
    <2> QED  BY <2>1
<1>6. \A k \in 1..(n - 1) : k \in DOMAIN s /\ s[k] = q[k]
    BY <1>1, <1>3, <1>4
<1>7. ASSUME NEW k \in DOMAIN s \ 1..(n - 1)
      PROVE  s[k] = LeaveBranch(r) \/ \E m \in DOMAIN refs : s[k] = Enter(refs[m])
    <2>1. CASE k = n
        BY <1>1, <1>3, <1>4, <2>1
    <2>2. CASE k # n
        <3>1. PICK i \in 1..l : k = n + i
            BY <1>3, <1>5, <2>2
        <3>2. s[k] = es[i]
            BY <1>3, <3>1
        <3> QED  BY <1>2, <3>2
    <2> QED  BY <2>1, <2>2
<1>8. ASSUME NEW m \in DOMAIN refs PROVE \E k \in DOMAIN s : s[k] = Enter(refs[m])
    <2>1. PICK i \in 1..l : es[i] = Enter(refs[m])
        BY <1>2
    <2>2. n + i \in DOMAIN s /\ s[n + i] = es[i]
        BY <1>3, <1>4
    <2> QED  BY <2>1, <2>2
<1> QED  BY <1>1, <1>3, <1>6, <1>7, <1>8 DEF Opens

\* A branch puts its children on the stack, the first one on top.
LEMMA EnterBranchKeepsInv ==
    ASSUME TreeInv, EnterBranch
    PROVE  TreeInv'
<1>0. PICK r : r = Last(stack).ref
    OBVIOUS
<1>1. PICK refs : refs = chunks[r.id].refs
    OBVIOUS
<1>2. /\ pc = "read" /\ stack # <<>> /\ ~Last(stack).leave
      /\ out' = IF visitor = "nodes" THEN Append(out, r) ELSE out
      /\ UNCHANGED <<order, writerVars, pc, visitor>>
      /\ stack' = Append(Front(stack), LeaveBranch(r)) \o Enters(refs)
    BY <1>0, <1>1, Zenon DEF EnterBranch, Enters
<1>3. /\ stack \in Seq(Frame) /\ r \in Ref /\ Names(r)
      /\ chunks[r.id] \in Chunk /\ WellFormed(chunks[r.id])
    BY <1>0, <1>2, TopFrame
<1>4. refs \in Seq(Ref) /\ \A m \in DOMAIN refs : refs[m] \in Ref /\ Names(refs[m])
    <2>1. refs \in Seq(Ref)
        BY <1>1, <1>3 DEF Chunk
    <2>2. \A m \in DOMAIN refs : refs[m] \in Ref
        BY <2>1
    <2>3. \A m \in DOMAIN refs : Names(refs[m])
        BY <1>1, <1>3 DEF WellFormed
    <2> QED  BY <2>1, <2>2, <2>3
<1>5. PICK s : s = stack' /\ Opens(s, stack, r, refs)
    <2>0. PICK p : p = Append(Front(stack), LeaveBranch(r))
        OBVIOUS
    <2>1. PICK es : es = Enters(refs)
        OBVIOUS
    <2>2. IsEnters(es, refs, Len(refs))
        BY <1>4, <2>1, EntersFacts
    <2>3. LeaveBranch(r) \in Frame
        BY <1>3, FrameFacts
    <2>4. IsReplaced(p, stack, LeaveBranch(r), Len(stack))
        BY <1>2, <1>3, <2>0, <2>3, ReplacedFacts
    <2>5. /\ p \in Seq(Frame) /\ Len(p) = Len(stack)
          /\ es \in Seq(Frame) /\ Len(es) = Len(refs)
        BY <2>2, <2>4 DEF IsReplaced, IsEnters
    <2>6. IsJoined(p \o es, p, es, Len(stack), Len(refs))
        BY <2>5, JoinedFacts
    <2>7. Opens(p \o es, stack, r, refs)
        BY <2>2, <2>4, <2>6, OpensFacts
    <2> QED  BY <1>2, <2>0, <2>1, <2>7
<1>6. \A x : ChildOf(x, r) <=> \E m \in DOMAIN refs : refs[m] = x
    BY <1>1 DEF ChildOf
<1>7. s \in Seq(Frame) /\ \A k \in 1..(Len(stack) - 1) : k \in DOMAIN s /\ s[k] = stack[k]
    BY <1>5 DEF Opens
<1>8. ASSUME NEW k \in DOMAIN s \ 1..(Len(stack) - 1)
      PROVE  Names(s[k].ref) /\ (~s[k].leave => ChildOf(s[k].ref, r))
    <2>1. CASE s[k] = LeaveBranch(r)
        BY <1>3, <2>1, FrameFacts
    <2>2. ASSUME NEW m \in DOMAIN refs, s[k] = Enter(refs[m])
          PROVE  Names(s[k].ref) /\ ChildOf(s[k].ref, r)
        <3>1. s[k].ref = refs[m]
            BY <1>4, <2>2, FrameFacts
        <3> QED  BY <1>4, <1>6, <3>1
    <2> QED  BY <1>5, <2>1, <2>2 DEF Opens
<1>9. \A x \in Ref : ChildOf(x, r) => \E k \in DOMAIN s : s[k] = Enter(x)
    BY <1>5, <1>6 DEF Opens
<1>10. out' \in {out, Append(out, r)} /\ (visitor = "nodes" => out' = Append(out, r))
    BY <1>2
<1>11. stack' = s
    BY <1>5
<1> QED  BY <1>0, <1>2, <1>7, <1>8, <1>9, <1>10, <1>11, EnterKeepsInv

-----------------------------------------------------------------------------
\* The invariant.

\* The empty tree has it.
LEMMA TreeInitHasInv ==
    ASSUME TreeInit
    PROVE  TreeInv
<1>1. /\ order \in Order /\ pc = "append" /\ visitor = "leafs"
      /\ chunks = <<>> /\ levels = <<>> /\ pending = <<>> /\ root = <<>>
      /\ stack = <<>> /\ out = <<>>
    BY DEF TreeInit
<1>2. DOMAIN <<>> = {} /\ Len(<<>>) = 0 /\ \A S : <<>> \in Seq(S)
    OBVIOUS
<1>3. ChunksInv /\ ChildrenPrecedeParents
    BY <1>1, <1>2 DEF ChunksInv, ChildrenPrecedeParents
<1>4. LevelsInv /\ PendingInv
    BY <1>1, <1>2 DEF LevelsInv, PendingInv
<1>5. TopInv /\ ReaderInv /\ MetInv
    BY <1>1, <1>2 DEF TopInv, ReaderInv, MetInv
<1> QED  BY <1>1, <1>3, <1>4, <1>5 DEF TreeInv

\* Every step of the writer and of the reader keeps the invariant.
LEMMA TreeStepKeepsInv ==
    ASSUME TreeInv, [TreeNext]_vars
    PROVE  TreeInv'
<1>1. CASE TreeNext
    BY <1>1, AppendBlockKeepsInv, AppendAtKeepsInv, HashBeginKeepsInv, HashLocateKeepsInv,
       HashCollapseKeepsInv, HashReturnKeepsInv, WalkerKeepsInv, LeaveNodeKeepsInv,
       EnterLeafKeepsInv, EnterBranchKeepsInv
       DEF TreeNext
<1>2. CASE UNCHANGED vars
    <2>1. /\ UNCHANGED <<order, blocks, chunks, levels, pending, info, next, top, calls, root, pc>>
          /\ UNCHANGED <<visitor, stack, start, out>>
        BY <1>2 DEF vars, writerVars, readerVars
    <2>2. ChunksInv' /\ ChildrenPrecedeParents' /\ LevelsInv'
        BY <2>1 DEF TreeInv, ChunksInv, ChildrenPrecedeParents, LevelsInv, WellFormed, Names
    <2>3. PendingInv' /\ TopInv' /\ ReaderInv'
        BY <2>1 DEF TreeInv, PendingInv, TopInv, ReaderInv, WellFormed, Names
    <2>4. MetInv'
        BY <2>1 DEF TreeInv, MetInv, ChildOf
    <2> QED  BY <2>1, <2>2, <2>3, <2>4 DEF TreeInv
<1> QED  BY <1>1, <1>2

\* The levels, the chunk under way and the walker's stack refer to chunks that
\* are there, of the heights they name.
THEOREM TreeInvariant == TreeSpec => []TreeInv
BY TreeInitHasInv, TreeStepKeepsInv, PTL DEF TreeSpec

\* Whatever is appended and however often hash() is called, references are of
\* the heights they name and no level is ever left full (append_hashref_at).
THEOREM TreeTypeCorrect == TreeSpec => []TreeTypeOK
<1>1. TreeInv => TreeTypeOK
    <2> SUFFICES ASSUME TreeInv PROVE TreeTypeOK
        OBVIOUS
    <2>1. ASSUME NEW n \in DOMAIN levels, NEW k \in DOMAIN levels[n]
          PROVE  levels[n][k] \in [id : DOMAIN chunks, node : {n - 1}]
        <3>1. levels \in Seq(Seq(Ref)) /\ n \in Nat
            BY DEF TreeInv, LevelsInv
        <3>2. levels[n] \in Seq(Ref)
            BY <3>1
        <3>3. levels[n][k] \in Ref
            BY <3>2
        <3>4. levels[n][k].id \in DOMAIN chunks /\ levels[n][k].node + 1 = n
            BY DEF TreeInv, LevelsInv, Names
        <3>5. levels[n][k].node = n - 1
            BY <3>1, <3>3, <3>4 DEF Ref
        <3> QED  BY <3>3, <3>4, <3>5 DEF Ref
    <2> QED  BY <2>1 DEF TreeInv, LevelsInv, PendingInv, ChunksInv, WellFormed, TreeTypeOK
<1> QED  BY <1>1, TreeInvariant, PTL

\* insert_chunk sees every chunk after the chunks it refers to, also where
\* subtrees coincide: the order that the hash index needs.
THEOREM ChildrenComeFirst == TreeSpec => []ChildrenPrecedeParents
<1>1. TreeInv => ChildrenPrecedeParents
    BY DEF TreeInv
<1> QED  BY <1>1, TreeInvariant, PTL

\* A visitor of recovery meets the root first, then only children of what it
\* has met, and at the end all of them.
THEOREM EveryNodeIsMet == TreeSpec => []VisitorMeetsEveryNode
<1>1. TreeInv => VisitorMeetsEveryNode
    <2> SUFFICES ASSUME TreeInv, visitor = "nodes"
                 PROVE  /\ pc = "end" =>
                              \A r \in ToSet(out) : ToSet(chunks[r.id].refs) \subseteq ToSet(out)
                        /\ out # <<>> => out[1] = root[1]
                        /\ \A k \in 2 .. Len(out) : \E j \in 1 .. (k - 1) : ChildOf(out[k], out[j])
        BY DEF VisitorMeetsEveryNode, ChildOf
    <2>1. pc \in {"read", "end"}
        BY DEF TreeInv
    <2>2. MetInv
        BY DEF TreeInv
    <2>3. ASSUME pc = "end", NEW r \in ToSet(out), NEW x \in ToSet(chunks[r.id].refs)
          PROVE  x \in ToSet(out)
        <3>1. PICK j \in DOMAIN out : out[j] = r
            BY DEF ToSet
        <3>2. PICK m \in DOMAIN chunks[r.id].refs : chunks[r.id].refs[m] = x
            BY DEF ToSet
        <3>3. r.id \in DOMAIN chunks /\ chunks \in Seq(Chunk)
            BY <3>1 DEF TreeInv, ReaderInv, ChunksInv, Names
        <3>3a. chunks[r.id] \in Chunk
            BY <3>3
        <3>4. chunks[r.id].refs \in Seq(Ref)
            BY <3>3a DEF Chunk
        <3>5. x \in Ref
            BY <3>2, <3>4
        <3>6. ChildOf(x, out[j])
            BY <3>1, <3>2 DEF ChildOf
        <3>7. stack = <<>> /\ DOMAIN <<>> = {}
            BY <2>3 DEF TreeInv, ReaderInv
        <3>8. \E k \in DOMAIN out : out[k] = x
            BY <2>1, <2>2, <3>5, <3>6, <3>7 DEF MetInv
        <3> QED  BY <3>8 DEF ToSet
    <2> QED  BY <2>1, <2>2, <2>3 DEF MetInv
<1> QED  BY <1>1, TreeInvariant, PTL

-----------------------------------------------------------------------------
\* What references stand for.  F gives the blocks of each chunk.

\* r stands for s[a + 1 .. b].
Covers(F, r, s, a, b) ==
    /\ Len(F[r.id]) \in Nat /\ b = a + Len(F[r.id])
    /\ \A j \in 1 .. Len(F[r.id]) : s[a + j] = F[r.id][j]

\* p cuts s into what each of the references stands for.
Cuts(F, refs, s, p) ==
    /\ p \in [0 .. Len(refs) -> Nat]
    /\ \A i, j \in 0 .. Len(refs) : i <= j => p[i] <= p[j]
    /\ \A k \in 1 .. Len(refs) : Covers(F, refs[k], s, p[k - 1], p[k])

\* The references stand, one after the other, for s[a + 1 .. b].
Span(F, refs, s, a, b) == \E p : Cuts(F, refs, s, p) /\ p[0] = a /\ p[Len(refs)] = b

\* An offset j into x .. x + m is an offset i into a .. b around it.
LEMMA OffsetIn ==
    ASSUME NEW a \in Nat, NEW b \in Nat, NEW d \in Nat, NEW x \in Nat, NEW y \in Nat,
           NEW m \in Nat, NEW j \in Nat, a <= x, y = d + (x - a), x + m <= b, 1 <= j, j <= m
    PROVE  \E i \in 1 .. b - a : d + i = y + j /\ a + i = x + j
<1>1. PICK i \in Nat : i = x - a + j
    OBVIOUS
<1>2. 1 <= i /\ i <= b - a /\ d + i = y + j /\ a + i = x + j
    BY <1>1
<1> QED  BY <1>2

\* An offset j into a .. b that lies in x .. x + len is an offset i into that.
LEMMA OffsetOut ==
    ASSUME NEW a \in Nat, NEW d \in Nat, NEW x \in Nat, NEW y, NEW len \in Nat, NEW j \in Nat,
           y = d + (x - a), ~(a + j <= x), a + j <= x + len
    PROVE  \E i \in 1 .. len : y + i = d + j /\ x + i = a + j
<1>1. PICK i \in Nat : i = a + j - x
    OBVIOUS
<1>2. 1 <= i /\ i <= len /\ y + i = d + j /\ x + i = a + j
    BY <1>1
<1> QED  BY <1>2

\* A set of numbers that is not empty has a least one.
LEMMA Least ==
    ASSUME NEW S, S \subseteq Nat, S # {}
    PROVE  \E m \in S : \A k \in S : m <= k
<1>1. PICK m \in S : \A u \in S : ~(<<u, m>> \in OpToRel(<, Nat))
    BY NatLessThanWellFounded, WFMin
<1>2. ASSUME NEW k \in S PROVE m <= k
    <2>1. m \in Nat /\ k \in Nat
        OBVIOUS
    <2>2. ~(k < m)
        BY <1>1, <2>1 DEF OpToRel
    <2> QED  BY <2>1, <2>2
<1> QED  BY <1>2

\* Where references begin and end.
LEMMA SpanEnds ==
    ASSUME NEW F, NEW refs, Len(refs) \in Nat, NEW s, NEW a, NEW b, Span(F, refs, s, a, b)
    PROVE  a \in Nat /\ b \in Nat /\ a <= b /\ (Len(refs) = 0 => a = b)
<1>1. PICK p : Cuts(F, refs, s, p) /\ p[0] = a /\ p[Len(refs)] = b
    BY DEF Span
<1>2. 0 \in 0 .. Len(refs) /\ Len(refs) \in 0 .. Len(refs) /\ 0 <= Len(refs)
    OBVIOUS
<1> QED  BY <1>1, <1>2 DEF Cuts

\* No references stand for nothing.
LEMMA SpanNothing ==
    ASSUME NEW F, NEW s, NEW a \in Nat
    PROVE  Span(F, <<>>, s, a, a)
<1> DEFINE p == [k \in 0 .. 0 |-> a]
<1>1. Len(<<>>) = 0
    OBVIOUS
<1>2. Cuts(F, <<>>, s, p) /\ p[0] = a /\ p[Len(<<>>)] = a
    BY <1>1 DEF Cuts
<1> HIDE DEF p
<1> QED  BY <1>2 DEF Span

\* One more reference.
LEMMA SpanAppend ==
    ASSUME NEW F, NEW refs \in Seq(Ref), NEW r \in Ref, NEW s, NEW a, NEW b, NEW d \in Nat,
           Span(F, refs, s, a, b), Covers(F, r, s, b, d)
    PROVE  Span(F, Append(refs, r), s, a, d)
<1>1. PICK p : Cuts(F, refs, s, p) /\ p[0] = a /\ p[Len(refs)] = b
    BY DEF Span
<1>2. PICK l \in Nat : l = Len(refs)
    OBVIOUS
<1>3. PICK all : all = Append(refs, r)
    OBVIOUS
<1>4. Len(all) = l + 1 /\ all[l + 1] = r /\ \A k \in 1 .. l : all[k] = refs[k]
    BY <1>2, <1>3
<1>5. b \in Nat /\ b <= d
    BY <1>2, SpanEnds DEF Covers
<1> DEFINE q == [k \in 0 .. l + 1 |-> IF k = l + 1 THEN d ELSE p[k]]
<1>6. p \in [0 .. l -> Nat] /\ \A i, j \in 0 .. l : i <= j => p[i] <= p[j]
    BY <1>1, <1>2 DEF Cuts
<1>7. q \in [0 .. l + 1 -> Nat] /\ q[l + 1] = d /\ \A k \in 0 .. l : q[k] = p[k]
    BY <1>6
<1> HIDE DEF q
<1>8. ASSUME NEW i \in 0 .. l + 1, NEW j \in 0 .. l + 1, i <= j PROVE q[i] <= q[j]
    <2>1. CASE j \in 0 .. l
        BY <1>6, <1>7, <1>8, <2>1
    <2>2. CASE j = l + 1 /\ i \in 0 .. l
        <3>1. p[i] <= p[l] /\ p[i] \in Nat
            BY <1>6, <2>2
        <3> QED  BY <1>1, <1>2, <1>5, <1>7, <2>2, <3>1
    <2>3. CASE i = l + 1 /\ j = l + 1
        BY <1>7, <2>3
    <2> QED  BY <1>8, <2>1, <2>2, <2>3
<1>9. ASSUME NEW k \in 1 .. l + 1 PROVE Covers(F, all[k], s, q[k - 1], q[k])
    <2>1. CASE k \in 1 .. l
        <3>1. Covers(F, refs[k], s, p[k - 1], p[k])
            BY <1>1, <1>2, <2>1 DEF Cuts
        <3>2. q[k] = p[k] /\ q[k - 1] = p[k - 1]
            BY <1>7, <2>1
        <3> QED  BY <1>4, <2>1, <3>1, <3>2
    <2>2. CASE k = l + 1
        <3>1. q[k - 1] = b /\ q[k] = d
            BY <1>1, <1>2, <1>7, <2>2
        <3> QED  BY <1>4, <2>2, <3>1
    <2> QED  BY <2>1, <2>2
<1>10. Cuts(F, all, s, q)
    BY <1>4, <1>7, <1>8, <1>9 DEF Cuts
<1>11. q[0] = a /\ q[Len(all)] = d
    BY <1>1, <1>4, <1>7
<1> QED  BY <1>3, <1>10, <1>11 DEF Span

\* One reference.
LEMMA SpanOne ==
    ASSUME NEW F, NEW refs, Len(refs) = 1, NEW s, NEW a, NEW b, Span(F, refs, s, a, b)
    PROVE  Covers(F, refs[1], s, a, b)
<1>1. PICK p : Cuts(F, refs, s, p) /\ p[0] = a /\ p[1] = b
    BY DEF Span
<1>2. Covers(F, refs[1], s, p[1 - 1], p[1]) /\ 1 - 1 = 0
    BY <1>1 DEF Cuts
<1> QED  BY <1>1, <1>2

\* Another F that has the same blocks for the references.
LEMMA SpanSameF ==
    ASSUME NEW F, NEW G, NEW refs, NEW s, NEW a, NEW b, Span(F, refs, s, a, b),
           \A k \in 1 .. Len(refs) : G[refs[k].id] = F[refs[k].id]
    PROVE  Span(G, refs, s, a, b)
<1>1. PICK p : Cuts(F, refs, s, p) /\ p[0] = a /\ p[Len(refs)] = b
    BY DEF Span
<1>2. Cuts(G, refs, s, p)
    BY <1>1 DEF Cuts, Covers
<1> QED  BY <1>1, <1>2 DEF Span

\* The same blocks elsewhere.
LEMMA SpanMove ==
    ASSUME NEW F, NEW refs, Len(refs) \in Nat, NEW s, NEW a, NEW b, Span(F, refs, s, a, b),
           NEW t, NEW d \in Nat, \A j \in 1 .. b - a : t[d + j] = s[a + j]
    PROVE  Span(F, refs, t, d, d + (b - a))
<1>1. PICK p : Cuts(F, refs, s, p) /\ p[0] = a /\ p[Len(refs)] = b
    BY DEF Span
<1>2. PICK l \in Nat : l = Len(refs)
    OBVIOUS
<1>3. p \in [0 .. l -> Nat] /\ \A i, j \in 0 .. l : i <= j => p[i] <= p[j]
    BY <1>1, <1>2 DEF Cuts
<1>4. a \in Nat /\ b \in Nat /\ a <= b
    BY SpanEnds
<1>5. \A k \in 0 .. l : p[k] \in Nat /\ a <= p[k] /\ p[k] <= b
    BY <1>1, <1>2, <1>3
<1> DEFINE q == [k \in 0 .. l |-> d + (p[k] - a)]
<1>6. q \in [0 .. l -> Nat]
    BY <1>4, <1>5
<1>7. \A k \in 0 .. l : q[k] = d + (p[k] - a)
    OBVIOUS
<1> HIDE DEF q
<1>8. \A i, j \in 0 .. l : i <= j => q[i] <= q[j]
    BY <1>3, <1>4, <1>5, <1>7
<1>9. ASSUME NEW k \in 1 .. l PROVE Covers(F, refs[k], t, q[k - 1], q[k])
    <2> DEFINE c == F[refs[k].id]
    <2>1. Len(c) \in Nat /\ p[k] = p[k - 1] + Len(c) /\ \A j \in 1 .. Len(c) : s[p[k - 1] + j] = c[j]
        BY <1>1, <1>2 DEF Cuts, Covers
    <2>2. k - 1 \in 0 .. l /\ k \in 0 .. l
        OBVIOUS
    <2>3. p[k - 1] \in Nat /\ a <= p[k - 1] /\ p[k] \in Nat /\ p[k] <= b
        BY <1>5, <2>2
    <2>4. q[k - 1] = d + (p[k - 1] - a) /\ q[k] = d + (p[k] - a)
        BY <1>7, <2>2
    <2> HIDE DEF c
    <2>5. ASSUME NEW j \in 1 .. Len(c) PROVE t[q[k - 1] + j] = c[j]
        <3>1. PICK x \in Nat, y \in Nat : x = p[k - 1] /\ y = q[k - 1] /\ a <= x /\ y = d + (x - a)
            BY <1>4, <2>3, <2>4
        <3>2. PICK m \in Nat : m = Len(c) /\ x + m <= b
            BY <2>1, <2>3, <3>1
        <3>3. j \in Nat /\ 1 <= j /\ j <= m
            BY <3>2
        <3>4. PICK i \in 1 .. b - a : d + i = y + j /\ a + i = x + j
            <4>1. a \in Nat /\ b \in Nat
                BY <1>4
            <4>2. a <= x /\ y = d + (x - a)
                BY <3>1
            <4>3. x + m <= b
                BY <3>2
            <4>4. \E i \in 1 .. b - a : d + i = y + j /\ a + i = x + j
                BY <3>3, <4>1, <4>2, <4>3, OffsetIn
            <4> QED  BY <4>4
        <3>5. t[y + j] = s[x + j]
            BY <3>4
        <3>6. t[q[k - 1] + j] = s[p[k - 1] + j]
            BY <3>1, <3>5
        <3> QED  BY <2>1, <3>6
    <2>6. q[k] = q[k - 1] + Len(c)
        BY <1>4, <2>1, <2>3, <2>4
    <2> QED  BY <2>1, <2>5, <2>6 DEF Covers, c
<1>10. Cuts(F, refs, t, q)
    BY <1>2, <1>6, <1>8, <1>9 DEF Cuts
<1>11. q[0] = d /\ q[Len(refs)] = d + (b - a)
    <2>1. 0 \in 0 .. l /\ l \in 0 .. l
        OBVIOUS
    <2> QED  BY <1>1, <1>2, <1>4, <1>7, <2>1
<1> QED  BY <1>10, <1>11 DEF Span

\* s[a + 1 .. b] and t[d + 1 .. e] are the same.
Same(s, a, b, t, d, e) == e = d + (b - a) /\ \A j \in 1 .. b - a : t[d + j] = s[a + j]

\* References stand for the same blocks wherever they are.
LEMMA SpanUnique ==
    ASSUME NEW F, NEW refs, Len(refs) \in Nat, NEW s, NEW a, NEW b, Span(F, refs, s, a, b),
           NEW t, NEW d, NEW e, Span(F, refs, t, d, e)
    PROVE  Same(s, a, b, t, d, e)
<1>1. PICK p : Cuts(F, refs, s, p) /\ p[0] = a /\ p[Len(refs)] = b
    BY DEF Span
<1>2. PICK q : Cuts(F, refs, t, q) /\ q[0] = d /\ q[Len(refs)] = e
    BY DEF Span
<1>3. PICK l \in Nat : l = Len(refs)
    OBVIOUS
<1>4. p \in [0 .. l -> Nat] /\ q \in [0 .. l -> Nat]
    BY <1>1, <1>2, <1>3 DEF Cuts
<1>5. a \in Nat /\ b \in Nat /\ a <= b /\ d \in Nat /\ e \in Nat /\ d <= e
    BY SpanEnds
<1>6. ASSUME NEW k \in 1 .. l
      PROVE  /\ k - 1 \in 0 .. l /\ k \in 0 .. l
             /\ Len(F[refs[k].id]) \in Nat
             /\ p[k] = p[k - 1] + Len(F[refs[k].id])
             /\ q[k] = q[k - 1] + Len(F[refs[k].id])
             /\ \A i \in 1 .. Len(F[refs[k].id]) : t[q[k - 1] + i] = s[p[k - 1] + i]
    <2>1. Covers(F, refs[k], s, p[k - 1], p[k]) /\ Covers(F, refs[k], t, q[k - 1], q[k])
        BY <1>1, <1>2, <1>3 DEF Cuts
    <2> QED  BY <2>1 DEF Covers
<1>7. \A k \in 0 .. l : q[k] = d + (p[k] - a)
    <2> DEFINE S == {k \in 0 .. l : q[k] # d + (p[k] - a)}
    <2>1. SUFFICES ASSUME S # {} PROVE FALSE
        OBVIOUS
    <2>2. S \subseteq Nat
        OBVIOUS
    <2>3. PICK m \in S : \A k \in S : m <= k
        BY <2>1, <2>2, Least
    <2>4. m \in 0 .. l /\ q[m] # d + (p[m] - a)
        OBVIOUS
    <2>5. m # 0
        BY <1>1, <1>2, <1>5, <2>4
    <2>6. m \in 1 .. l /\ m - 1 \in 0 .. l /\ ~(m <= m - 1)
        BY <2>4, <2>5
    <2>7. q[m - 1] = d + (p[m - 1] - a)
        BY <2>3, <2>6
    <2>8. PICK len \in Nat : p[m] = p[m - 1] + len /\ q[m] = q[m - 1] + len
        BY <1>6, <2>6
    <2>9. p[m - 1] \in Nat /\ q[m - 1] \in Nat
        BY <1>4, <2>6
    <2> QED  BY <1>5, <2>4, <2>7, <2>8, <2>9
<1>8. e = d + (b - a)
    <2>1. l \in 0 .. l
        OBVIOUS
    <2> QED  BY <1>1, <1>2, <1>3, <1>7, <2>1
<1>9. ASSUME NEW j \in 1 .. b - a PROVE t[d + j] = s[a + j]
    <2> DEFINE S == {k \in 0 .. l : a + j <= p[k]}
    <2>0. j \in Nat /\ 1 <= j /\ j <= b - a
        BY <1>5
    <2>1. l \in S
        BY <1>1, <1>3, <1>5, <2>0
    <2>2. S \subseteq Nat
        OBVIOUS
    <2>3. PICK m \in S : \A k \in S : m <= k
        BY <2>1, <2>2, Least
    <2>4. m \in 0 .. l /\ a + j <= p[m]
        OBVIOUS
    <2>5. m # 0
        BY <1>1, <1>5, <2>0, <2>4
    <2>6. m \in 1 .. l /\ m - 1 \in 0 .. l /\ ~(m <= m - 1)
        BY <2>4, <2>5
    <2>7. ~(a + j <= p[m - 1])
        BY <2>3, <2>6
    <2>8. p[m - 1] \in Nat /\ q[m - 1] \in Nat /\ q[m - 1] = d + (p[m - 1] - a)
        BY <1>4, <1>7, <2>6
    <2>9. PICK len \in Nat : /\ p[m] = p[m - 1] + len
                             /\ \A i \in 1 .. len : t[q[m - 1] + i] = s[p[m - 1] + i]
        BY <1>6, <2>6
    <2>10. PICK x \in Nat, y \in Nat : x = p[m - 1] /\ y = q[m - 1] /\ y = d + (x - a)
        BY <2>8
    <2>11. y = d + (x - a) /\ ~(a + j <= x) /\ a + j <= x + len
        BY <2>4, <2>7, <2>9, <2>10
    <2>12. a \in Nat /\ d \in Nat /\ j \in Nat
        BY <1>5, <2>0
    <2>13. \E i \in 1 .. len : y + i = d + j /\ x + i = a + j
        BY <2>11, <2>12, OffsetOut
    <2>14. PICK i \in 1 .. len : y + i = d + j /\ x + i = a + j
        BY <2>13
    <2>15. t[y + i] = s[x + i]
        BY <2>9, <2>10
    <2> QED  BY <2>14, <2>15
<1> QED  BY <1>8, <1>9 DEF Same

-----------------------------------------------------------------------------
\* The blocks of leafs: LeafBlocks with the backend as a parameter.

LeafsOf(ch, refs) ==
    LET upTo[n \in 0 .. Len(refs)] ==
            IF n = 0 THEN <<>>
            ELSE IF refs[n].node = 0 THEN Append(upTo[n - 1], ch[refs[n].id].block)
            ELSE upTo[n - 1]
    IN  upTo[Len(refs)]

\* One turn of LeafsOf's recursion.
Leaf1(ch, r, bs) == IF r.node = 0 THEN Append(bs, ch[r.id].block) ELSE bs

Leafs(ch, refs, f, N) ==
    f = [n \in 0 .. N |-> IF n = 0 THEN <<>> ELSE Leaf1(ch, refs[n], f[n - 1])]

\* There is a function that the recursion defines.
LEMMA LeafsExist ==
    ASSUME NEW ch, NEW refs, NEW N \in Nat
    PROVE  \E f : Leafs(ch, refs, f, N)
<1> DEFINE Bad == {n \in Nat : ~ \E f : Leafs(ch, refs, f, n)}
<1>1. SUFFICES ASSUME Bad # {} PROVE FALSE
    OBVIOUS
<1>2. PICK m \in Bad : \A k \in Bad : m <= k
    BY <1>1, Least
<1>3. m # 0
    <2>1. Leafs(ch, refs, [n \in 0 .. 0 |-> <<>>], 0)
        BY DEF Leafs
    <2> QED  BY <2>1
<1>4. PICK f : Leafs(ch, refs, f, m - 1)
    <2>1. m - 1 \in Nat /\ ~(m <= m - 1)
        BY <1>3
    <2> QED  BY <1>2, <2>1
<1> DEFINE g == [n \in 0 .. m |-> IF n = m THEN Leaf1(ch, refs[n], f[n - 1]) ELSE f[n]]
<1>5. ASSUME NEW n \in 0 .. m, n # 0 PROVE g[n] = Leaf1(ch, refs[n], g[n - 1])
    <2>1. n - 1 \in 0 .. m /\ n - 1 # m
        BY <1>2, <1>5
    <2>2. g[n - 1] = f[n - 1]
        BY <2>1
    <2>3. CASE n = m
        BY <2>2, <2>3
    <2>4. CASE n # m
        <3>1. n \in 0 .. m - 1 /\ g[n] = f[n]
            BY <2>4
        <3>2. f[n] = Leaf1(ch, refs[n], f[n - 1])
            BY <1>4, <1>5, <3>1 DEF Leafs
        <3> QED  BY <2>2, <3>1, <3>2
    <2> QED  BY <2>3, <2>4
<1>6. g[0] = <<>>
    BY <1>3, <1>4 DEF Leafs
<1>7. Leafs(ch, refs, g, m)
    <2>1. g = [n \in 0 .. m |-> g[n]]
        OBVIOUS
    <2> HIDE DEF g
    <2>2. g = [n \in 0 .. m |-> IF n = 0 THEN <<>> ELSE Leaf1(ch, refs[n], g[n - 1])]
        BY <1>5, <1>6, <2>1
    <2> QED  BY <2>2 DEF Leafs
<1> QED  BY <1>7

\* LeafsOf is the last value of that function.
LEMMA LeafsOfFunction ==
    ASSUME NEW ch, NEW refs, Len(refs) \in Nat
    PROVE  \E f : Leafs(ch, refs, f, Len(refs)) /\ LeafsOf(ch, refs) = f[Len(refs)]
<1>1. PICK g : Leafs(ch, refs, g, Len(refs))
    BY LeafsExist
<1> DEFINE f == CHOOSE f : f = [n \in 0 .. Len(refs) |->
                    IF n = 0 THEN <<>>
                    ELSE IF refs[n].node = 0 THEN Append(f[n - 1], ch[refs[n].id].block)
                    ELSE f[n - 1]]
<1>2. Leafs(ch, refs, f, Len(refs))
    BY <1>1, Zenon DEF Leafs, Leaf1
<1>3. LeafsOf(ch, refs) = f[Len(refs)]
    BY Zenon DEF LeafsOf
<1> QED  BY <1>2, <1>3

\* What the references before a place give does not depend on those behind it.
LEMMA LeafsAgree ==
    ASSUME NEW ch, NEW refs, NEW more, NEW N \in Nat, NEW M \in Nat, N <= M,
           \A k \in 1 .. N : more[k] = refs[k],
           NEW f, Leafs(ch, refs, f, N), NEW g, Leafs(ch, more, g, M)
    PROVE  g[N] = f[N]
<1> DEFINE Bad == {n \in 0 .. N : g[n] # f[n]}
<1>1. SUFFICES ASSUME Bad # {} PROVE FALSE
    OBVIOUS
<1>2. PICK m \in Bad : \A k \in Bad : m <= k
    <2>1. Bad \subseteq Nat
        OBVIOUS
    <2> QED  BY <1>1, <2>1, Least
<1>3. m \in 0 .. N /\ m \in 0 .. M /\ g[m] # f[m]
    BY <1>2
<1>4. /\ f[m] = IF m = 0 THEN <<>> ELSE Leaf1(ch, refs[m], f[m - 1])
      /\ g[m] = IF m = 0 THEN <<>> ELSE Leaf1(ch, more[m], g[m - 1])
    BY <1>3 DEF Leafs
<1>5. m # 0
    BY <1>3, <1>4
<1>6. m - 1 \in 0 .. N /\ ~(m <= m - 1) /\ m \in 1 .. N
    BY <1>3, <1>5
<1>7. g[m - 1] = f[m - 1]
    BY <1>2, <1>6
<1>8. more[m] = refs[m]
    BY <1>6
<1> QED  BY <1>3, <1>4, <1>5, <1>7, <1>8

\* The visitor is handed one more reference.
LEMMA LeafsAppend ==
    ASSUME NEW ch, NEW refs \in Seq(Ref), NEW r \in Ref
    PROVE  LeafsOf(ch, Append(refs, r)) = Leaf1(ch, r, LeafsOf(ch, refs))
<1>1. PICK more : more = Append(refs, r)
    OBVIOUS
<1>2. PICK l \in Nat : l = Len(refs)
    OBVIOUS
<1>3. Len(more) = l + 1 /\ more[l + 1] = r /\ \A k \in 1 .. l : more[k] = refs[k]
    BY <1>1, <1>2
<1>4. PICK f : Leafs(ch, refs, f, l) /\ LeafsOf(ch, refs) = f[l]
    BY <1>2, LeafsOfFunction
<1>5. l + 1 \in Nat /\ l <= l + 1
    OBVIOUS
<1>6. PICK g : Leafs(ch, more, g, l + 1) /\ LeafsOf(ch, more) = g[l + 1]
    BY <1>3, <1>5, LeafsOfFunction
<1>7. g[l] = f[l]
    BY <1>3, <1>4, <1>5, <1>6, LeafsAgree
<1>8. l + 1 \in 0 .. l + 1 /\ l + 1 # 0 /\ l + 1 - 1 = l
    OBVIOUS
<1>9. g[l + 1] = Leaf1(ch, more[l + 1], g[l])
    BY <1>6, <1>8 DEF Leafs
<1> QED  BY <1>1, <1>3, <1>4, <1>6, <1>7, <1>9

\* The visitor has been handed nothing.
LEMMA LeafsOfNothing ==
    ASSUME NEW ch PROVE LeafsOf(ch, <<>>) = <<>>
<1>1. Len(<<>>) = 0 /\ 0 \in 0 .. 0
    OBVIOUS
<1>2. PICK f : Leafs(ch, <<>>, f, 0) /\ LeafsOf(ch, <<>>) = f[0]
    BY <1>1, LeafsOfFunction
<1> QED  BY <1>1, <1>2 DEF Leafs

\* The operator of HashTree.
LEMMA LeafBlocksIs ==
    ASSUME NEW refs
    PROVE  LeafBlocks(refs) = LeafsOf(chunks, refs)
BY Zenon DEF LeafBlocks, LeafsOf

-----------------------------------------------------------------------------
\* What chunks stand for.

Data == Block \cup {EmptyBlock}

\* The chunk c stands for s[a + 1 .. b].
Stands(F, c, s, a, b) ==
    IF c.node = 0 THEN b = a + 1 /\ s[b] = c.block ELSE Span(F, c.refs, s, a, b)

\* F gives the blocks of each chunk of the backend.
Content(F, ch) ==
    /\ F \in [DOMAIN ch -> Seq(Data)]
    /\ \A i \in DOMAIN ch : Stands(F, ch[i], F[i], 0, Len(F[i]))

\* A chunk stands for the same blocks wherever it does.
LEMMA StandsUnique ==
    ASSUME NEW F, NEW c \in Chunk, NEW s, NEW a \in Nat, NEW b \in Nat, Stands(F, c, s, a, b),
           NEW t, NEW d \in Nat, NEW e \in Nat, Stands(F, c, t, d, e)
    PROVE  Same(s, a, b, t, d, e)
<1>1. CASE c.node = 0
    <2>1. b = a + 1 /\ e = d + 1 /\ s[b] = c.block /\ t[e] = c.block
        BY <1>1 DEF Stands
    <2>2. b - a = 1
        BY <2>1
    <2>3. ASSUME NEW j \in 1 .. 1 PROVE t[d + j] = s[a + j]
        <3>1. j = 1
            OBVIOUS
        <3> QED  BY <2>1, <3>1
    <2> QED  BY <2>1, <2>2, <2>3 DEF Same
<1>2. CASE c.node # 0
    <2>1. Span(F, c.refs, s, a, b) /\ Span(F, c.refs, t, d, e)
        BY <1>2 DEF Stands
    <2>2. Len(c.refs) \in Nat
        BY DEF Chunk
    <2> QED  BY <2>1, <2>2, SpanUnique
<1> QED  BY <1>1, <1>2

\* It stands for them elsewhere, if they are there.
LEMMA StandsMove ==
    ASSUME NEW F, NEW c \in Chunk, NEW s, NEW a \in Nat, NEW b \in Nat, Stands(F, c, s, a, b),
           NEW t, NEW d \in Nat, \A j \in 1 .. b - a : t[d + j] = s[a + j]
    PROVE  Stands(F, c, t, d, d + (b - a))
<1>1. CASE c.node = 0
    <2>1. b = a + 1 /\ s[b] = c.block
        BY <1>1 DEF Stands
    <2>2. b - a = 1 /\ 1 \in 1 .. b - a
        BY <2>1
    <2>3. t[d + 1] = s[a + 1]
        BY <2>2
    <2> QED  BY <1>1, <2>1, <2>2, <2>3 DEF Stands
<1>2. CASE c.node # 0
    <2>1. Span(F, c.refs, s, a, b) /\ Len(c.refs) \in Nat
        BY <1>2 DEF Stands, Chunk
    <2>2. Span(F, c.refs, t, d, d + (b - a))
        BY <2>1, SpanMove, Zenon
    <2> QED  BY <1>2, <2>2 DEF Stands
<1> QED  BY <1>1, <1>2

\* Another F that agrees on what the chunk refers to.
LEMMA StandsSameF ==
    ASSUME NEW F, NEW G, NEW c \in Chunk, NEW s, NEW a, NEW b, Stands(F, c, s, a, b),
           \A k \in DOMAIN c.refs : G[c.refs[k].id] = F[c.refs[k].id]
    PROVE  Stands(G, c, s, a, b)
<1>1. DOMAIN c.refs = 1 .. Len(c.refs)
    <2>1. c.refs \in Seq(Ref)
        BY DEF Chunk
    <2> QED  BY <2>1
<1>2. CASE c.node = 0
    BY <1>2 DEF Stands
<1>3. CASE c.node # 0
    <2>1. Span(F, c.refs, s, a, b)
        BY <1>3 DEF Stands
    <2>2. Span(G, c.refs, s, a, b)
        BY <1>1, <2>1, SpanSameF
    <2> QED  BY <1>3, <2>2 DEF Stands
<1> QED  BY <1>2, <1>3

\* insert_chunk: the chunk's reference stands for what the chunk stands for,
\* also when the chunk was known, and nothing else changes.
LEMMA InsertKeepsContent ==
    ASSUME ChunksInv, NEW c \in Chunk, WellFormed(c), InsertChunk(c),
           NEW F, Content(F, chunks), NEW s \in Seq(Data),
           NEW a \in Nat, NEW b \in Nat, a <= b, b <= Len(s), Stands(F, c, s, a, b),
           NEW r, r.id = IdOf(c)
    PROVE  \E G : /\ Content(G, chunks')
                  /\ \A i \in DOMAIN chunks : G[i] = F[i]
                  /\ Covers(G, r, s, a, b)
<1>0. chunks \in Seq(Chunk) /\ F \in [DOMAIN chunks -> Seq(Data)]
    BY DEF ChunksInv, Content
<1>1. CASE Known(c)
    <2>1. chunks' = chunks
        BY <1>1 DEF InsertChunk
    <2>2. PICK i \in DOMAIN chunks : i = IdOf(c) /\ chunks[i] = c
        BY <1>1 DEF Known, IdOf
    <2>3. PICK t \in Seq(Data) : t = F[i]
        BY <1>0
    <2>4. Stands(F, c, t, 0, Len(t)) /\ Len(t) \in Nat
        BY <2>2, <2>3 DEF Content
    <2>5. Len(t) = 0 + (b - a) /\ \A j \in 1 .. b - a : t[0 + j] = s[a + j]
        <3>1. 0 \in Nat
            OBVIOUS
        <3>2. Same(s, a, b, t, 0, Len(t))
            BY <2>4, <3>1, StandsUnique
        <3> QED  BY <3>2 DEF Same
    <2>6. b = a + Len(t)
        BY <2>5
    <2>7. ASSUME NEW j \in 1 .. Len(t) PROVE s[a + j] = t[j]
        <3>1. j \in 1 .. b - a /\ 0 + j = j
            BY <2>5
        <3> QED  BY <2>5, <3>1
    <2>8. Covers(F, r, s, a, b)
        BY <2>2, <2>3, <2>4, <2>6, <2>7 DEF Covers
    <2> QED  BY <2>1, <2>8
<1>2. CASE ~Known(c)
    <2>0. PICK n \in Nat : n = Len(chunks)
        BY <1>0
    <2>1. chunks' = Append(chunks, c) /\ IdOf(c) = n + 1
        BY <1>2, <2>0 DEF InsertChunk, IdOf
    <2>2. /\ DOMAIN chunks = 1..n /\ DOMAIN chunks' = 1..(n + 1)
          /\ chunks'[n + 1] = c
          /\ \A i \in 1..n : chunks'[i] = chunks[i]
        BY <1>0, <2>0, <2>1, AppendFacts
    <2>3. PICK l \in Nat : l = b - a
        OBVIOUS
    <2>4. PICK t : t = [j \in 1 .. l |-> s[a + j]]
        OBVIOUS
    <2>5. t \in Seq(Data) /\ Len(t) = l /\ \A j \in 1 .. l : t[j] = s[a + j]
        <3>1. ASSUME NEW j \in 1 .. l PROVE s[a + j] \in Data
            <4>1. a + j \in 1 .. Len(s)
                BY <2>3
            <4> QED  BY <4>1
        <3>2. t \in [1 .. l -> Data]
            BY <2>4, <3>1
        <3> QED  BY <2>4, <3>2
    <2>6. PICK G : G = [i \in 1 .. n + 1 |-> IF i = n + 1 THEN t ELSE F[i]]
        OBVIOUS
    <2>7. G[n + 1] = t /\ \A i \in 1 .. n : G[i] = F[i]
        BY <2>6
    <2>8. 1..(n + 1) = 1..n \cup {n + 1}
        BY <2>0
    <2>9. G \in [DOMAIN chunks' -> Seq(Data)]
        <3>1. \A i \in 1 .. n + 1 : G[i] \in Seq(Data)
            BY <1>0, <2>2, <2>5, <2>7, <2>8
        <3> QED  BY <2>2, <2>6, <3>1
    <2>10. ASSUME NEW d \in Chunk, WellFormed(d)
           PROVE  \A k \in DOMAIN d.refs : G[d.refs[k].id] = F[d.refs[k].id]
        BY <2>2, <2>7, <2>10 DEF WellFormed, Names
    <2>11. ASSUME NEW i \in 1 .. n PROVE Stands(G, chunks'[i], G[i], 0, Len(G[i]))
        <3>0. i \in DOMAIN chunks /\ i \in 1 .. Len(chunks)
            BY <2>0, <2>2
        <3>1. PICK d \in Chunk : d = chunks[i] /\ WellFormed(d)
            <4>1. chunks[i] \in Chunk
                BY <1>0, <3>0
            <4>2. WellFormed(chunks[i])
                BY <3>0 DEF ChunksInv
            <4> QED  BY <4>1, <4>2
        <3>2. Stands(F, d, F[i], 0, Len(F[i]))
            BY <2>2, <3>1 DEF Content
        <3>3. Stands(G, d, F[i], 0, Len(F[i]))
            BY <2>10, <3>1, <3>2, StandsSameF
        <3> QED  BY <2>2, <2>7, <3>1, <3>3
    <2>12. Stands(G, c, t, 0, l)
        <3>1. Stands(G, c, s, a, b)
            BY <2>10, StandsSameF
        <3>2. \A j \in 1 .. b - a : t[0 + j] = s[a + j]
            <4>1. ASSUME NEW j \in 1 .. b - a PROVE t[0 + j] = s[a + j]
                <5>1. j \in 1 .. l /\ 0 + j = j
                    BY <2>3
                <5> QED  BY <2>5, <5>1
            <4> QED  BY <4>1
        <3>3. Stands(G, c, t, 0, 0 + (b - a)) /\ 0 \in Nat
            BY <3>1, <3>2, StandsMove, Zenon
        <3>4. 0 + (b - a) = l
            BY <2>3
        <3> QED  BY <3>3, <3>4
    <2>13. Content(G, chunks')
        BY <2>2, <2>5, <2>7, <2>8, <2>9, <2>11, <2>12 DEF Content
    <2>14. b = a + Len(t) /\ Len(t) \in Nat
        BY <2>3, <2>5
    <2>15. Covers(G, r, s, a, b)
        BY <2>1, <2>5, <2>7, <2>14 DEF Covers
    <2> QED  BY <2>2, <2>7, <2>13, <2>15
<1> QED  BY <1>1, <1>2

-----------------------------------------------------------------------------
\* What the levels stand for.  The top level has the first blocks.

\* c cuts s into what each level stands for, from the top down.
Layers(F, ls, s, c) ==
    /\ c \in [0 .. Len(ls) -> Nat] /\ c[Len(ls)] = 0
    /\ \A i, j \in 0 .. Len(ls) : i <= j => c[j] <= c[i]
    /\ \A n \in 1 .. Len(ls) : Span(F, ls[n], s, c[n], c[n - 1])

\* The levels below n stand for nothing.
Flat(c, n) == \A m \in 0 .. n : c[m] = c[0]

\* References that stand for nothing do so everywhere.
LEMMA SpanNone ==
    ASSUME NEW F, NEW refs, Len(refs) \in Nat, NEW s, NEW a \in Nat, Span(F, refs, s, a, a),
           NEW t, NEW d \in Nat
    PROVE  Span(F, refs, t, d, d)
<1>1. \A j \in 1 .. a - a : t[d + j] = s[a + j]
    OBVIOUS
<1>2. Span(F, refs, t, d, d + (a - a))
    BY <1>1, SpanMove, Zenon
<1>3. d + (a - a) = d
    OBVIOUS
<1> QED  BY <1>2, <1>3

\* What c[0] is behind does not matter.
LEMMA LayersLonger ==
    ASSUME NEW F, NEW ls \in Seq(Seq(Ref)), NEW s, NEW c, Layers(F, ls, s, c),
           NEW t, \A j \in 1 .. c[0] : t[j] = s[j]
    PROVE  Layers(F, ls, t, c)
<1>1. PICK l \in Nat : l = Len(ls)
    OBVIOUS
<1>2. ASSUME NEW n \in 1 .. l PROVE Span(F, ls[n], t, c[n], c[n - 1])
    <2>1. Span(F, ls[n], s, c[n], c[n - 1])
        BY <1>1 DEF Layers
    <2>2. n \in 0 .. l /\ n - 1 \in 0 .. l /\ 0 \in 0 .. l /\ 0 <= n - 1
        OBVIOUS
    <2>3. c[n] \in Nat /\ c[n - 1] \in Nat /\ c[0] \in Nat /\ c[n - 1] <= c[0]
        BY <1>1, <2>2 DEF Layers
    <2>4. PICK a \in Nat, b \in Nat : a = c[n] /\ b = c[n - 1]
        BY <2>3
    <2>5. Len(ls[n]) \in Nat
        <3>1. ls[n] \in Seq(Ref)
            BY <1>1
        <3> QED  BY <3>1
    <2>6. a <= b
        BY <2>1, <2>4, <2>5, SpanEnds
    <2>7. ASSUME NEW j \in 1 .. b - a PROVE t[a + j] = s[a + j]
        <3>1. a + j \in 1 .. c[0]
            BY <2>3, <2>4, <2>6
        <3> QED  BY <3>1
    <2>8. Span(F, ls[n], t, a, a + (b - a))
        BY <2>1, <2>4, <2>5, <2>7, SpanMove
    <2>9. a + (b - a) = b
        OBVIOUS
    <2> QED  BY <2>4, <2>8, <2>9
<1> QED  BY <1>1, <1>2 DEF Layers

Agree(F, G, ls) ==
    \A n \in DOMAIN ls : \A k \in DOMAIN ls[n] : G[ls[n][k].id] = F[ls[n][k].id]

\* Another F that agrees on the references.
LEMMA LayersSameF ==
    ASSUME NEW F, NEW G, NEW ls \in Seq(Seq(Ref)), NEW s, NEW c, Layers(F, ls, s, c),
           Agree(F, G, ls)
    PROVE  Layers(G, ls, s, c)
<1>1. PICK l \in Nat : l = Len(ls) /\ DOMAIN ls = 1 .. l
    OBVIOUS
<1>2. ASSUME NEW n \in 1 .. l PROVE Span(G, ls[n], s, c[n], c[n - 1])
    <2>1. Span(F, ls[n], s, c[n], c[n - 1])
        BY <1>1 DEF Layers
    <2>2. DOMAIN ls[n] = 1 .. Len(ls[n])
        <3>1. ls[n] \in Seq(Ref)
            BY <1>1
        <3> QED  BY <3>1
    <2>3. \A k \in 1 .. Len(ls[n]) : G[ls[n][k].id] = F[ls[n][k].id]
        BY <1>1, <2>2 DEF Agree
    <2> QED  BY <2>1, <2>3, SpanSameF
<1> QED  BY <1>1, <1>2 DEF Layers

\* append_hashref_at, when what is pushed follows what is there.
LEMMA LayersPushed ==
    ASSUME NEW F, NEW s, NEW c, Layers(F, levels, s, c), levels \in Seq(Seq(Ref)),
           NEW n \in Nat, NEW l \in Nat, n <= l, l = Len(levels),
           NEW ls, NEW r, IsPushed(ls, n, l, r), Flat(c, n),
           NEW e \in Nat, c[0] <= e, Covers(F, r, s, c[0], e)
    PROVE  \E d : /\ Layers(F, ls, s, d) /\ d[0] = e /\ Flat(d, n)
                  /\ \A m \in n + 1 .. l : d[m] = c[m]
<1>0. PICK L \in Nat : L = IF n < l THEN l ELSE n + 1
    OBVIOUS
<1>1. /\ L = Len(ls) /\ L = IF n < l THEN l ELSE n + 1
      /\ \A k \in 1 .. L : k # n + 1 => k \in 1 .. l /\ ls[k] = levels[k]
    BY <1>0 DEF IsPushed
<1>2. /\ c \in [0 .. l -> Nat] /\ c[l] = 0
      /\ \A i, j \in 0 .. l : i <= j => c[j] <= c[i]
    BY DEF Layers
<1>3. n \in 0 .. l /\ 0 \in 0 .. l /\ c[n] = c[0]
    BY DEF Flat
<1> DEFINE d == [m \in 0 .. L |-> IF m <= n THEN e ELSE IF m = l + 1 THEN 0 ELSE c[m]]
<1>4. /\ \A m \in 0 .. L : m <= n => d[m] = e
      /\ \A m \in 0 .. L : m > n /\ m <= l => d[m] = c[m] /\ m \in 0 .. l
      /\ \A m \in 0 .. L : m > n /\ m > l => d[m] = 0 /\ m = L
    BY <1>1
<1>5. DOMAIN d = 0 .. L /\ d = [m \in 0 .. L |-> d[m]]
    OBVIOUS
<1> HIDE DEF d
<1>6. d \in [0 .. L -> Nat]
    <2>1. ASSUME NEW m \in 0 .. L PROVE d[m] \in Nat
        <3>1. CASE m <= n
            BY <1>4, <3>1
        <3>2. CASE m > n /\ m <= l
            BY <1>2, <1>4, <3>2
        <3>3. CASE m > n /\ m > l
            BY <1>4, <3>3
        <3> QED  BY <3>1, <3>2, <3>3
    <2> QED  BY <1>5, <2>1
<1>7. d[L] = 0
    <2>1. CASE n < l
        BY <1>1, <1>2, <1>4, <2>1
    <2>2. CASE ~(n < l)
        BY <1>1, <1>4, <2>2
    <2> QED  BY <2>1, <2>2
<1>8. ASSUME NEW i \in 0 .. L, NEW j \in 0 .. L, i <= j PROVE d[j] <= d[i]
    <2>1. d[i] \in Nat
        BY <1>6
    <2>2. CASE j <= n
        BY <1>4, <1>8, <2>2
    <2>3. CASE j > n /\ j <= l
        <3>1. d[j] = c[j] /\ j \in 0 .. l
            BY <1>4, <2>3
        <3>2. CASE i <= n
            <4>1. c[j] <= c[0] /\ c[j] \in Nat /\ c[0] \in Nat
                BY <1>2, <1>3, <3>1
            <4> QED  BY <1>4, <3>1, <3>2, <4>1
        <3>3. CASE i > n
            <4>1. d[i] = c[i] /\ i \in 0 .. l
                BY <1>4, <1>8, <2>3, <3>3
            <4> QED  BY <1>2, <1>8, <3>1, <4>1
        <3> QED  BY <3>2, <3>3
    <2>4. CASE j > n /\ j > l
        BY <1>4, <2>1, <2>4
    <2> QED  BY <2>2, <2>3, <2>4
<1>9. ASSUME NEW k \in 1 .. L PROVE Span(F, ls[k], s, d[k], d[k - 1])
    <2>1. k \in 0 .. L /\ k - 1 \in 0 .. L
        OBVIOUS
    <2>2. k # n + 1 => k \in 1 .. l /\ ls[k] = levels[k]
        BY <1>1
    <2>3. CASE k <= n
        <3>1. k \in 1 .. l /\ ls[k] = levels[k]
            BY <2>2, <2>3
        <3>2. Span(F, ls[k], s, c[k], c[k - 1])
            BY <3>1 DEF Layers
        <3>3. k \in 0 .. n /\ k - 1 \in 0 .. n
            BY <2>3
        <3>4. c[k] = c[0] /\ c[k - 1] = c[0] /\ c[0] \in Nat
            BY <1>2, <1>3, <3>3 DEF Flat
        <3>5. d[k] = e /\ d[k - 1] = e
            BY <1>4, <2>1, <2>3
        <3>6. Len(ls[k]) \in Nat
            <4>1. ls[k] \in Seq(Ref)
                BY <3>1
            <4> QED  BY <4>1
        <3>7. Span(F, ls[k], s, c[0], c[0])
            BY <3>2, <3>4
        <3> QED  BY <3>4, <3>5, <3>6, <3>7, SpanNone
    <2>4. CASE k = n + 1
        <3>1. d[k - 1] = e
            BY <1>4, <2>1, <2>4
        <3>2. r \in Ref
            BY DEF IsPushed
        <3>3. CASE n + 1 \in 1 .. l /\ ls[n + 1] = Append(levels[n + 1], r)
            <4>1. d[n + 1] = c[n + 1]
                BY <1>4, <2>1, <2>4, <3>3
            <4>2. Span(F, levels[n + 1], s, c[n + 1], c[n + 1 - 1]) /\ n + 1 - 1 = n
                BY <3>3 DEF Layers
            <4>3. Span(F, levels[n + 1], s, c[n + 1], c[0])
                BY <1>3, <4>2
            <4>4. levels[n + 1] \in Seq(Ref)
                BY <3>3
            <4>5. Span(F, Append(levels[n + 1], r), s, c[n + 1], e)
                BY <3>2, <4>3, <4>4, SpanAppend
            <4> QED  BY <2>4, <3>1, <3>3, <4>1, <4>5
        <3>4. CASE n = l /\ ls[n + 1] = <<r>>
            <4>1. d[n + 1] = 0 /\ c[0] = 0
                BY <1>2, <1>3, <1>4, <2>1, <2>4, <3>4
            <4>2. Span(F, <<>>, s, 0, 0) /\ 0 \in Nat
                BY SpanNothing
            <4>3. <<>> \in Seq(Ref) /\ Append(<<>>, r) = <<r>>
                BY <3>2
            <4>4. Span(F, Append(<<>>, r), s, 0, e)
                BY <3>2, <4>1, <4>2, <4>3, SpanAppend
            <4> QED  BY <2>4, <3>1, <3>4, <4>1, <4>3, <4>4
        <3> QED  BY <3>3, <3>4 DEF IsPushed
    <2>5. CASE k > n + 1
        <3>1. k \in 1 .. l /\ ls[k] = levels[k]
            BY <2>2, <2>5
        <3>2. Span(F, ls[k], s, c[k], c[k - 1])
            BY <3>1 DEF Layers
        <3>3. d[k] = c[k] /\ d[k - 1] = c[k - 1]
            BY <1>4, <2>1, <2>5, <3>1
        <3> QED  BY <3>2, <3>3
    <2> QED  BY <2>3, <2>4, <2>5
<1>10. Layers(F, ls, s, d)
    BY <1>1, <1>6, <1>7, <1>8, <1>9 DEF Layers
<1>11. d[0] = e /\ Flat(d, n)
    BY <1>1, <1>4 DEF Flat
<1>12. \A m \in n + 1 .. l : d[m] = c[m]
    BY <1>1, <1>4
<1> QED  BY <1>10, <1>11, <1>12

\* collapse_level of the lowest level that stands for something, or of one
\* below it.
LEMMA LayersCollapsed ==
    ASSUME NEW F, NEW ls \in Seq(Seq(Ref)), NEW s, NEW c, Layers(F, ls, s, c),
           NEW n \in Nat, n + 1 \in DOMAIN ls, Flat(c, n),
           NEW new, new = [ls EXCEPT ![n + 1] = <<>>]
    PROVE  \E d : /\ Layers(F, new, s, d) /\ d[0] = c[n + 1] /\ Flat(d, n + 1)
                  /\ \A m \in n + 1 .. Len(ls) : d[m] = c[m]
                  /\ Span(F, ls[n + 1], s, d[0], c[0])
<1>1. PICK L \in Nat : L = Len(ls) /\ DOMAIN ls = 1 .. L
    OBVIOUS
<1>2. /\ c \in [0 .. L -> Nat] /\ c[L] = 0
      /\ \A i, j \in 0 .. L : i <= j => c[j] <= c[i]
    BY <1>1 DEF Layers
<1>3. n + 1 \in 1 .. L /\ n + 1 \in 0 .. L /\ n \in 0 .. L /\ c[n] = c[0]
    BY <1>1 DEF Flat
<1>4. /\ new \in Seq(Seq(Ref)) /\ Len(new) = L /\ new[n + 1] = <<>>
      /\ \A k \in 1 .. L : k # n + 1 => new[k] = ls[k]
    <2>1. <<>> \in Seq(Ref)
        OBVIOUS
    <2> QED  BY <1>1, <1>3, <2>1
<1>5. PICK e \in Nat : e = c[n + 1]
    BY <1>2, <1>3
<1> DEFINE d == [m \in 0 .. L |-> IF m <= n THEN e ELSE c[m]]
<1>6. /\ d = [m \in 0 .. L |-> d[m]]
      /\ \A m \in 0 .. L : m <= n + 1 => d[m] = e
      /\ \A m \in 0 .. L : m > n => d[m] = c[m]
    BY <1>3, <1>5
<1> HIDE DEF d
<1>7. d \in [0 .. L -> Nat]
    <2>1. \A m \in 0 .. L : d[m] \in Nat
        BY <1>2, <1>5, <1>6
    <2> QED  BY <1>6, <2>1
<1>8. d[L] = 0
    BY <1>2, <1>3, <1>6
<1>9. ASSUME NEW i \in 0 .. L, NEW j \in 0 .. L, i <= j PROVE d[j] <= d[i]
    <2>1. CASE j <= n + 1
        <3>1. i <= n + 1
            BY <1>9, <2>1
        <3>2. d[i] = e /\ d[j] = e
            BY <1>6, <2>1, <3>1
        <3> QED  BY <1>5, <3>2
    <2>2. CASE j > n + 1 /\ i <= n + 1
        <3>1. d[i] = e /\ d[j] = c[j]
            BY <1>6, <2>2
        <3>2. c[j] <= c[n + 1]
            BY <1>2, <1>3, <2>2
        <3> QED  BY <1>5, <3>1, <3>2
    <2>3. CASE j > n + 1 /\ i > n + 1
        <3>1. d[i] = c[i] /\ d[j] = c[j]
            BY <1>6, <2>3
        <3>2. c[j] <= c[i]
            BY <1>2, <1>9
        <3> QED  BY <3>1, <3>2
    <2> QED  BY <2>1, <2>2, <2>3
<1>10. ASSUME NEW k \in 1 .. L PROVE Span(F, new[k], s, d[k], d[k - 1])
    <2>1. k \in 0 .. L /\ k - 1 \in 0 .. L
        OBVIOUS
    <2>2. Span(F, ls[k], s, c[k], c[k - 1])
        BY <1>1 DEF Layers
    <2>3. CASE k <= n
        <3>1. k \in 0 .. n /\ k - 1 \in 0 .. n /\ k # n + 1
            BY <2>3
        <3>2. c[k] = c[0] /\ c[k - 1] = c[0] /\ c[0] \in Nat
            BY <1>2, <1>3, <3>1 DEF Flat
        <3>3. d[k] = e /\ d[k - 1] = e
            BY <1>6, <2>1, <2>3
        <3>4. new[k] = ls[k]
            BY <1>4, <3>1
        <3>5. Len(ls[k]) \in Nat
            <4>1. ls[k] \in Seq(Ref)
                BY <1>1
            <4> QED  BY <4>1
        <3>6. Span(F, ls[k], s, c[0], c[0])
            BY <2>2, <3>2
        <3> QED  BY <3>2, <3>3, <3>4, <3>5, <3>6, SpanNone
    <2>4. CASE k = n + 1
        <3>1. d[k] = e /\ d[k - 1] = e
            BY <1>6, <2>1, <2>4
        <3> QED  BY <1>4, <2>4, <3>1, SpanNothing
    <2>5. CASE k > n + 1
        <3>1. k > n /\ k - 1 > n /\ k # n + 1
            BY <2>5
        <3>2. d[k] = c[k] /\ d[k - 1] = c[k - 1]
            BY <1>6, <2>1, <3>1
        <3>3. new[k] = ls[k]
            BY <1>4, <3>1
        <3> QED  BY <2>2, <3>2, <3>3
    <2> QED  BY <2>3, <2>4, <2>5
<1>11. Layers(F, new, s, d)
    BY <1>4, <1>7, <1>8, <1>9, <1>10 DEF Layers
<1>12. d[0] = e /\ Flat(d, n + 1)
    <2>1. 0 \in 0 .. L /\ \A m \in 0 .. n + 1 : m \in 0 .. L /\ m <= n + 1
        BY <1>3
    <2>2. 0 <= n + 1
        OBVIOUS
    <2>3. d[0] = e
        BY <1>6, <2>1, <2>2
    <2>4. \A m \in 0 .. n + 1 : d[m] = e
        BY <1>6, <2>1
    <2> QED  BY <2>3, <2>4 DEF Flat
<1>13. \A m \in n + 1 .. L : d[m] = c[m]
    BY <1>6
<1>14. Span(F, ls[n + 1], s, c[n + 1], c[0])
    <2>1. Span(F, ls[n + 1], s, c[n + 1], c[n + 1 - 1]) /\ n + 1 - 1 = n
        BY <1>1, <1>3 DEF Layers
    <2> QED  BY <1>3, <2>1
<1> QED  BY <1>1, <1>5, <1>11, <1>12, <1>13, <1>14

\* Levels without references stand for nothing.
LEMMA LayersEmpty ==
    ASSUME NEW F, NEW ls \in Seq(Seq(Ref)), NEW s, NEW c, Layers(F, ls, s, c),
           NEW n \in 0 .. Len(ls), \A m \in 1 .. n : ls[m] = <<>>
    PROVE  Flat(c, n)
<1>1. PICK L \in Nat : L = Len(ls)
    OBVIOUS
<1> DEFINE Bad == {m \in 0 .. n : c[m] # c[0]}
<1>2. SUFFICES ASSUME Bad # {} PROVE FALSE
    BY DEF Flat
<1>3. PICK m \in Bad : \A k \in Bad : m <= k
    <2>1. Bad \subseteq Nat
        BY <1>1
    <2> QED  BY <1>2, <2>1, Least
<1>4. m \in 0 .. n /\ c[m] # c[0] /\ m # 0
    OBVIOUS
<1>5. m \in 1 .. n /\ m \in 1 .. L /\ m - 1 \in 0 .. n /\ ~(m <= m - 1)
    BY <1>1, <1>4
<1>6. c[m - 1] = c[0]
    BY <1>3, <1>5
<1>7. Span(F, <<>>, s, c[m], c[m - 1]) /\ Len(<<>>) = 0 /\ 0 \in Nat
    <2>1. Span(F, ls[m], s, c[m], c[m - 1])
        BY <1>1, <1>5 DEF Layers
    <2>2. ls[m] = <<>>
        BY <1>5
    <2> QED  BY <2>1, <2>2
<1>8. c[m] = c[m - 1]
    BY <1>7, SpanEnds
<1> QED  BY <1>4, <1>6, <1>8

-----------------------------------------------------------------------------
\* The inductive invariant: the levels, top down, and what is pending stand for
\* the blocks that were appended.

\* What the writer has been given; an empty tree gets its block from hash().
Stored == IF levels = <<>> /\ pending = <<>> THEN <<>> ELSE Written

\* Below the top of l levels nothing is left but, perhaps, what is pending.
OnTop(c, l, ps, e) ==
    /\ \A m \in 0 .. l - 1 : c[m] = c[0]
    /\ ps # <<>> => (ps[1].node + 1 < l => c[0] = e)

BlocksInv ==
    /\ blocks \in Seq(Block)
    /\ levels = <<>> /\ pending = <<>> => blocks = <<>>
    /\ pc = "append" /\ blocks = <<>> => levels = <<>> /\ pending = <<>>
    /\ pc = "root" => IF pending = <<>> THEN Len(levels[Len(levels)]) = 1
                                        ELSE pending[1].node = Len(levels)

WriterHas(F, c) ==
    /\ Content(F, chunks)
    /\ Layers(F, levels, Stored, c)
    /\ c[0] <= Len(Stored)
    /\ pending = <<>> => c[0] = Len(Stored)
    /\ pending # <<>> => Stands(F, pending[1], Stored, c[0], Len(Stored)) /\ Flat(c, pending[1].node)
    /\ pc = "collapse" =>
          /\ Flat(c, next)
          /\ pending # <<>> => next <= pending[1].node
          /\ Len(levels) = top + 1 \/ OnTop(c, Len(levels), pending, Len(Stored))
    /\ pc \in {"root", "done", "read", "end"} => OnTop(c, Len(levels), pending, Len(Stored))
    /\ pc \in {"done", "read", "end"} => F[root[1].id] = Stored

\* What has been appended is a sequence of blocks.
LEMMA StoredIsSeq ==
    ASSUME BlocksInv
    PROVE  Stored \in Seq(Data) /\ Written \in Seq(Data) /\ Len(Stored) \in Nat /\ Len(Written) \in Nat
<1>1. blocks \in Seq(Block) /\ EmptyBlock \in Data /\ Block \subseteq Data
    BY DEF BlocksInv, Data
<1>2. blocks \in Seq(Data)
    BY <1>1
<1>3. <<EmptyBlock>> \in Seq(Data) /\ <<>> \in Seq(Data)
    BY <1>1
<1>4. Written \in Seq(Data)
    BY <1>2, <1>3 DEF Written
<1>5. Stored \in Seq(Data)
    BY <1>3, <1>4 DEF Stored
<1> QED  BY <1>4, <1>5

\* The references of the levels stand for the same blocks when a chunk has been
\* inserted.
LEMMA LevelsSameF ==
    ASSUME LevelsInv, NEW F, NEW G, \A i \in DOMAIN chunks : G[i] = F[i],
           NEW s, NEW c, Layers(F, levels, s, c)
    PROVE  Layers(G, levels, s, c)
<1>1. levels \in Seq(Seq(Ref))
    BY DEF LevelsInv
<1>2. ASSUME NEW n \in DOMAIN levels, NEW k \in DOMAIN levels[n]
      PROVE  G[levels[n][k].id] = F[levels[n][k].id]
    <2>1. levels[n][k].id \in DOMAIN chunks
        BY DEF LevelsInv, Names
    <2> QED  BY <2>1
<1>3. Agree(F, G, levels)
    BY <1>2 DEF Agree
<1> QED  BY <1>1, <1>3, LayersSameF

\* append_at: what was pending stands, after what was there, on its level, or is
\* pending again as the end of the level that was collapsed.
LEMMA AppendAtKeepsText ==
    ASSUME TreeInv, BlocksInv, AppendAt, NEW F, NEW c, WriterHas(F, c)
    PROVE  BlocksInv' /\ \E G, d : WriterHas(G, d)'
<1>1. PICK x \in Chunk, n \in Nat, l \in Nat, r \in Ref, ls \in Seq(Seq(Ref)) :
        /\ pending # <<>> /\ x = pending[1] /\ n = x.node /\ l = Len(levels) /\ n <= l
        /\ WellFormed(x) /\ InsertChunk(x) /\ r.id = IdOf(x) /\ r.node = n
        /\ IsPushed(ls, n, l, r)
        /\ IF Len(ls[n + 1]) = order
           THEN levels' = [ls EXCEPT ![n + 1] = <<>>] /\ pending' = <<Branch(n + 1, ls[n + 1])>>
           ELSE levels' = ls /\ pending' = <<>>
    BY AppendAtParts
<1>2. /\ order' = order /\ blocks' = blocks /\ pc' = pc /\ next' = next /\ top' = top
      /\ root' = root
    BY DEF AppendAt
<1>3. /\ pc \in {"append", "locate", "collapse", "root"}
      /\ ChunksInv /\ LevelsInv /\ levels \in Seq(Seq(Ref))
    BY <1>1 DEF TreeInv, TopInv, LevelsInv
<1>4. /\ Len(ls) = IF n < l THEN l ELSE n + 1
      /\ DOMAIN ls = 1 .. Len(ls) /\ n + 1 \in DOMAIN ls
      /\ n = l => ls[n + 1] = <<r>>
    BY <1>1 DEF IsPushed
<1>5. levels' # <<>> /\ Len(levels') = Len(ls) /\ levels' \in Seq(Seq(Ref))
    <2>1. CASE Len(ls[n + 1]) = order
        <3>1. levels' = [ls EXCEPT ![n + 1] = <<>>] /\ <<>> \in Seq(Ref)
            BY <1>1, <2>1
        <3>2. levels' \in Seq(Seq(Ref)) /\ Len(levels') = Len(ls)
            BY <1>4, <3>1
        <3>3. Len(ls) # 0
            BY <1>4
        <3> QED  BY <3>2, <3>3
    <2>2. CASE Len(ls[n + 1]) # order
        <3>1. levels' = ls /\ Len(ls) # 0
            BY <1>1, <1>4, <2>2
        <3> QED  BY <3>1
    <2> QED  BY <2>1, <2>2
<1>6. PICK s \in Seq(Data), e \in Nat : s = Stored /\ Stored' = s /\ e = Len(s)
    <2>1. Stored = Written /\ Stored' = Written
        BY <1>1, <1>2, <1>5 DEF Stored, Written
    <2>2. Stored \in Seq(Data) /\ Len(Stored) \in Nat
        BY StoredIsSeq
    <2> QED  BY <2>1, <2>2
<1>7. /\ Content(F, chunks) /\ Layers(F, levels, s, c)
      /\ Stands(F, x, s, c[0], e) /\ Flat(c, n)
      /\ c[0] \in Nat /\ c[0] <= e
    <2>1. 0 \in 0 .. Len(levels)
        BY <1>3
    <2> QED  BY <1>1, <1>6, <2>1 DEF WriterHas, Layers
<1>8. PICK G : /\ Content(G, chunks') /\ \A i \in DOMAIN chunks : G[i] = F[i]
               /\ Covers(G, r, s, c[0], e)
    <2>1. e <= Len(s)
        BY <1>6
    <2>2. ChunksInv /\ WellFormed(x) /\ InsertChunk(x) /\ r.id = IdOf(x)
        BY <1>1, <1>3
    <2>3. PICK a \in Nat : a = c[0] /\ a <= e /\ Content(F, chunks) /\ Stands(F, x, s, a, e)
        BY <1>7
    <2>4. \E G : /\ Content(G, chunks') /\ \A i \in DOMAIN chunks : G[i] = F[i]
                /\ Covers(G, r, s, a, e)
        BY <2>1, <2>2, <2>3, InsertKeepsContent
    <2> QED  BY <2>3, <2>4
<1>9. Layers(G, levels, s, c)
    BY <1>3, <1>7, <1>8, LevelsSameF
<1>10. PICK d : /\ Layers(G, ls, s, d) /\ d[0] = e /\ Flat(d, n)
                /\ \A m \in n + 1 .. l : d[m] = c[m]
    <2>1. levels \in Seq(Seq(Ref)) /\ n <= l /\ l = Len(levels) /\ IsPushed(ls, n, l, r)
        BY <1>1, <1>3
    <2>2. Flat(c, n) /\ c[0] <= e
        BY <1>7
    <2>3. Covers(G, r, s, c[0], e)
        BY <1>8
    <2> QED  BY <1>9, <2>1, <2>2, <2>3, LayersPushed
<1>11. pc = "collapse" =>
          next \in Nat /\ next <= n /\ (l = top + 1 \/ OnTop(c, l, pending, e))
    BY <1>1, <1>6 DEF WriterHas, TreeInv, TopInv
<1>12. pc = "root" => n = l /\ OnTop(c, l, pending, e)
    BY <1>1, <1>6 DEF WriterHas, BlocksInv
<1>13. order \in Nat /\ 1 < order
    BY TreeAssumption DEF TreeInv
<1>14. n = l => Len(ls[n + 1]) = 1 /\ Len(ls[n + 1]) # order /\ Len(ls) = n + 1
    <2>1. Len(<<r>>) = 1
        OBVIOUS
    <2>2. n = l => ls[n + 1] = <<r>> /\ Len(ls) = n + 1
        BY <1>4
    <2>3. 1 # order
        BY <1>13
    <2> QED  BY <2>1, <2>2, <2>3
<1>15. OnTop(c, l, pending, e) => /\ \A m \in 0 .. l - 1 : c[m] = c[0]
                                  /\ n + 1 < l => c[0] = e
    BY <1>1 DEF OnTop
<1>16. (blocks' \in Seq(Block) /\ blocks' # <<>>) \/ pc' # "append"
    BY <1>1, <1>2 DEF BlocksInv
<1>20. CASE Len(ls[n + 1]) # order
    <2>1. levels' = ls /\ pending' = <<>>
        BY <1>1, <1>20
    <2>2. OnTop(c, l, pending, e) \/ n = l => OnTop(d, Len(ls), <<>>, e)
        <3> SUFFICES ASSUME OnTop(c, l, pending, e) \/ n = l, NEW m \in 0 .. Len(ls) - 1
                     PROVE  d[m] = d[0]
            BY DEF OnTop
        <3>1. CASE m <= n
            <4>1. m \in 0 .. n
                BY <3>1
            <4> QED  BY <1>10, <4>1 DEF Flat
        <3>2. CASE m > n
            <4>0. Len(ls) = (IF n < l THEN l ELSE n + 1) /\ n <= l
                BY <1>1, <1>4
            <4>1. n < l /\ Len(ls) = l /\ n + 1 < l /\ m \in n + 1 .. l /\ m \in 0 .. l - 1
                BY <3>2, <4>0
            <4>2. c[m] = c[0] /\ c[0] = e
                BY <1>15, <4>1
            <4> QED  BY <1>10, <4>1, <4>2
        <3> QED  BY <3>1, <3>2
    <2>3. pc = "collapse" => /\ Flat(d, next)
                             /\ Len(ls) = top + 1 \/ OnTop(d, Len(ls), <<>>, e)
        <3>1. ASSUME pc = "collapse" PROVE Flat(d, next)
            BY <1>10, <1>11, <3>1 DEF Flat
        <3>2. n # l => Len(ls) = l
            BY <1>1, <1>4
        <3> QED  BY <1>11, <2>2, <3>1, <3>2
    <2>4. pc = "root" => OnTop(d, Len(ls), <<>>, e) /\ Len(ls[Len(ls)]) = 1
        BY <1>12, <1>14, <2>2
    <2>5. BlocksInv'
        BY <1>2, <1>3, <1>5, <1>16, <2>1, <2>4 DEF BlocksInv
    <2>6. WriterHas(G, d)'
        <3>1. Len(Stored)' = e /\ d[0] <= e
            BY <1>6, <1>10
        <3>2. pc' \notin {"done", "read", "end"}
            BY <1>2, <1>3
        <3> QED  BY <1>2, <1>3, <1>6, <1>8, <1>10, <2>1, <2>3, <2>4, <3>1, <3>2 DEF WriterHas
    <2> QED  BY <2>5, <2>6
<1>21. CASE Len(ls[n + 1]) = order
    <2>1. levels' = [ls EXCEPT ![n + 1] = <<>>] /\ pending' = <<Branch(n + 1, ls[n + 1])>>
        BY <1>1, <1>21
    <2>2. n < l /\ Len(ls) = l /\ pc # "root"
        BY <1>1, <1>4, <1>12, <1>14, <1>21
    <2>3. PICK new : new = [ls EXCEPT ![n + 1] = <<>>]
        OBVIOUS
    <2>4. PICK g : /\ Layers(G, new, s, g) /\ g[0] = d[n + 1] /\ Flat(g, n + 1)
                   /\ \A m \in n + 1 .. l : g[m] = d[m]
                   /\ Span(G, ls[n + 1], s, g[0], e)
        BY <1>4, <1>10, <2>2, <2>3, LayersCollapsed
    <2>5. PICK y : y = Branch(n + 1, ls[n + 1])
        OBVIOUS
    <2>6. y.node = n + 1 /\ y.refs = ls[n + 1] /\ n + 1 # 0
        BY <2>5 DEF Branch
    <2>7. Stands(G, y, s, g[0], e)
        BY <2>4, <2>6 DEF Stands
    <2>8. pending' # <<>> /\ pending'[1] = y
        BY <2>1, <2>5
    <2>9. \A m \in n + 1 .. l : g[m] = c[m]
        BY <1>10, <2>4
    <2>10. n + 1 \in n + 1 .. l /\ g[0] = c[n + 1]
        BY <1>10, <2>2, <2>4
    <2>11. ASSUME OnTop(c, l, pending, e) PROVE OnTop(g, l, pending', e)
        <3>1. ASSUME NEW m \in 0 .. l - 1 PROVE g[m] = g[0]
            <4>1. CASE m <= n + 1
                <5>1. m \in 0 .. n + 1
                    BY <4>1
                <5> QED  BY <2>4, <5>1 DEF Flat
            <4>2. CASE m > n + 1
                <5>1. m \in n + 1 .. l /\ n + 1 \in 0 .. l - 1
                    BY <2>2, <4>2
                <5>2. c[m] = c[0] /\ c[n + 1] = c[0]
                    BY <1>15, <2>11, <5>1
                <5> QED  BY <2>9, <2>10, <5>1, <5>2
            <4> QED  BY <4>1, <4>2
        <3>2. ASSUME n + 1 + 1 < l PROVE g[0] = e
            <4>1. n + 1 < l /\ n + 1 \in 0 .. l - 1
                BY <3>2
            <4>2. c[n + 1] = c[0] /\ c[0] = e
                BY <1>15, <2>11, <4>1
            <4> QED  BY <2>10, <4>2
        <3> QED  BY <2>6, <2>8, <3>1, <3>2 DEF OnTop
    <2>12. pc = "collapse" => /\ Flat(g, next) /\ next <= n + 1
                              /\ l = top + 1 \/ OnTop(g, l, pending', e)
        <3>1. ASSUME pc = "collapse" PROVE Flat(g, next) /\ next <= n + 1
            <4>1. next \in Nat /\ next <= n + 1
                BY <1>11, <3>1
            <4> QED  BY <2>4, <4>1 DEF Flat
        <3> QED  BY <1>11, <2>11, <3>1
    <2>13. BlocksInv'
        BY <1>2, <1>3, <1>5, <1>16, <2>2 DEF BlocksInv
    <2>14. g[0] <= e
        <3>1. ls[n + 1] \in Seq(Ref)
            BY <1>4
        <3>2. Len(ls[n + 1]) \in Nat
            BY <3>1
        <3> QED  BY <2>4, <3>2, SpanEnds
    <2>15. WriterHas(G, g)'
        <3>1. Len(Stored)' = e /\ levels' = new /\ Len(levels') = l
            BY <1>5, <1>6, <2>1, <2>2, <2>3
        <3>2. pc' \notin {"root", "done", "read", "end"}
            BY <1>2, <1>3, <2>2
        <3>3. Flat(g, y.node)
            BY <2>4, <2>6
        <3> QED  BY <1>2, <1>6, <1>8, <2>4, <2>6, <2>7, <2>8, <2>12, <2>14, <3>1, <3>2, <3>3
                 DEF WriterHas
    <2> QED  BY <2>13, <2>15
<1> QED  BY <1>20, <1>21

\* append: the block follows what is there.
LEMMA AppendBlockKeepsText ==
    ASSUME TreeInv, BlocksInv, NEW b \in Block, AppendBlock(b), NEW F, NEW c, WriterHas(F, c)
    PROVE  BlocksInv' /\ WriterHas(F, c)'
<1>1. /\ pc = "append" /\ pending = <<>> /\ blocks' = Append(blocks, b)
      /\ pending' = <<Leaf(b)>> /\ chunks' = chunks /\ levels' = levels /\ pc' = pc
    BY DEF AppendBlock
<1>2. /\ blocks \in Seq(Block) /\ blocks' \in Seq(Block) /\ blocks' # <<>>
      /\ blocks'[Len(blocks) + 1] = b /\ Len(blocks') = Len(blocks) + 1
      /\ \A j \in 1 .. Len(blocks) : blocks'[j] = blocks[j]
    BY <1>1, AppendFacts DEF BlocksInv
<1>3. Stored = blocks
    <2>1. CASE levels = <<>>
        BY <1>1, <2>1 DEF Stored, BlocksInv
    <2>2. CASE levels # <<>>
        BY <1>1, <2>2 DEF Stored, BlocksInv, Written
    <2> QED  BY <2>1, <2>2
<1>4. PICK x : x = Leaf(b)
    OBVIOUS
<1>5. pending' # <<>> /\ pending'[1] = x /\ x.node = 0 /\ x.block = b
    BY <1>1, <1>4 DEF Leaf
<1>6. Stored' = blocks'
    BY <1>2, <1>5 DEF Stored, Written
<1>7. PICK n \in Nat : n = Len(blocks) /\ c[0] = n
    BY <1>1, <1>2, <1>3 DEF WriterHas
<1>8. Layers(F, levels, blocks, c) /\ levels \in Seq(Seq(Ref))
    BY <1>3 DEF WriterHas, TreeInv, LevelsInv
<1>9. Layers(F, levels, blocks', c)
    BY <1>2, <1>7, <1>8, LayersLonger
<1>10. Stands(F, x, blocks', c[0], Len(blocks'))
    BY <1>2, <1>5, <1>7 DEF Stands
<1>11. Flat(c, 0) /\ c[0] <= Len(blocks')
    <2>1. \A m \in 0 .. 0 : m = 0
        OBVIOUS
    <2>2. Flat(c, 0)
        BY <2>1 DEF Flat
    <2> QED  BY <1>2, <1>7, <2>2
<1>12. BlocksInv'
    BY <1>1, <1>2, <1>5 DEF BlocksInv
<1>13. WriterHas(F, c)'
    <2>1. Content(F, chunks')
        BY <1>1 DEF WriterHas
    <2> QED  BY <1>1, <1>5, <1>6, <1>9, <1>10, <1>11, <2>1 DEF WriterHas
<1> QED  BY <1>12, <1>13

\* hash() is called: an empty tree has one empty block.
LEMMA HashBeginKeepsText ==
    ASSUME TreeInv, BlocksInv, NEW i \in BOOLEAN, HashBegin(i), NEW F, NEW c, WriterHas(F, c)
    PROVE  BlocksInv' /\ WriterHas(F, c)'
<1>1. /\ pc \in {"append", "done"} /\ pending = <<>> /\ pc' = "locate"
      /\ pending' = IF levels = <<>> THEN <<Leaf(EmptyBlock)>> ELSE <<>>
      /\ blocks' = blocks /\ chunks' = chunks /\ levels' = levels
    BY DEF HashBegin
<1>2. CASE levels = <<>>
    <2>1. blocks = <<>> /\ Stored = <<>>
        BY <1>1, <1>2 DEF BlocksInv, Stored
    <2>2. PICK x : x = Leaf(EmptyBlock)
        OBVIOUS
    <2>3. pending' = <<x>> /\ pending' # <<>> /\ pending'[1] = x
        BY <1>1, <1>2, <2>2
    <2>4. x.node = 0 /\ x.block = EmptyBlock
        BY <2>2 DEF Leaf
    <2>5. PICK s : s = <<EmptyBlock>>
        OBVIOUS
    <2>6. Stored' = s
        BY <1>1, <2>1, <2>3, <2>5 DEF Stored, Written
    <2>7. Len(s) = 1 /\ s[1] = EmptyBlock
        BY <2>5
    <2>8. c[0] = 0
        <3>1. Len(<<>>) = 0
            OBVIOUS
        <3> QED  BY <1>1, <2>1, <3>1 DEF WriterHas
    <2>9. Stands(F, x, s, c[0], Len(s))
        BY <2>4, <2>7, <2>8 DEF Stands
    <2>10. Flat(c, 0)
        <3>1. \A m \in 0 .. 0 : m = 0
            OBVIOUS
        <3> QED  BY <3>1 DEF Flat
    <2>11. Layers(F, levels, s, c)
        <3>1. Layers(F, levels, <<>>, c) /\ levels \in Seq(Seq(Ref))
            BY <2>1 DEF WriterHas, TreeInv, LevelsInv
        <3>2. \A j \in 1 .. c[0] : s[j] = <<>>[j]
            BY <2>8
        <3> QED  BY <3>1, <3>2, LayersLonger
    <2>12. BlocksInv'
        BY <1>1, <2>3 DEF BlocksInv
    <2>13. WriterHas(F, c)'
        <3>1. Content(F, chunks') /\ c[0] <= Len(s)
            BY <1>1, <2>7, <2>8 DEF WriterHas
        <3> QED  BY <1>1, <2>3, <2>4, <2>6, <2>9, <2>10, <2>11, <3>1 DEF WriterHas
    <2> QED  BY <2>12, <2>13
<1>3. CASE levels # <<>>
    <2>1. pending' = <<>> /\ Stored' = Stored
        BY <1>1, <1>3 DEF Stored, Written
    <2>2. BlocksInv'
        BY <1>1, <1>3, <2>1 DEF BlocksInv
    <2>3. WriterHas(F, c)'
        BY <1>1, <2>1 DEF WriterHas
    <2> QED  BY <2>2, <2>3
<1> QED  BY <1>2, <1>3

\* The levels below the first one to collapse stand for nothing.
LEMMA HashLocateKeepsText ==
    ASSUME TreeInv, BlocksInv, HashLocate, NEW F, NEW c, WriterHas(F, c)
    PROVE  BlocksInv' /\ WriterHas(F, c)'
<1>1. /\ pc = "locate" /\ pending = <<>> /\ pc' = "collapse"
      /\ next' = CHOOSE n \in 0 .. TopLevel :
                    levels[n + 1] # <<>> /\ \A m \in 1 .. n : levels[m] = <<>>
      /\ top' = TopLevel
      /\ blocks' = blocks /\ chunks' = chunks /\ levels' = levels /\ pending' = pending
    BY DEF HashLocate
<1>2. levels \in Seq(Seq(Ref)) /\ levels # <<>> /\ levels[Len(levels)] # <<>>
    BY <1>1 DEF TreeInv, LevelsInv, TopInv
<1>3. PICK L \in Nat : L = Len(levels) /\ L # 0
    BY <1>2
<1>4. next' \in 0 .. TopLevel /\ \A m \in 1 .. next' : levels[m] = <<>>
    BY <1>1, <1>2, LowestLevel
<1>5. TopLevel = L - 1 /\ L = TopLevel + 1 /\ next' \in 0 .. Len(levels)
    BY <1>3, <1>4 DEF TopLevel
<1>6. Layers(F, levels, Stored, c)
    BY DEF WriterHas
<1>7. PICK n : n = next'
    OBVIOUS
<1>8. Flat(c, n)
    BY <1>2, <1>4, <1>5, <1>6, <1>7, LayersEmpty
<1>9. Stored' = Stored
    BY <1>1 DEF Stored, Written
<1>10. BlocksInv'
    BY <1>1 DEF BlocksInv
<1>11. Len(levels)' = top' + 1
    BY <1>1, <1>3, <1>5
<1>12. WriterHas(F, c)'
    BY <1>1, <1>7, <1>8, <1>9, <1>11 DEF WriterHas
<1> QED  BY <1>10, <1>12

\* collapse_level in hash(): the level is pending, and follows what is there.
LEMMA HashCollapsesText ==
    ASSUME TreeInv, BlocksInv, NEW F, NEW c, WriterHas(F, c), pending = <<>>,
           NEW n \in Nat, NEW L \in Nat, L = Len(levels), n < L, Flat(c, n), CollapseLevel(levels, n),
           blocks' = blocks
    PROVE  \E d, x :
              /\ pending' # <<>> /\ pending'[1] = x /\ x.node = n + 1
              /\ Stored' = Stored /\ Len(levels') = L /\ levels' # <<>>
              /\ Layers(F, levels', Stored, d) /\ d[0] <= Len(Stored)
              /\ Stands(F, x, Stored, d[0], Len(Stored))
              /\ Flat(d, n + 1) /\ d[0] = c[n + 1]
              /\ \A m \in n + 1 .. L : d[m] = c[m]
<1>1. /\ levels' = [levels EXCEPT ![n + 1] = <<>>] /\ pending' = <<Branch(n + 1, levels[n + 1])>>
    BY DEF CollapseLevel
<1>2. levels \in Seq(Seq(Ref)) /\ n + 1 \in DOMAIN levels /\ levels # <<>>
    <2>1. levels \in Seq(Seq(Ref))
        BY DEF TreeInv, LevelsInv
    <2>2. n + 1 \in 1 .. L
        OBVIOUS
    <2> QED  BY <2>1, <2>2
<1>3. levels' \in Seq(Seq(Ref)) /\ Len(levels') = L /\ levels' # <<>>
    <2>1. <<>> \in Seq(Ref)
        OBVIOUS
    <2>2. levels' \in Seq(Seq(Ref)) /\ Len(levels') = L
        BY <1>1, <1>2, <2>1
    <2>3. L # 0
        OBVIOUS
    <2> QED  BY <2>2, <2>3
<1>4. PICK s, e : s = Stored /\ e = Len(s) /\ Stored' = s
    <2>1. Stored' = Stored
        BY <1>2, <1>3 DEF Stored, Written
    <2> QED  BY <2>1
<1>5. Layers(F, levels, s, c) /\ c[0] = e
    BY <1>4 DEF WriterHas
<1>6. PICK x : x = Branch(n + 1, levels[n + 1])
    OBVIOUS
<1>7. x.node = n + 1 /\ x.refs = levels[n + 1] /\ n + 1 # 0
    BY <1>6 DEF Branch
<1>8. PICK new : new = levels'
    OBVIOUS
<1>9. PICK d : /\ Layers(F, new, s, d) /\ d[0] = c[n + 1] /\ Flat(d, n + 1)
               /\ \A m \in n + 1 .. L : d[m] = c[m]
               /\ Span(F, levels[n + 1], s, d[0], c[0])
    BY <1>1, <1>2, <1>5, <1>8, LayersCollapsed
<1>10. Stands(F, x, s, d[0], e)
    BY <1>5, <1>7, <1>9 DEF Stands
<1>11. d[0] <= e
    <2>1. levels[n + 1] \in Seq(Ref)
        BY <1>2
    <2>2. Len(levels[n + 1]) \in Nat
        BY <2>1
    <2> QED  BY <1>5, <1>9, <2>2, SpanEnds
<1>12. pending' # <<>> /\ pending'[1] = x
    BY <1>1, <1>6
<1> QED  BY <1>3, <1>4, <1>7, <1>8, <1>9, <1>10, <1>11, <1>12

\* The loop of hash().
LEMMA HashCollapseKeepsText ==
    ASSUME TreeInv, BlocksInv, HashCollapse, NEW F, NEW c, WriterHas(F, c)
    PROVE  BlocksInv' /\ \E d : WriterHas(F, d)'
<1>1. /\ pc = "collapse" /\ pending = <<>> /\ next < top /\ CollapseLevel(levels, next)
      /\ next' = next + 1 /\ top' = top /\ pc' = pc /\ blocks' = blocks /\ chunks' = chunks
    BY DEF HashCollapse
<1>2. /\ top \in Nat /\ top < Len(levels) /\ next \in Nat
      /\ levels \in Seq(Seq(Ref))
    BY <1>1 DEF TreeInv, TopInv, LevelsInv
<1>3. PICK L \in Nat, n \in Nat : L = Len(levels) /\ n = next /\ n + 1 < L
    BY <1>1, <1>2
<1>4. Flat(c, n) /\ (L = top + 1 \/ OnTop(c, L, pending, Len(Stored))) /\ c[0] = Len(Stored)
    BY <1>1, <1>3 DEF WriterHas
<1>5. n < L /\ CollapseLevel(levels, n)
    BY <1>1, <1>3
<1>6. PICK d, x :
        /\ pending' # <<>> /\ pending'[1] = x /\ x.node = n + 1
        /\ Stored' = Stored /\ Len(levels') = L /\ levels' # <<>>
        /\ Layers(F, levels', Stored, d) /\ d[0] <= Len(Stored)
        /\ Stands(F, x, Stored, d[0], Len(Stored))
        /\ Flat(d, n + 1) /\ d[0] = c[n + 1]
        /\ \A m \in n + 1 .. L : d[m] = c[m]
    BY <1>1, <1>3, <1>4, <1>5, HashCollapsesText
<1>7. ASSUME OnTop(c, L, pending, Len(Stored)) PROVE OnTop(d, L, pending', Len(Stored))
    <2>1. n + 1 \in 0 .. L - 1
        BY <1>3
    <2>2. \A m \in 0 .. L - 1 : c[m] = c[0]
        BY <1>7 DEF OnTop
    <2>3. d[0] = c[0] /\ d[0] = Len(Stored)
        BY <1>4, <1>6, <2>1, <2>2
    <2>4. ASSUME NEW m \in 0 .. L - 1 PROVE d[m] = d[0]
        <3>1. CASE m <= n + 1
            <4>1. m \in 0 .. n + 1
                BY <3>1
            <4> QED  BY <1>6, <4>1 DEF Flat
        <3>2. CASE m > n + 1
            <4>1. m \in n + 1 .. L
                BY <3>2
            <4>2. d[m] = c[m] /\ c[m] = c[0]
                BY <1>6, <2>2, <4>1
            <4> QED  BY <2>3, <4>2
        <3> QED  BY <3>1, <3>2
    <2> QED  BY <2>3, <2>4 DEF OnTop
<1>8. BlocksInv'
    BY <1>1, <1>6 DEF BlocksInv
<1>9. next' = n + 1 /\ next' <= n + 1
    BY <1>1, <1>3
<1>10. Content(F, chunks')
    BY <1>1 DEF WriterHas
<1>11. WriterHas(F, d)'
    BY <1>1, <1>4, <1>6, <1>7, <1>9, <1>10 DEF WriterHas
<1> QED  BY <1>8, <1>11

\* The top level: everything is on it, or pending as what will be above it.
LEMMA HashTopKeepsText ==
    ASSUME TreeInv, BlocksInv, HashTop, NEW F, NEW c, WriterHas(F, c)
    PROVE  BlocksInv' /\ \E d : WriterHas(F, d)'
<1>1. /\ pc = "collapse" /\ pending = <<>> /\ next = top /\ pc' = "root"
      /\ IF NeedsRoot THEN CollapseLevel(levels, TopLevel) ELSE UNCHANGED <<levels, pending>>
      /\ blocks' = blocks /\ chunks' = chunks
    BY DEF HashTop
<1>2. /\ top \in Nat /\ top < Len(levels) /\ levels \in Seq(Seq(Ref))
      /\ levels # <<>> /\ levels[Len(levels)] # <<>>
    BY <1>1 DEF TreeInv, TopInv, LevelsInv
<1>3. PICK L \in Nat, n \in Nat : L = Len(levels) /\ n = L - 1 /\ n = TopLevel /\ L = n + 1
    BY <1>2 DEF TopLevel
<1>4. c[0] = Len(Stored) /\ Flat(c, next) /\ (L = top + 1 \/ OnTop(c, L, pending, Len(Stored)))
    BY <1>1, <1>3 DEF WriterHas
<1>5. Flat(c, n) /\ n < L
    <2>1. CASE L = top + 1
        BY <1>1, <1>2, <1>3, <1>4, <2>1
    <2>2. CASE OnTop(c, L, pending, Len(Stored))
        BY <1>3, <2>2 DEF OnTop, Flat
    <2> QED  BY <1>3, <1>4, <2>1, <2>2
<1>6. CASE NeedsRoot
    <2>1. CollapseLevel(levels, n)
        BY <1>1, <1>3, <1>6
    <2>2. PICK d, x :
            /\ pending' # <<>> /\ pending'[1] = x /\ x.node = n + 1
            /\ Stored' = Stored /\ Len(levels') = L /\ levels' # <<>>
            /\ Layers(F, levels', Stored, d) /\ d[0] <= Len(Stored)
            /\ Stands(F, x, Stored, d[0], Len(Stored))
            /\ Flat(d, n + 1) /\ d[0] = c[n + 1]
            /\ \A m \in n + 1 .. L : d[m] = c[m]
        BY <1>1, <1>3, <1>5, <2>1, HashCollapsesText
    <2>3. OnTop(d, L, pending', Len(Stored))
        <3>1. \A m \in 0 .. L - 1 : m \in 0 .. n + 1
            BY <1>3
        <3>2. ~(x.node + 1 < L)
            BY <1>3, <2>2
        <3> QED  BY <2>2, <3>1, <3>2 DEF OnTop, Flat
    <2>4. BlocksInv'
        BY <1>1, <1>3, <2>2 DEF BlocksInv
    <2>5. Content(F, chunks')
        BY <1>1 DEF WriterHas
    <2>6. WriterHas(F, d)'
        BY <1>1, <2>2, <2>3, <2>5 DEF WriterHas
    <2> QED  BY <2>4, <2>6
<1>7. CASE ~NeedsRoot
    <2>1. levels' = levels /\ pending' = pending /\ Stored' = Stored
        BY <1>1, <1>7 DEF Stored, Written
    <2>2. Len(levels[L]) = 1
        <3>0. levels[L] \in Seq(Ref) /\ levels[L] # <<>>
            <4>0. levels \in Seq(Seq(Ref))
                BY <1>2
            <4>1. L = Len(levels) /\ L # 0
                BY <1>3
            <4>2. L \in DOMAIN levels
                BY <4>0, <4>1
            <4> QED  BY <1>2, <4>0, <4>1, <4>2
        <3>1. PICK q \in Seq(Ref) : q = levels[L] /\ q # <<>>
            BY <3>0
        <3>2. ~(Len(q) > 1)
            BY <1>3, <1>7, <3>1 DEF NeedsRoot
        <3>3. PICK k \in Nat : k = Len(q) /\ k # 0
            BY <3>1
        <3>4. k = 1
            BY <3>2, <3>3
        <3> QED  BY <3>1, <3>3, <3>4
    <2>3. OnTop(c, L, <<>>, Len(Stored))
        BY <1>3, <1>5 DEF OnTop, Flat
    <2>4. BlocksInv'
        <3>1. pending' = <<>> /\ Len(levels'[Len(levels')]) = 1 /\ levels' # <<>>
            BY <1>1, <1>2, <1>3, <2>1, <2>2
        <3> QED  BY <1>1, <3>1 DEF BlocksInv
    <2>5. WriterHas(F, c)'
        BY <1>1, <1>3, <2>1, <2>3 DEF WriterHas
    <2> QED  BY <2>4, <2>5
<1> QED  BY <1>6, <1>7

\* hash() returns the one reference of the top level, which stands for it all.
LEMMA HashReturnKeepsText ==
    ASSUME TreeInv, BlocksInv, HashReturn, NEW F, NEW c, WriterHas(F, c)
    PROVE  BlocksInv' /\ WriterHas(F, c)'
<1>1. /\ pc = "root" /\ pending = <<>> /\ pc' = "done" /\ root' = <<Last(Last(levels))>>
      /\ blocks' = blocks /\ chunks' = chunks /\ levels' = levels /\ pending' = pending
    BY DEF HashReturn
<1>2. /\ levels \in Seq(Seq(Ref)) /\ levels # <<>> /\ levels[Len(levels)] # <<>>
      /\ Len(levels[Len(levels)]) = 1
    BY <1>1 DEF TreeInv, TopInv, LevelsInv, BlocksInv
<1>3. PICK L \in Nat : L = Len(levels) /\ L # 0 /\ DOMAIN levels = 1 .. L
    BY <1>2
<1>4. PICK q \in Seq(Ref) : q = levels[L] /\ Len(q) = 1 /\ q # <<>>
    BY <1>2, <1>3
<1>5. root' = <<q[1]>> /\ root'[1] = q[1]
    <2>1. Last(levels) = levels[L] /\ Last(q) = q[1]
        BY <1>2, <1>3, <1>4, FrontFacts
    <2> QED  BY <1>1, <1>4, <2>1
<1>6. PICK r \in Ref : r = q[1]
    BY <1>4
<1>7. r.id \in DOMAIN chunks
    <2>1. 1 \in DOMAIN q /\ L \in DOMAIN levels
        BY <1>3, <1>4
    <2> QED  BY <1>4, <1>6, <2>1 DEF TreeInv, LevelsInv, Names
<1>8. PICK s \in Seq(Data), e \in Nat : s = Stored /\ e = Len(s)
    BY StoredIsSeq
<1>9. /\ Layers(F, levels, s, c) /\ c[0] = e /\ Content(F, chunks)
      /\ \A m \in 0 .. L - 1 : c[m] = c[0]
    BY <1>1, <1>3, <1>8 DEF WriterHas, OnTop
<1>10. c[L] = 0 /\ c[L - 1] = e
    <2>1. L - 1 \in 0 .. L - 1
        BY <1>3
    <2>2. c[L] = 0
        BY <1>3, <1>9 DEF Layers
    <2> QED  BY <1>9, <2>1, <2>2
<1>11. Span(F, q, s, 0, e)
    <2>1. L \in 1 .. L
        BY <1>3
    <2>2. Span(F, levels[L], s, c[L], c[L - 1])
        BY <1>3, <1>9, <2>1 DEF Layers
    <2> QED  BY <1>4, <1>10, <2>2
<1>12. Covers(F, r, s, 0, e)
    BY <1>4, <1>6, <1>11, SpanOne
<1>13. F[r.id] = s
    <2>1. PICK t \in Seq(Data) : t = F[r.id]
        BY <1>7, <1>9 DEF Content
    <2>2. e = Len(t) /\ \A j \in 1 .. Len(t) : s[j] = t[j]
        BY <1>12, <2>1 DEF Covers
    <2>3. s = [j \in 1 .. e |-> s[j]] /\ t = [j \in 1 .. e |-> t[j]]
        <3>1. s \in [1 .. e -> Data]
            BY <1>8
        <3>2. t \in [1 .. e -> Data]
            BY <2>2
        <3> QED  BY <3>1, <3>2
    <2>4. \A j \in 1 .. e : s[j] = t[j]
        BY <2>2
    <2>5. s = t
        BY <2>3, <2>4
    <2> QED  BY <2>1, <2>5
<1>14. Stored' = Stored
    BY <1>1 DEF Stored, Written
<1>15. BlocksInv'
    BY <1>1 DEF BlocksInv
<1>16. WriterHas(F, c)'
    BY <1>1, <1>5, <1>6, <1>8, <1>13, <1>14 DEF WriterHas
<1> QED  BY <1>15, <1>16

-----------------------------------------------------------------------------
\* The reader.

\* q cuts w into what was read, which is bs, and what each entry of the stack
\* will give, the top first.
Walk(F, st, w, bs, q) ==
    /\ q \in [0 .. Len(st) -> Nat] /\ q[0] = Len(w)
    /\ \A k \in 0 .. Len(st) : q[k] <= q[0]
    /\ \A k \in 1 .. Len(st) : IF st[k].leave THEN q[k - 1] = q[k]
                               ELSE Covers(F, st[k].ref, w, q[k], q[k - 1])
    /\ bs \in Seq(Data) /\ q[Len(st)] = Len(bs)
    /\ \A j \in 1 .. Len(bs) : bs[j] = w[j]

ReaderHas(F) ==
    pc \in {"read", "end"} => \E q : Walk(F, stack, Written, LeafsOf(chunks, out), q)

\* An entry leaves the stack: as much more must have been read.
LEMMA WalkPops ==
    ASSUME NEW F, NEW st \in Seq(Frame), NEW w, NEW bs, NEW q, Walk(F, st, w, bs, q),
           st # <<>>, NEW more \in Seq(Data), q[Len(st) - 1] = Len(more),
           \A j \in 1 .. Len(more) : more[j] = w[j]
    PROVE  \E p : Walk(F, Front(st), w, more, p)
<1>1. PICK L \in Nat \ {0} : L = Len(st)
    OBVIOUS
<1>2. PICK fr : fr = Front(st)
    OBVIOUS
<1>3. Len(fr) = L - 1 /\ \A k \in 1 .. L - 1 : fr[k] = st[k]
    <2>1. fr \in Seq(Frame) /\ DOMAIN fr = 1 .. L - 1 /\ \A k \in 1 .. L - 1 : fr[k] = st[k]
        BY <1>1, <1>2, FrontFacts
    <2> QED  BY <1>1, <2>1
<1> DEFINE p == [k \in 0 .. L - 1 |-> q[k]]
<1>4. p = [k \in 0 .. L - 1 |-> p[k]] /\ \A k \in 0 .. L - 1 : p[k] = q[k] /\ k \in 0 .. L
    BY <1>1
<1> HIDE DEF p
<1>5. /\ q \in [0 .. L -> Nat] /\ q[0] = Len(w)
      /\ \A k \in 0 .. L : q[k] <= q[0]
      /\ \A k \in 1 .. L : IF st[k].leave THEN q[k - 1] = q[k]
                           ELSE Covers(F, st[k].ref, w, q[k], q[k - 1])
    BY <1>1 DEF Walk
<1>6. p \in [0 .. L - 1 -> Nat]
    <2>1. \A k \in 0 .. L - 1 : p[k] \in Nat
        BY <1>4, <1>5
    <2> QED  BY <1>4, <2>1
<1>7. 0 \in 0 .. L - 1 /\ L - 1 \in 0 .. L - 1
    BY <1>1
<1>8. p[0] = q[0] /\ p[L - 1] = Len(more)
    BY <1>1, <1>4, <1>7
<1>9. \A k \in 0 .. L - 1 : p[k] <= p[0]
    BY <1>4, <1>5, <1>8
<1>10. ASSUME NEW k \in 1 .. L - 1
       PROVE  IF fr[k].leave THEN p[k - 1] = p[k] ELSE Covers(F, fr[k].ref, w, p[k], p[k - 1])
    <2>1. k \in 1 .. L /\ k \in 0 .. L - 1 /\ k - 1 \in 0 .. L - 1
        BY <1>1
    <2>2. p[k] = q[k] /\ p[k - 1] = q[k - 1] /\ fr[k] = st[k]
        BY <1>3, <1>4, <2>1
    <2> QED  BY <1>5, <2>1, <2>2
<1>11. Walk(F, fr, w, more, p)
    BY <1>3, <1>5, <1>6, <1>8, <1>9, <1>10 DEF Walk
<1> QED  BY <1>2, <1>11

\* The walker begins at the root, which stands for everything.
LEMMA WalkBegins ==
    ASSUME NEW F, NEW r \in Ref, NEW w \in Seq(Data), F[r.id] = w
    PROVE  \E q : Walk(F, <<Enter(r)>>, w, <<>>, q)
<1>1. PICK n \in Nat : n = Len(w)
    OBVIOUS
<1> DEFINE q == [k \in 0 .. 1 |-> IF k = 0 THEN n ELSE 0]
<1>2. q \in [0 .. 1 -> Nat] /\ q[0] = n /\ q[1] = 0 /\ \A k \in 0 .. 1 : q[k] <= q[0]
    BY <1>1
<1> HIDE DEF q
<1>3. PICK x : x = Enter(r)
    OBVIOUS
<1>4. ~x.leave /\ x.ref = r
    BY <1>3 DEF Enter
<1>5. PICK st : st = <<x>>
    OBVIOUS
<1>6. Len(st) = 1 /\ st[1] = x
    BY <1>5
<1>7. Covers(F, r, w, 0, n)
    <2>1. \A j \in 1 .. Len(w) : w[0 + j] = w[j]
        BY <1>1
    <2>2. n = 0 + Len(w) /\ Len(w) \in Nat
        BY <1>1
    <2> QED  BY <2>1, <2>2 DEF Covers
<1>8. <<>> \in Seq(Data) /\ Len(<<>>) = 0
    OBVIOUS
<1>9. ASSUME NEW k \in 1 .. 1
      PROVE  IF st[k].leave THEN q[k - 1] = q[k] ELSE Covers(F, st[k].ref, w, q[k], q[k - 1])
    <2>1. k = 1 /\ k - 1 = 0
        OBVIOUS
    <2> QED  BY <1>2, <1>4, <1>6, <1>7, <2>1
<1>10. \A j \in 1 .. Len(<<>>) : <<>>[j] = w[j]
    BY <1>8
<1>11. Walk(F, st, w, <<>>, q)
    BY <1>1, <1>2, <1>6, <1>8, <1>9, <1>10 DEF Walk
<1> QED  BY <1>3, <1>5, <1>11

\* s is st with its top replaced by the references to enter, the first on top.
Opened(s, st, refs, L, n) ==
    /\ Len(s) = L + n
    /\ \A k \in 1 .. L - 1 : s[k] = st[k]
    /\ s[L].leave
    /\ \A i \in 1 .. n : ~s[L + i].leave /\ s[L + i].ref = refs[(n - i) + 1]

\* A branch is opened: its children give what it would have given.
LEMMA WalkOpens ==
    ASSUME NEW F, NEW st \in Seq(Frame), NEW w, NEW bs, NEW q, Walk(F, st, w, bs, q),
           NEW L \in Nat \ {0}, L = Len(st), NEW r, r = st[L].ref, ~st[L].leave,
           NEW refs \in Seq(Ref), NEW n \in Nat, n = Len(refs),
           Span(F, refs, F[r.id], 0, Len(F[r.id])),
           NEW s, Opened(s, st, refs, L, n)
    PROVE  \E p : Walk(F, s, w, bs, p)
<1>0. /\ Len(s) = L + n /\ \A k \in 1 .. L - 1 : s[k] = st[k]
      /\ s[L].leave /\ \A i \in 1 .. n : ~s[L + i].leave /\ s[L + i].ref = refs[(n - i) + 1]
    BY DEF Opened
<1>1. /\ q \in [0 .. L -> Nat] /\ q[0] = Len(w)
      /\ \A k \in 0 .. L : q[k] <= q[0]
      /\ \A k \in 1 .. L : IF st[k].leave THEN q[k - 1] = q[k]
                           ELSE Covers(F, st[k].ref, w, q[k], q[k - 1])
      /\ bs \in Seq(Data) /\ q[L] = Len(bs)
      /\ \A j \in 1 .. Len(bs) : bs[j] = w[j]
    BY DEF Walk
<1>2. PICK t, m : t = F[r.id] /\ m = Len(t)
    OBVIOUS
<1>3. /\ m \in Nat /\ q[L - 1] = q[L] + m
      /\ \A j \in 1 .. m : w[q[L] + j] = t[j]
    <2>1. L \in 1 .. L
        OBVIOUS
    <2>2. Covers(F, r, w, q[L], q[L - 1])
        BY <1>1, <2>1
    <2> QED  BY <1>2, <2>2 DEF Covers
<1>4. PICK c : Cuts(F, refs, t, c) /\ c[0] = 0 /\ c[n] = m
    BY <1>2 DEF Span
<1>5. /\ c \in [0 .. n -> Nat] /\ \A i, j \in 0 .. n : i <= j => c[i] <= c[j]
      /\ \A k \in 1 .. n : Covers(F, refs[k], t, c[k - 1], c[k])
    BY <1>4 DEF Cuts
<1>6. PICK a \in Nat : a = q[L]
    BY <1>1
<1> DEFINE p == [k \in 0 .. L + n |-> IF k < L THEN q[k] ELSE a + c[n - (k - L)]]
<1>7. /\ p = [k \in 0 .. L + n |-> p[k]]
      /\ \A k \in 0 .. L - 1 : p[k] = q[k] /\ k \in 0 .. L /\ k \in 0 .. L + n
    OBVIOUS
<1>8. \A i \in 0 .. n : p[L + i] = a + c[n - i] /\ n - i \in 0 .. n
    <2>1. ASSUME NEW i \in 0 .. n PROVE p[L + i] = a + c[n - i] /\ n - i \in 0 .. n
        <3>1. L + i \in 0 .. L + n /\ ~(L + i < L) /\ n - (L + i - L) = n - i /\ n - i \in 0 .. n
            OBVIOUS
        <3> QED  BY <3>1
    <2> QED  BY <2>1
<1> HIDE DEF p
<1>9. ASSUME NEW k \in 0 .. L + n, k \notin 0 .. L - 1
      PROVE  \E i \in 0 .. n : k = L + i
    <2>1. k - L \in 0 .. n /\ k = L + (k - L)
        BY <1>9
    <2> QED  BY <2>1
<1>10. \A i \in 0 .. n : c[n - i] \in Nat /\ c[n - i] <= m
    <2>1. ASSUME NEW i \in 0 .. n PROVE c[n - i] \in Nat /\ c[n - i] <= m
        <3>1. n - i \in 0 .. n /\ n \in 0 .. n /\ n - i <= n
            OBVIOUS
        <3> QED  BY <1>4, <1>5, <3>1
    <2> QED  BY <2>1
<1>11. p[0] = q[0] /\ q[0] \in Nat
    <2>1. 0 \in 0 .. L - 1 /\ 0 \in 0 .. L
        OBVIOUS
    <2> QED  BY <1>1, <1>7, <2>1
<1>12. ASSUME NEW k \in 0 .. L + n PROVE p[k] \in Nat /\ p[k] <= p[0]
    <2>1. CASE k \in 0 .. L - 1
        BY <1>1, <1>7, <1>11, <2>1
    <2>2. CASE k \notin 0 .. L - 1
        <3>1. PICK i \in 0 .. n : k = L + i
            BY <1>9, <2>2
        <3>2. p[k] = a + c[n - i] /\ c[n - i] \in Nat /\ c[n - i] <= m
            BY <1>8, <1>10, <3>1
        <3>3. L - 1 \in 0 .. L
            OBVIOUS
        <3>4. q[L - 1] = a + m /\ q[L - 1] <= q[0]
            BY <1>1, <1>3, <1>6, <3>3
        <3>5. PICK u \in Nat : u = c[n - i] /\ p[k] = a + u /\ u <= m
            BY <3>2
        <3>6. PICK v \in Nat : v = p[0] /\ a + m <= v
            BY <1>11, <3>4
        <3>7. a + u \in Nat /\ a + u <= v
            <4>1. m \in Nat /\ u <= m
                BY <1>3, <3>5
            <4>2. a + m <= v
                BY <3>6
            <4> QED  BY <4>1, <4>2
        <3> QED  BY <3>5, <3>6, <3>7
    <2> QED  BY <2>1, <2>2
<1>13. p \in [0 .. L + n -> Nat]
    BY <1>7, <1>12
<1>14. p[L + n] = Len(bs)
    <2>1. n \in 0 .. n /\ n - n = 0
        OBVIOUS
    <2>2. p[L + n] = a + c[n - n]
        BY <1>8, <2>1
    <2>3. p[L + n] = a
        BY <1>4, <2>1, <2>2
    <2> QED  BY <1>1, <1>6, <2>3
<1>15. ASSUME NEW k \in 1 .. L + n
       PROVE  IF s[k].leave THEN p[k - 1] = p[k] ELSE Covers(F, s[k].ref, w, p[k], p[k - 1])
    <2>1. CASE k \in 1 .. L - 1
        <3>1. k \in 1 .. L /\ k \in 0 .. L - 1 /\ k - 1 \in 0 .. L - 1
            BY <2>1
        <3>2. p[k] = q[k] /\ p[k - 1] = q[k - 1] /\ s[k] = st[k]
            BY <1>0, <1>7, <2>1, <3>1
        <3> QED  BY <1>1, <3>1, <3>2
    <2>2. CASE k = L
        <3>1. L - 1 \in 0 .. L - 1 /\ 0 \in 0 .. n /\ L + 0 = L /\ n - 0 = n
            OBVIOUS
        <3>2. p[L] = a + m /\ p[L - 1] = q[L - 1]
            BY <1>4, <1>7, <1>8, <3>1
        <3> QED  BY <1>0, <1>3, <1>6, <2>2, <3>2
    <2>3. CASE k > L
        <3>1. PICK i \in 1 .. n : k = L + i
            <4>1. k - L \in 1 .. n /\ k = L + (k - L)
                BY <2>3
            <4> QED  BY <4>1
        <3>2. PICK h \in 1 .. n : h = (n - i) + 1
            <4>1. (n - i) + 1 \in 1 .. n
                OBVIOUS
            <4> QED  BY <4>1
        <3>3. /\ n - i = h - 1 /\ n - (i - 1) = h /\ i \in 0 .. n /\ i - 1 \in 0 .. n
              /\ k - 1 = L + (i - 1)
            BY <3>1, <3>2
        <3>4. p[k] = a + c[h - 1] /\ p[k - 1] = a + c[h]
            <4>1. p[L + i] = a + c[n - i]
                BY <1>8, <3>3
            <4>2. p[L + (i - 1)] = a + c[n - (i - 1)]
                BY <1>8, <3>3
            <4> QED  BY <3>1, <3>3, <4>1, <4>2
        <3>5. Covers(F, refs[h], t, c[h - 1], c[h])
            BY <1>5
        <3>6. PICK u, l : u = F[refs[h].id] /\ l = Len(u)
            OBVIOUS
        <3>7. l \in Nat /\ c[h] = c[h - 1] + l /\ \A j \in 1 .. l : t[c[h - 1] + j] = u[j]
            BY <3>5, <3>6 DEF Covers
        <3>8. c[h - 1] \in Nat /\ c[h] \in Nat /\ c[h] <= m
            <4>1. h - 1 \in 0 .. n /\ h \in 0 .. n /\ n \in 0 .. n /\ h <= n
                OBVIOUS
            <4> QED  BY <1>4, <1>5, <4>1
        <3>9. PICK e \in Nat : e = c[h - 1]
            BY <3>8
        <3>10. ASSUME NEW j \in 1 .. l PROVE w[p[k] + j] = u[j]
            <4>1. PICK g \in Nat : g = e + j
                OBVIOUS
            <4>2. g \in 1 .. m
                <5>1. j \in Nat /\ 1 <= j /\ j <= l
                    BY <3>7
                <5>2. l \in Nat /\ m \in Nat /\ e + l <= m
                    BY <1>3, <3>7, <3>8, <3>9
                <5>3. 1 <= g /\ g <= m
                    BY <4>1, <5>1, <5>2
                <5> QED  BY <5>2, <5>3
            <4>3. w[a + g] = t[g]
                BY <1>3, <1>6, <4>2
            <4>4. t[e + j] = u[j]
                BY <3>7, <3>9
            <4>5. p[k] + j = a + g
                <5>1. p[k] = a + e /\ j \in Nat
                    BY <3>4, <3>7, <3>9
                <5> QED  BY <4>1, <5>1
            <4> QED  BY <4>1, <4>3, <4>4, <4>5
        <3>11. p[k - 1] = p[k] + l
            BY <3>4, <3>7, <3>8
        <3>12. Covers(F, refs[h], w, p[k], p[k - 1])
            BY <3>6, <3>7, <3>10, <3>11 DEF Covers
        <3>13. ~s[k].leave /\ s[k].ref = refs[h]
            BY <1>0, <3>1, <3>2
        <3> QED  BY <3>12, <3>13
    <2> QED  BY <2>1, <2>2, <2>3
<1>16. Walk(F, s, w, bs, p)
    BY <1>0, <1>1, <1>11, <1>12, <1>13, <1>14, <1>15 DEF Walk
<1> QED  BY <1>16

\* The walker changes nothing of what was written.
LEMMA WalkerKeepsText ==
    ASSUME BlocksInv, NEW F, NEW c, WriterHas(F, c), UNCHANGED writerVars,
           pc \in {"done", "read"}, pc' \in {"read", "end"}
    PROVE  BlocksInv' /\ WriterHas(F, c)' /\ Written' = Written /\ chunks' = chunks
<1>1. /\ blocks' = blocks /\ chunks' = chunks /\ levels' = levels /\ pending' = pending
      /\ root' = root
    BY DEF writerVars
<1>2. Stored' = Stored /\ Written' = Written
    BY <1>1 DEF Stored, Written
<1>3. BlocksInv'
    BY <1>1 DEF BlocksInv
<1>4. WriterHas(F, c)'
    BY <1>1, <1>2 DEF WriterHas
<1> QED  BY <1>1, <1>2, <1>3, <1>4

\* The walk begins.
LEMMA WalkerNewReads ==
    ASSUME TreeInv, BlocksInv, NEW v, WalkerNew(v), NEW F, NEW c, WriterHas(F, c)
    PROVE  ReaderHas(F)'
<1>1. /\ pc = "done" /\ stack' = <<Enter(root[1])>> /\ out' = <<>> /\ pc' = "read"
      /\ UNCHANGED writerVars
    BY DEF WalkerNew
<1>2. Written' = Written /\ chunks' = chunks
    BY <1>1, WalkerKeepsText
<1>3. root \in Seq(Ref) /\ Len(root) = 1 /\ (levels # <<>> \/ pending # <<>>)
    BY <1>1 DEF TreeInv, TopInv
<1>4. PICK r \in Ref : r = root[1]
    BY <1>3
<1>5. PICK w \in Seq(Data) : w = Written
    BY StoredIsSeq
<1>6. F[r.id] = w
    BY <1>1, <1>3, <1>4, <1>5 DEF WriterHas, Stored
<1>7. PICK q : Walk(F, <<Enter(r)>>, w, <<>>, q)
    BY <1>6, WalkBegins
<1>8. LeafsOf(chunks', out') = <<>>
    BY <1>1, LeafsOfNothing
<1>9. Walk(F, stack', Written', LeafsOf(chunks', out'), q)
    BY <1>1, <1>2, <1>4, <1>5, <1>7, <1>8
<1> QED  BY <1>9 DEF ReaderHas

\* The end of a branch gives nothing.
LEMMA LeaveNodeReads ==
    ASSUME TreeInv, BlocksInv, LeaveNode, NEW F, NEW c, WriterHas(F, c), ReaderHas(F)
    PROVE  ReaderHas(F)'
<1>1. /\ pc = "read" /\ stack # <<>> /\ Last(stack).leave /\ stack' = Front(stack)
      /\ UNCHANGED writerVars /\ pc' = pc /\ out' = out
    BY DEF LeaveNode
<1>2. Written' = Written /\ chunks' = chunks
    BY <1>1, WalkerKeepsText
<1>3. stack \in Seq(Frame)
    BY DEF TreeInv, ReaderInv, Frame
<1>4. PICK L \in Nat \ {0} : L = Len(stack) /\ stack[L].leave
    <2>1. Len(stack) \in Nat \ {0} /\ Last(stack) = stack[Len(stack)]
        BY <1>1, <1>3, FrontFacts
    <2> QED  BY <1>1, <2>1
<1>5. PICK w, bs : w = Written /\ bs = LeafsOf(chunks, out)
    OBVIOUS
<1>6. PICK q : Walk(F, stack, w, bs, q)
    BY <1>1, <1>5 DEF ReaderHas
<1>7. bs \in Seq(Data) /\ q[L] = Len(bs) /\ \A j \in 1 .. Len(bs) : bs[j] = w[j]
    BY <1>4, <1>6 DEF Walk
<1>8. q[L - 1] = q[L]
    <2>1. L \in 1 .. L
        OBVIOUS
    <2> QED  BY <1>4, <1>6, <2>1 DEF Walk
<1>9. q[Len(stack) - 1] = Len(bs)
    BY <1>4, <1>7, <1>8
<1>10. PICK p : Walk(F, Front(stack), w, bs, p)
    BY <1>1, <1>3, <1>6, <1>7, <1>9, WalkPops
<1>11. Walk(F, stack', Written', LeafsOf(chunks', out'), p)
    BY <1>1, <1>2, <1>5, <1>10
<1> QED  BY <1>11 DEF ReaderHas

\* A leaf gives its block.
LEMMA EnterLeafReads ==
    ASSUME TreeInv, BlocksInv, EnterLeaf, NEW F, NEW c, WriterHas(F, c), ReaderHas(F)
    PROVE  ReaderHas(F)'
<1>0. PICK r : r = Last(stack).ref
    OBVIOUS
<1>1. /\ pc = "read" /\ stack # <<>> /\ ~Last(stack).leave /\ r.node = 0
      /\ stack' = Front(stack) /\ out' = Append(out, r)
      /\ UNCHANGED writerVars /\ pc' = pc
    BY <1>0 DEF EnterLeaf
<1>2. Written' = Written /\ chunks' = chunks
    BY <1>1, WalkerKeepsText
<1>3. stack \in Seq(Frame) /\ r \in Ref /\ Names(r) /\ chunks[r.id] \in Chunk
    BY <1>0, <1>1, TopFrame
<1>4. PICK L \in Nat \ {0} : L = Len(stack) /\ ~stack[L].leave /\ stack[L].ref = r
    <2>1. Len(stack) \in Nat \ {0} /\ Last(stack) = stack[Len(stack)]
        BY <1>1, <1>3, FrontFacts
    <2> QED  BY <1>0, <1>1, <2>1
<1>5. PICK w, bs : w = Written /\ bs = LeafsOf(chunks, out)
    OBVIOUS
<1>6. PICK q : Walk(F, stack, w, bs, q)
    BY <1>1, <1>5 DEF ReaderHas
<1>7. bs \in Seq(Data) /\ q[L] = Len(bs) /\ \A j \in 1 .. Len(bs) : bs[j] = w[j]
    BY <1>4, <1>6 DEF Walk
<1>8. Covers(F, r, w, q[L], q[L - 1])
    <2>1. L \in 1 .. L
        OBVIOUS
    <2> QED  BY <1>4, <1>6, <2>1 DEF Walk
<1>9. PICK t \in Seq(Data), b \in Data :
         t = F[r.id] /\ b = chunks[r.id].block /\ Len(t) = 1 /\ t[1] = b
    <2>1. r.id \in DOMAIN chunks /\ chunks[r.id].node = 0
        BY <1>1, <1>3 DEF Names
    <2>2. F[r.id] \in Seq(Data) /\ Stands(F, chunks[r.id], F[r.id], 0, Len(F[r.id]))
        BY <2>1 DEF WriterHas, Content
    <2>3. Len(F[r.id]) = 1 /\ F[r.id][1] = chunks[r.id].block
        BY <2>1, <2>2 DEF Stands
    <2>4. F[r.id][1] \in Data
        BY <2>2, <2>3
    <2> QED  BY <2>2, <2>3, <2>4
<1>10. PICK n \in Nat : n = Len(bs)
    BY <1>7
<1>11. q[L - 1] = n + 1 /\ w[n + 1] = b
    <2>1. q[L - 1] = n + 1 /\ \A j \in 1 .. 1 : w[n + j] = t[j]
        BY <1>7, <1>8, <1>9, <1>10 DEF Covers
    <2>2. 1 \in 1 .. 1
        OBVIOUS
    <2>3. w[n + 1] = t[1]
        BY <2>1, <2>2
    <2> QED  BY <1>9, <2>1, <2>3
<1>12. b \in Data
    BY <1>9
<1>13. PICK more : more = Append(bs, b)
    OBVIOUS
<1>14. /\ more \in Seq(Data) /\ Len(more) = n + 1 /\ more[n + 1] = b
       /\ \A j \in 1 .. n : more[j] = bs[j]
    BY <1>7, <1>10, <1>12, <1>13, AppendFacts
<1>15. ASSUME NEW j \in 1 .. Len(more) PROVE more[j] = w[j]
    <2>1. CASE j \in 1 .. n
        BY <1>7, <1>10, <1>14, <2>1
    <2>2. CASE j = n + 1
        BY <1>11, <1>14, <2>2
    <2> QED  BY <1>14, <2>1, <2>2
<1>16. q[Len(stack) - 1] = Len(more)
    BY <1>4, <1>11, <1>14
<1>17. PICK p : Walk(F, Front(stack), w, more, p)
    BY <1>1, <1>3, <1>6, <1>14, <1>15, <1>16, WalkPops
<1>18. LeafsOf(chunks', out') = more
    <2>1. out \in Seq(Ref)
        BY DEF TreeInv, ReaderInv
    <2>2. LeafsOf(chunks, Append(out, r)) = Leaf1(chunks, r, LeafsOf(chunks, out))
        BY <1>3, <2>1, LeafsAppend
    <2> QED  BY <1>1, <1>2, <1>5, <1>9, <1>13, <2>2 DEF Leaf1
<1>19. Walk(F, stack', Written', LeafsOf(chunks', out'), p)
    BY <1>1, <1>2, <1>5, <1>17, <1>18
<1> QED  BY <1>19 DEF ReaderHas

\* What EnterBranch pushes, in its order.
LEMMA EntersOrder ==
    ASSUME NEW refs \in Seq(Ref), NEW n \in Nat, n = Len(refs), NEW i \in 1 .. n
    PROVE  Enters(refs)[i] = Enter(refs[(n - i) + 1])
<1>1. Reverse(refs) = [k \in 1 .. n |-> refs[(n - k) + 1]]
    BY DEF Reverse
<1>2. Enters(refs) = [k \in 1 .. n |-> Enter(refs[(n - k) + 1])]
    BY <1>1 DEF Enters
<1> QED  BY <1>2

\* A branch gives what its children give, in their order.
LEMMA EnterBranchReads ==
    ASSUME TreeInv, BlocksInv, EnterBranch, NEW F, NEW c, WriterHas(F, c), ReaderHas(F)
    PROVE  ReaderHas(F)'
<1>0. PICK r : r = Last(stack).ref
    OBVIOUS
<1>1. PICK refs : refs = chunks[r.id].refs
    OBVIOUS
<1>2. /\ pc = "read" /\ stack # <<>> /\ ~Last(stack).leave /\ r.node > 0
      /\ out' = IF visitor = "nodes" THEN Append(out, r) ELSE out
      /\ UNCHANGED writerVars /\ pc' = pc
      /\ stack' = Append(Front(stack), LeaveBranch(r)) \o Enters(refs)
    BY <1>0, <1>1, Zenon DEF EnterBranch, Enters
<1>3. Written' = Written /\ chunks' = chunks
    BY <1>2, WalkerKeepsText
<1>4. stack \in Seq(Frame) /\ r \in Ref /\ Names(r) /\ chunks[r.id] \in Chunk
    BY <1>0, <1>2, TopFrame
<1>5. refs \in Seq(Ref)
    BY <1>1, <1>4 DEF Chunk
<1>6. PICK n \in Nat : n = Len(refs)
    BY <1>5
<1>7. PICK L \in Nat \ {0} : L = Len(stack) /\ ~stack[L].leave /\ stack[L].ref = r
    <2>1. Len(stack) \in Nat \ {0} /\ Last(stack) = stack[Len(stack)]
        BY <1>2, <1>4, FrontFacts
    <2> QED  BY <1>0, <1>2, <2>1
<1>8. PICK w, bs : w = Written /\ bs = LeafsOf(chunks, out)
    OBVIOUS
<1>9. PICK q : Walk(F, stack, w, bs, q)
    BY <1>2, <1>8 DEF ReaderHas
<1>10. Span(F, refs, F[r.id], 0, Len(F[r.id]))
    <2>1. r.id \in DOMAIN chunks /\ chunks[r.id].node # 0
        BY <1>2, <1>4 DEF Names, Ref
    <2> QED  BY <1>1, <2>1 DEF WriterHas, Content, Stands
<1>11. PICK s : s = stack'
    OBVIOUS
<1>12. /\ s \in Seq(Frame) /\ Len(s) = L + n
       /\ \A k \in 1 .. L - 1 : s[k] = stack[k]
       /\ s[L] = LeaveBranch(r)
       /\ \A i \in 1 .. n : s[L + i] = Enter(refs[(n - i) + 1])
    <2>0. PICK p : p = Append(Front(stack), LeaveBranch(r))
        OBVIOUS
    <2>1. PICK es : es = Enters(refs)
        OBVIOUS
    <2>2. es \in Seq(Frame) /\ Len(es) = n
        BY <1>5, <1>6, <2>1, EntersFacts DEF IsEnters
    <2>3. LeaveBranch(r) \in Frame
        BY <1>4, FrameFacts
    <2>4. IsReplaced(p, stack, LeaveBranch(r), L)
        BY <1>2, <1>4, <1>7, <2>0, <2>3, ReplacedFacts
    <2>5. /\ p \in Seq(Frame) /\ Len(p) = L /\ p[L] = LeaveBranch(r)
          /\ \A k \in 1 .. L - 1 : p[k] = stack[k]
        BY <2>4 DEF IsReplaced
    <2>6. s = p \o es
        BY <1>2, <1>11, <2>0, <2>1
    <2>7. /\ s \in Seq(Frame) /\ Len(s) = L + n
          /\ \A k \in 1 .. L : s[k] = p[k]
          /\ \A k \in 1 .. n : s[L + k] = es[k]
        <3>1. p \in Seq(Frame) /\ es \in Seq(Frame)
            BY <2>2, <2>5
        <3>2. /\ p \o es \in Seq(Frame) /\ Len(p \o es) = Len(p) + Len(es)
              /\ \A k \in 1 .. Len(p) : (p \o es)[k] = p[k]
              /\ \A k \in 1 .. Len(es) : (p \o es)[Len(p) + k] = es[k]
            BY <3>1, ConcatFacts
        <3> QED  BY <2>2, <2>5, <2>6, <3>2
    <2>8. \A i \in 1 .. n : es[i] = Enter(refs[(n - i) + 1])
        BY <1>5, <1>6, <2>1, EntersOrder
    <2>9. L \in 1 .. L /\ \A k \in 1 .. L - 1 : k \in 1 .. L
        OBVIOUS
    <2> QED  BY <2>5, <2>7, <2>8, <2>9
<1>13. s[L].leave
    BY <1>4, <1>12, FrameFacts
<1>14. \A i \in 1 .. n : ~s[L + i].leave /\ s[L + i].ref = refs[(n - i) + 1]
    <2>1. \A x : ~Enter(x).leave /\ Enter(x).ref = x
        BY DEF Enter
    <2> QED  BY <1>12, <2>1
<1>15. Opened(s, stack, refs, L, n)
    BY <1>12, <1>13, <1>14 DEF Opened
<1>16. PICK p : Walk(F, s, w, bs, p)
    <2>1. r = stack[L].ref /\ ~stack[L].leave /\ L = Len(stack)
        BY <1>7
    <2> QED  BY <1>4, <1>5, <1>6, <1>9, <1>10, <1>15, <2>1, WalkOpens
<1>17. LeafsOf(chunks', out') = bs
    <2>1. out \in Seq(Ref)
        BY DEF TreeInv, ReaderInv
    <2>2. LeafsOf(chunks, Append(out, r)) = Leaf1(chunks, r, LeafsOf(chunks, out))
        BY <1>4, <2>1, LeafsAppend
    <2>3. r.node # 0
        BY <1>2, <1>4 DEF Ref
    <2>4. LeafsOf(chunks, Append(out, r)) = bs
        BY <1>8, <2>2, <2>3 DEF Leaf1
    <2> QED  BY <1>2, <1>3, <1>8, <2>4
<1>18. Walk(F, stack', Written', LeafsOf(chunks', out'), p)
    BY <1>3, <1>8, <1>11, <1>16, <1>17
<1> QED  BY <1>18 DEF ReaderHas

-----------------------------------------------------------------------------
\* Together.

TextInv == BlocksInv /\ \E F : (\E c : WriterHas(F, c)) /\ ReaderHas(F)

\* The empty tree has it.
LEMMA TreeInitHasText ==
    ASSUME TreeInit
    PROVE  TextInv
<1>1. /\ pc = "append" /\ blocks = <<>> /\ chunks = <<>> /\ levels = <<>> /\ pending = <<>>
    BY DEF TreeInit
<1>2. DOMAIN <<>> = {} /\ Len(<<>>) = 0 /\ \A S : <<>> \in Seq(S)
    OBVIOUS
<1>3. BlocksInv
    BY <1>1, <1>2 DEF BlocksInv
<1>4. Stored = <<>>
    BY <1>1 DEF Stored
<1> DEFINE F == [i \in {} |-> <<>>]
           c == [m \in 0 .. 0 |-> 0]
<1>5. Content(F, <<>>)
    <2>1. F \in [{} -> Seq(Data)]
        OBVIOUS
    <2> HIDE DEF F
    <2> QED  BY <1>2, <2>1 DEF Content
<1>6. c \in [0 .. 0 -> Nat] /\ c[0] = 0 /\ \A m \in 0 .. 0 : c[m] = 0
    OBVIOUS
<1> HIDE DEF F, c
<1>7. Layers(F, <<>>, <<>>, c)
    <2>1. \A i, j \in 0 .. 0 : c[j] <= c[i]
        BY <1>6
    <2> QED  BY <1>2, <1>6, <2>1 DEF Layers
<1>8. WriterHas(F, c)
    BY <1>1, <1>2, <1>4, <1>5, <1>6, <1>7 DEF WriterHas
<1>9. ReaderHas(F)
    BY <1>1 DEF ReaderHas
<1> QED  BY <1>3, <1>8, <1>9 DEF TextInv

\* Every step of the writer and of the reader keeps it.
LEMMA TreeStepKeepsText ==
    ASSUME TreeInv, TextInv, [TreeNext]_vars
    PROVE  TextInv'
<1>1. PICK F, c : WriterHas(F, c) /\ ReaderHas(F)
    BY DEF TextInv
<1>2. BlocksInv
    BY DEF TextInv
<1>3. ASSUME pc' \notin {"read", "end"} PROVE \A G : ReaderHas(G)'
    BY <1>3 DEF ReaderHas
<1>4. ASSUME NEW b \in Block, AppendBlock(b) PROVE TextInv'
    <2>1. pc' \notin {"read", "end"}
        BY <1>4 DEF AppendBlock
    <2>2. BlocksInv' /\ WriterHas(F, c)'
        BY <1>1, <1>2, <1>4, AppendBlockKeepsText
    <2> QED  BY <1>3, <2>1, <2>2 DEF TextInv
<1>5. CASE AppendAt
    <2>1. pc' \notin {"read", "end"}
        BY <1>5 DEF AppendAt, TreeInv, TopInv
    <2>2. BlocksInv' /\ \E G, d : WriterHas(G, d)'
        BY <1>1, <1>2, <1>5, AppendAtKeepsText
    <2> QED  BY <1>3, <2>1, <2>2 DEF TextInv
<1>6. ASSUME NEW i \in BOOLEAN, HashBegin(i) PROVE TextInv'
    <2>1. pc' \notin {"read", "end"}
        BY <1>6 DEF HashBegin
    <2>2. BlocksInv' /\ WriterHas(F, c)'
        BY <1>1, <1>2, <1>6, HashBeginKeepsText
    <2> QED  BY <1>3, <2>1, <2>2 DEF TextInv
<1>7. CASE HashLocate
    <2>1. pc' \notin {"read", "end"}
        BY <1>7 DEF HashLocate
    <2>2. BlocksInv' /\ WriterHas(F, c)'
        BY <1>1, <1>2, <1>7, HashLocateKeepsText
    <2> QED  BY <1>3, <2>1, <2>2 DEF TextInv
<1>8. CASE HashCollapse
    <2>1. pc' \notin {"read", "end"}
        BY <1>8 DEF HashCollapse
    <2>2. BlocksInv' /\ \E d : WriterHas(F, d)'
        BY <1>1, <1>2, <1>8, HashCollapseKeepsText
    <2> QED  BY <1>3, <2>1, <2>2 DEF TextInv
<1>9. CASE HashTop
    <2>1. pc' \notin {"read", "end"}
        BY <1>9 DEF HashTop
    <2>2. BlocksInv' /\ \E d : WriterHas(F, d)'
        BY <1>1, <1>2, <1>9, HashTopKeepsText
    <2> QED  BY <1>3, <2>1, <2>2 DEF TextInv
<1>10. CASE HashReturn
    <2>1. pc' \notin {"read", "end"}
        BY <1>10 DEF HashReturn
    <2>2. BlocksInv' /\ WriterHas(F, c)'
        BY <1>1, <1>2, <1>10, HashReturnKeepsText
    <2> QED  BY <1>3, <2>1, <2>2 DEF TextInv
<1>11. ASSUME ReaderHas(F)', UNCHANGED writerVars, pc \in {"done", "read"}, pc' \in {"read", "end"}
       PROVE  TextInv'
    <2>1. BlocksInv' /\ WriterHas(F, c)'
        BY <1>1, <1>2, <1>11, WalkerKeepsText
    <2> QED  BY <1>11, <2>1 DEF TextInv
<1>12. ASSUME NEW v, WalkerNew(v) PROVE TextInv'
    <2>1. UNCHANGED writerVars /\ pc = "done" /\ pc' = "read"
        BY <1>12 DEF WalkerNew
    <2>2. ReaderHas(F)'
        BY <1>1, <1>2, <1>12, WalkerNewReads
    <2> QED  BY <1>11, <2>1, <2>2
<1>13. CASE LeaveNode
    <2>1. UNCHANGED writerVars /\ pc = "read" /\ pc' = "read"
        BY <1>13 DEF LeaveNode
    <2>2. ReaderHas(F)'
        BY <1>1, <1>2, <1>13, LeaveNodeReads
    <2> QED  BY <1>11, <2>1, <2>2
<1>14. CASE EnterLeaf
    <2>1. UNCHANGED writerVars /\ pc = "read" /\ pc' = "read"
        BY <1>14 DEF EnterLeaf
    <2>2. ReaderHas(F)'
        BY <1>1, <1>2, <1>14, EnterLeafReads
    <2> QED  BY <1>11, <2>1, <2>2
<1>15. CASE EnterBranch
    <2>1. UNCHANGED writerVars /\ pc = "read" /\ pc' = "read"
        BY <1>15 DEF EnterBranch
    <2>2. ReaderHas(F)'
        BY <1>1, <1>2, <1>15, EnterBranchReads
    <2> QED  BY <1>11, <2>1, <2>2
<1>16. CASE WalkerEnd
    <2>1. /\ UNCHANGED writerVars /\ pc = "read" /\ pc' = "end"
          /\ stack' = stack /\ out' = out
        BY <1>16 DEF WalkerEnd, readerVars
    <2>2. Written' = Written /\ chunks' = chunks
        BY <1>1, <1>2, <2>1, WalkerKeepsText
    <2>3. ReaderHas(F)'
        BY <1>1, <2>1, <2>2 DEF ReaderHas
    <2> QED  BY <1>11, <2>1, <2>3
<1>17. CASE UNCHANGED vars
    <2>1. /\ UNCHANGED <<blocks, chunks, levels, pending, next, top, root, pc, stack, out>>
        BY <1>17 DEF vars, writerVars, readerVars
    <2>2. Stored' = Stored /\ Written' = Written
        BY <2>1 DEF Stored, Written
    <2>3. BlocksInv' /\ WriterHas(F, c)' /\ ReaderHas(F)'
        BY <1>1, <1>2, <2>1, <2>2 DEF BlocksInv, WriterHas, ReaderHas
    <2> QED  BY <2>3 DEF TextInv
<1> QED  BY <1>4, <1>5, <1>6, <1>7, <1>8, <1>9, <1>10, <1>12, <1>13, <1>14, <1>15, <1>16, <1>17
         DEF TreeNext

\* What the levels, the pending chunk and the walker's stack refer to stands for
\* exactly the blocks that were appended, in their order (hash/tree.rs, append,
\* append_at, collapse_level, hash).
THEOREM TreeHoldsItsText == TreeSpec => []TextInv
<1>1. TreeInit => TextInv
    BY TreeInitHasText
<1>2. TreeInv /\ TextInv /\ [TreeNext]_vars => TextInv'
    BY TreeStepKeepsText
<1> QED  BY <1>1, <1>2, TreeInvariant, PTL DEF TreeSpec

\* For every order, any blocks, repeated ones included, and any number of calls
\* of hash(): what the reader returns is a prefix of what was appended, and at
\* the end all of it ("exactly as they were written, in the same order, and
\* split at the same boundaries").
THEOREM TreesReadBack == TreeSpec => []ReadsBackWhatWasWritten
<1>1. TreeInv /\ TextInv => ReadsBackWhatWasWritten
    <2> SUFFICES ASSUME TreeInv, TextInv PROVE ReadsBackWhatWasWritten
        OBVIOUS
    <2>1. PICK w, bs : w \in Seq(Data) /\ w = Written /\ bs = LeafsOf(chunks, out)
        BY StoredIsSeq DEF TextInv
    <2>2. LeafBlocks(out) = bs
        BY <2>1, LeafBlocksIs
    <2>3. ASSUME bs \in Seq(Data), Len(bs) <= Len(w), \A j \in 1 .. Len(bs) : bs[j] = w[j]
          PROVE  IsPrefix(bs, w) /\ (Len(bs) = Len(w) => bs = w)
        <3>1. PICK n \in Nat, m \in Nat : n = Len(bs) /\ m = Len(w) /\ n <= m
            BY <2>1, <2>3
        <3>2. bs \in [1 .. n -> Data] /\ w \in [1 .. m -> Data]
            BY <2>1, <2>3, <3>1
        <3>3. \A j \in 1 .. n : bs[j] = w[j]
            BY <2>3, <3>1
        <3>4. SubSeq(bs, 1, n) = [j \in 1 .. n |-> bs[j]]
            BY <2>3, <3>1, <3>2
        <3>5. SubSeq(w, 1, n) = [j \in 1 .. n |-> w[j]]
            BY <3>1, <3>2
        <3>6. SubSeq(bs, 1, n) = SubSeq(w, 1, n)
            BY <3>3, <3>4, <3>5
        <3>7. ASSUME n = m PROVE bs = w
            BY <3>2, <3>3, <3>7
        <3> QED  BY <3>1, <3>6, <3>7 DEF IsPrefix
    <2>4. CASE pc \notin {"read", "end"}
        <3>1. out = <<>>
            BY <2>4 DEF TreeInv, ReaderInv
        <3>2. bs = <<>> /\ Len(<<>>) = 0 /\ <<>> \in Seq(Data) /\ Len(w) \in Nat
            BY <2>1, <3>1, LeafsOfNothing
        <3>3. IsPrefix(bs, w)
            BY <2>3, <3>2
        <3> QED  BY <2>1, <2>2, <2>4, <3>3 DEF ReadsBackWhatWasWritten
    <2>5. CASE pc \in {"read", "end"}
        <3>1. PICK F, q : Walk(F, stack, w, bs, q)
            BY <2>1, <2>5 DEF TextInv, ReaderHas
        <3>2. stack \in Seq(Frame) /\ (pc = "end" => stack = <<>>)
            BY DEF TreeInv, ReaderInv, Frame
        <3>3. PICK L \in Nat : L = Len(stack)
            BY <3>2
        <3>4. /\ bs \in Seq(Data) /\ q[L] = Len(bs) /\ q[0] = Len(w)
              /\ \A j \in 1 .. Len(bs) : bs[j] = w[j]
            BY <3>1, <3>3 DEF Walk
        <3>5. Len(bs) <= Len(w)
            <4>1. L \in 0 .. L
                OBVIOUS
            <4>2. q[L] <= q[0]
                BY <3>1, <3>3, <4>1 DEF Walk
            <4> QED  BY <3>4, <4>2
        <3>6. pc = "end" => Len(bs) = Len(w)
            <4>1. Len(<<>>) = 0
                OBVIOUS
            <4> QED  BY <3>2, <3>3, <3>4, <4>1
        <3>7. IsPrefix(bs, w) /\ (Len(bs) = Len(w) => bs = w)
            BY <2>3, <3>4, <3>5
        <3> QED  BY <2>1, <2>2, <3>6, <3>7 DEF ReadsBackWhatWasWritten
    <2> QED  BY <2>4, <2>5
<1> QED  BY <1>1, TreeInvariant, TreeHoldsItsText, PTL

=============================================================================

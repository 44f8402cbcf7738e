------------------------------ MODULE HashTree ------------------------------
(***************************************************************************)
(* hash::tree (src/hash/tree.rs): the streaming writer and the walker of   *)
(* hash trees.  Blocks are appended to level 0; a level that reaches the   *)
(* tree's order is stored as one chunk of references and replaced by a     *)
(* reference to that chunk one level up.  hash() collapses what is left    *)
(* and returns the reference of the root.                                  *)
(*                                                                         *)
(* append_at and collapse_level call each other in tail position: pending  *)
(* is the chunk that the call under way has still to hand to insert_chunk. *)
(* The backend is what key::HashStoreBackend promises: a chunk is stored   *)
(* once, under its content and its height (Hash::new salts with both), and *)
(* ids grow.  A chunk's id stands for its hash.                            *)
(***************************************************************************)
EXTENDS Naturals, Sequences, SequencesExt

CONSTANTS
    Block,       \* data blocks
    EmptyBlock,  \* the block that an empty tree is made of
    NoBlock,     \* what a chunk of references has in place of data
    Order,       \* the orders a tree may have
    MaxBlocks,   \* bound: blocks appended
    MaxHash      \* bound: calls of hash()

ASSUME TreeAssumption ==
    /\ NoBlock \notin Block \cup {EmptyBlock}
    /\ Order \subseteq Nat \ {0, 1}
    /\ MaxBlocks \in Nat /\ MaxHash \in Nat \ {0}

VARIABLES
    order,      \* order of the tree
    blocks,     \* history: the blocks appended
    chunks,     \* the backend: chunks by id
    levels,     \* levels[n + 1]: references of level n, the rightmost path
    pending,    \* a sequence: the chunk that append_at is to insert, if any
    pc,         \* where the writer, and then the reader, is
    info,       \* whether hash() was given file info
    next, top,  \* the rest of the range of levels that hash() collapses
    calls,      \* calls of hash() so far
    root,       \* what hash() returned
    visitor,    \* "leafs": LeafVisitor; "nodes": the visitors of recovery
    stack,      \* the walker's stack, its top last
    start,      \* cycle_start: the first node entered by this resume; 0: none
    out         \* the references that the visitor has been handed

writerVars == <<blocks, chunks, levels, pending, info, next, top, calls, root>>
readerVars == <<visitor, stack, start, out>>
vars == <<order, writerVars, pc, readerVars>>

Ref == [id : Nat \ {0}, node : Nat]

Leaf(b) == [node |-> 0, block |-> b, refs |-> <<>>]
Branch(n, refs) == [node |-> n, block |-> NoBlock, refs |-> refs]

TreeInit ==
    /\ order \in Order
    /\ blocks = <<>> /\ chunks = <<>> /\ levels = <<>> /\ pending = <<>>
    /\ pc = "append"
    /\ info = FALSE /\ next = 0 /\ top = 0 /\ calls = 0
    /\ root = <<>>
    /\ visitor = "leafs" /\ stack = <<>> /\ start = 0 /\ out = <<>>

-----------------------------------------------------------------------------
\* The writer.

Known(c) == \E i \in DOMAIN chunks : chunks[i] = c

\* Mutant of IdOf: a known chunk is not reused.
IdOfNew(c) == Len(chunks) + 1

\* insert_chunk: the id of a chunk that is known, or a new one.
IdOf(c) == IF Known(c) THEN CHOOSE i \in DOMAIN chunks : chunks[i] = c
                       ELSE Len(chunks) + 1

InsertChunk(c) == chunks' = IF Known(c) THEN chunks ELSE Append(chunks, c)

GrowTo(n) == levels \o [i \in 1 .. (IF n < Len(levels) THEN 0 ELSE n + 1 - Len(levels)) |-> <<>>]

\* The levels after a reference to c was pushed to the level of c.
Pushed(c) == [GrowTo(c.node) EXCEPT ![c.node + 1] = Append(@, [id |-> IdOf(c), node |-> c.node])]

\* Mutant of CollapseLevel: the references are taken from the right.
CollapseReversed(ls, n) ==
    /\ levels' = [ls EXCEPT ![n + 1] = <<>>]
    /\ pending' = <<Branch(n + 1, Reverse(ls[n + 1]))>>

\* Level n of ls becomes a chunk of level n + 1 that is to be inserted.
CollapseLevel(ls, n) ==
    /\ levels' = [ls EXCEPT ![n + 1] = <<>>]
    /\ pending' = <<Branch(n + 1, ls[n + 1])>>

AppendBlock(b) ==
    /\ pc = "append" /\ pending = <<>>
    /\ Len(blocks) < MaxBlocks
    /\ blocks' = Append(blocks, b)
    /\ pending' = <<Leaf(b)>>
    /\ UNCHANGED <<order, chunks, levels, pc, info, next, top, calls, root, readerVars>>

\* append_at and append_hashref_at for the pending chunk.
AppendAt ==
    LET c == Head(pending)
    IN  /\ pending # <<>>
        /\ InsertChunk(c)
        /\ IF Len(Pushed(c)[c.node + 1]) = order
           THEN CollapseLevel(Pushed(c), c.node)
           ELSE levels' = Pushed(c) /\ pending' = <<>>
        /\ UNCHANGED <<order, blocks, pc, info, next, top, calls, root, readerVars>>

\* hash() is called, possibly again: an empty tree gets one empty block.
HashBegin(i) ==
    /\ pc \in {"append", "done"} /\ pending = <<>>
    /\ calls < MaxHash
    /\ calls' = calls + 1
    /\ info' = i
    /\ pending' = IF levels = <<>> THEN <<Leaf(EmptyBlock)>> ELSE <<>>
    /\ pc' = "locate"
    /\ UNCHANGED <<order, blocks, chunks, levels, next, top, root, readerVars>>

TopLevel == Len(levels) - 1

\* The range of levels to collapse is fixed before the first one is.
HashLocate ==
    /\ pc = "locate" /\ pending = <<>>
    /\ next' = CHOOSE n \in 0 .. TopLevel :
                  levels[n + 1] # <<>> /\ \A m \in 1 .. n : levels[m] = <<>>
    /\ top' = TopLevel
    /\ pc' = "collapse"
    /\ UNCHANGED <<order, blocks, chunks, levels, pending, info, calls, root, readerVars>>

HashCollapse ==
    /\ pc = "collapse" /\ pending = <<>>
    /\ next < top
    /\ CollapseLevel(levels, next)
    /\ next' = next + 1
    /\ UNCHANGED <<order, blocks, chunks, pc, info, top, calls, root, readerVars>>

\* "Collapse top level if possible": the top level as it is after the loop.
NeedsRoot == info \/ Len(levels[TopLevel + 1]) > 1

HashTop ==
    /\ pc = "collapse" /\ pending = <<>>
    /\ next = top
    /\ IF NeedsRoot THEN CollapseLevel(levels, TopLevel)
                    ELSE UNCHANGED <<levels, pending>>
    /\ pc' = "root"
    /\ UNCHANGED <<order, blocks, chunks, info, next, top, calls, root, readerVars>>

HashReturn ==
    /\ pc = "root" /\ pending = <<>>
    /\ root' = <<Last(Last(levels))>>
    /\ pc' = "done"
    /\ UNCHANGED <<order, blocks, chunks, levels, pending, info, next, top, calls,
                   readerVars>>

-----------------------------------------------------------------------------
\* The walker, resumed until its stack is empty.

Enter(r) == [leave |-> FALSE, ref |-> r]
LeaveBranch(r) == [leave |-> TRUE, ref |-> r]

WalkerNew(v) ==
    /\ pc = "done"
    /\ visitor' = v
    /\ stack' = <<Enter(root[1])>>
    /\ start' = 0
    /\ out' = <<>>
    /\ pc' = "read"
    /\ UNCHANGED <<order, writerVars>>

LeaveNode ==
    /\ pc = "read" /\ stack # <<>>
    /\ Last(stack).leave
    /\ stack' = Front(stack)
    /\ UNCHANGED <<order, writerVars, pc, visitor, start, out>>

\* LeafVisitor stops the walk at every leaf: the next one is a new resume.
EnterLeaf ==
    LET r == Last(stack).ref
    IN  /\ pc = "read" /\ stack # <<>>
        /\ ~Last(stack).leave /\ r.node = 0
        /\ stack' = Front(stack)
        /\ out' = Append(out, r)
        /\ start' = IF visitor = "leafs" THEN 0 ELSE IF start = 0 THEN r.id ELSE start
        /\ UNCHANGED <<order, writerVars, pc, visitor>>

\* Mutant of EnterBranch: the visitor does not hear of branches.
EnterBranchSilently ==
    LET r == Last(stack).ref
        childs == Reverse(chunks[r.id].refs)
    IN  /\ pc = "read" /\ stack # <<>>
        /\ ~Last(stack).leave /\ r.node > 0
        /\ stack' = Append(Front(stack), LeaveBranch(r))
                        \o [i \in DOMAIN childs |-> Enter(childs[i])]
        /\ start' = IF start = 0 THEN r.id ELSE start
        /\ UNCHANGED <<order, writerVars, pc, visitor, out>>

\* Mutant of EnterBranch: the branch is entered again instead of left.
EnterBranchAgain ==
    LET r == Last(stack).ref
        childs == Reverse(chunks[r.id].refs)
    IN  /\ pc = "read" /\ stack # <<>>
        /\ ~Last(stack).leave /\ r.node > 0
        /\ stack' = Append(Front(stack), Enter(r))
                        \o [i \in DOMAIN childs |-> Enter(childs[i])]
        /\ out' = IF visitor = "nodes" THEN Append(out, r) ELSE out
        /\ start' = IF start = 0 THEN r.id ELSE start
        /\ UNCHANGED <<order, writerVars, pc, visitor>>

EnterBranch ==
    LET r == Last(stack).ref
        childs == Reverse(chunks[r.id].refs)
    IN  /\ pc = "read" /\ stack # <<>>
        /\ ~Last(stack).leave /\ r.node > 0
        /\ stack' = Append(Front(stack), LeaveBranch(r))
                        \o [i \in DOMAIN childs |-> Enter(childs[i])]
        /\ out' = IF visitor = "nodes" THEN Append(out, r) ELSE out
        /\ start' = IF start = 0 THEN r.id ELSE start
        /\ UNCHANGED <<order, writerVars, pc, visitor>>

WalkerEnd ==
    /\ pc = "read" /\ stack = <<>>
    /\ pc' = "end"
    /\ UNCHANGED <<order, writerVars, readerVars>>

TreeNext ==
    \/ \E b \in Block : AppendBlock(b)
    \/ AppendAt
    \/ \E i \in BOOLEAN : HashBegin(i)
    \/ HashLocate
    \/ HashCollapse
    \/ HashTop
    \/ HashReturn
    \/ \E v \in {"leafs", "nodes"} : WalkerNew(v)
    \/ LeaveNode
    \/ EnterLeaf
    \/ EnterBranch
    \/ WalkerEnd

TreeSpec == TreeInit /\ [][TreeNext]_vars

-----------------------------------------------------------------------------
\* The references and the chunks are well-formed and of the heights they name.
TreeTypeOK ==
    /\ order \in Order
    /\ \A n \in DOMAIN levels : \A k \in DOMAIN levels[n] :
          levels[n][k] \in [id : DOMAIN chunks, node : {n - 1}]
    /\ \A n \in DOMAIN levels : Len(levels[n]) < order
    /\ Len(pending) <= 1
    /\ \A i \in DOMAIN chunks : \A k \in DOMAIN chunks[i].refs :
          chunks[i].refs[k].node + 1 = chunks[i].node

Written == IF blocks = <<>> THEN <<EmptyBlock>> ELSE blocks

\* The blocks of the leafs among the references.
LeafBlocks(refs) ==
    LET upTo[n \in 0 .. Len(refs)] ==
            IF n = 0 THEN <<>>
            ELSE IF refs[n].node = 0 THEN Append(upTo[n - 1], chunks[refs[n].id].block)
            ELSE upTo[n - 1]
    IN  upTo[Len(refs)]

\* "When reading back the tree, these blocks will be returned exactly as they
\* were written, in the same order, and split at the same boundaries" (append):
\* what the reader has returned is a prefix of what was written, and at the end
\* all of it.  An empty tree reads as one empty block (hash).
ReadsBackWhatWasWritten ==
    /\ IsPrefix(LeafBlocks(out), Written)
    /\ pc = "end" => LeafBlocks(out) = Written

\* A chunk is inserted after every chunk it refers to, also when it or they
\* were known: what hash::HashIndex needs to commit hashes in the order of
\* their ids (hash/mod.rs, insert_completed_in_order).
ChildrenPrecedeParents ==
    \A i \in DOMAIN chunks : \A k \in DOMAIN chunks[i].refs : chunks[i].refs[k].id < i

\* A visitor that recovers a tree has met every node of it at the end, a
\* branch before its children (family::recover::FileVisitor).
VisitorMeetsEveryNode ==
    visitor = "nodes" =>
        /\ pc = "end" =>
              \A r \in ToSet(out) : ToSet(chunks[r.id].refs) \subseteq ToSet(out)
        /\ out # <<>> => out[1] = root[1]
        /\ \A k \in 2 .. Len(out) : \E j \in 1 .. k - 1 :
              \E m \in DOMAIN chunks[out[j].id].refs : chunks[out[j].id].refs[m] = out[k]

\* The "basic cycle detection" of Walker::resume never fires: a resume does not
\* enter its first node again, although equal subtrees share their hashes and a
\* chunk without references lets one resume pass through several branches.
WalkFindsNoCycle ==
    pc = "read" /\ stack # <<>> => Last(stack).leave \/ Last(stack).ref.id # start

=============================================================================

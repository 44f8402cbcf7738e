------------------------------- MODULE MCVfs -------------------------------
(***************************************************************************)
(* Two visible families and the hidden one; snapshots that were not        *)
(* finished, and one of a tree with a directory in a directory, an empty   *)
(* directory, a link, and files of two chunks and of one empty chunk.      *)
(* Two descriptors are enough for a handle to be given out while it is in  *)
(* use: the one that was opened first is closed and opened again.          *)
(***************************************************************************)
EXTENDS Vfs

CONSTANTS famA, famB, tree, sub, none, big, empty, link, d1, d2

SnapshotsDef == <<
    [family |-> famA, id |-> "1", ref |-> tree],
    [family |-> famB, id |-> "1", ref |-> NoRef],
    [family |-> HiddenFamily, id |-> "1", ref |-> tree],
    [family |-> famA, id |-> "2", ref |-> NoRef]>>

Entry(name, kind, ref) == [name |-> name, kind |-> kind, ref |-> ref]

ListingDef == (tree :> <<Entry("f", "file", big), Entry("d", "dir", sub), Entry("n", "dir", none)>>)
           @@ (sub :> <<Entry("l", "link", link), Entry("e", "file", empty)>>)
           @@ (none :> <<>>)

ChunksDef == (big :> <<2, 3>>) @@ (empty :> <<0>>)

DescSymmetry == Permutations(Desc)

=============================================================================

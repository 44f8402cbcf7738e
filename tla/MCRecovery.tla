----------------------------- MODULE MCRecovery -----------------------------
(***************************************************************************)
(* Two lists of snapshots in two blobs.  The snapshots dirA (twice) and    *)
(* dirB share a file of three chunks whose tree has order 2, and one of    *)
(* its chunks is a file of its own in dirB.                                *)
(***************************************************************************)
EXTENDS Recovery, TLC

CONSTANTS c1, c2, node1, node2, file, dirA, dirB, list1, list2

HashDef == {c1, c2, node1, node2, file, dirA, dirB, list1, list2}

KidsDef == [h \in HashDef |-> CASE h = file -> <<node1, node2>>
                                [] h = node1 -> <<c1, c1>>
                                [] h = node2 -> <<c2>>
                                [] OTHER -> <<>>]

ListsDef == [h \in HashDef |-> CASE h = dirA -> <<file>>
                                 [] h = dirB -> <<c1, file>>
                                 [] OTHER -> <<>>]

BlobOfDef == [h \in HashDef |-> IF h \in {dirB, list2} THEN 2 ELSE 1]

ListingDef == (list1 :> <<dirA>>) @@ (list2 :> <<dirA, list1, dirB, dirA>>)

=============================================================================

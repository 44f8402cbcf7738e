---------------------------- MODULE MCHashIndex -----------------------------
(* Two leaves and a tree node above them, one of the leaves shared with a    *)
(* second node: ids are handed out, lost and given out again.                *)
EXTENDS HashIndex

CONSTANTS leaf1, leaf2, node1, node2

MCHash == {leaf1, leaf2, node1, node2}
MCChilds == [h \in MCHash |-> CASE h = node1 -> {leaf1, leaf2}
                                [] h = node2 -> {leaf1}
                                [] OTHER -> {}]

=============================================================================

------------------------- MODULE MCInsertPipeline ---------------------------
(* Trees of two leaves, one of which may be an empty chunk, and a node.      *)
EXTENDS InsertPipeline

CONSTANTS leaf1, leaf2, node, t1, t2, bs1, bs2

MCHash == {leaf1, leaf2, node}
MCChilds == [h \in MCHash |-> IF h = node THEN {leaf1} ELSE {}]

\* Both threads on the repository's own blob store.
SharedStores == <<bs1>>
SharedStoreOf == [t \in {t1, t2} |-> bs1]

\* A dedicated blob store each, as open_family sets up.
OwnStores == <<bs1, bs2>>
OwnStoreOf == [t \in {t1, t2} |-> IF t = t1 THEN bs1 ELSE bs2]

MCPRef == 0..MaxBlob

=============================================================================

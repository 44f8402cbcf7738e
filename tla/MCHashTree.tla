----------------------------- MODULE MCHashTree -----------------------------
(***************************************************************************)
(* Trees of order 2 and 3 over two blocks that may repeat, so that whole   *)
(* subtrees coincide.  With order 2, seven blocks leave a chunk of no      *)
(* references beside the root and eleven leave one inside the tree.        *)
(***************************************************************************)
EXTENDS HashTree

BlockSymmetry == Permutations(Block)

=============================================================================

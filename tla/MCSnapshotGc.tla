---------------------------- MODULE MCSnapshotGc ----------------------------
(***************************************************************************)
(* Two contents of one family.  rA holds a file of two hashes, file and    *)
(* chunk; rB also holds a directory with a file that is just chunk, so     *)
(* that chunk is the top of one tree and an inner hash of another.  The    *)
(* directory may be scanned into rA alone, or all of rB at once.  The key  *)
(* index of a new family describes r0.                                     *)
(***************************************************************************)
EXTENDS SnapshotGc, TLC

CONSTANTS chunk, file, dir, r0, rA, rB

HashDef == {chunk, file, dir, r0, rA, rB}
RankDef == (chunk :> 1) @@ (file :> 2) @@ (dir :> 3) @@ (r0 :> 4) @@ (rA :> 5) @@ (rB :> 6)
TreeDef == [h \in HashDef |-> IF h = file THEN {chunk, file} ELSE {h}]
FileDef == {chunk, file}
RootDef == {r0, rA, rB}
TopsDef == (r0 :> {}) @@ (rA :> {file}) @@ (rB :> {chunk, file, dir})

=============================================================================

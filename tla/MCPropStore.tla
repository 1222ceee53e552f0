---------------------------- MODULE MCPropStore ----------------------------
(* Small instances of PropStore for TLC. *)
EXTENDS PropStore, TLC

CONSTANTS v1, V1, v2,       \* V1 is v1 in another case,
          u1, U1            \* U1 is u1 in another case

MCFold == [v \in Values |-> IF v = V1 THEN v1 ELSE v]
MCFoldUser == [u \in Users |-> IF u = U1 THEN u1 ELSE u]
Symmetry == Permutations(Guids) \cup Permutations(Entities)
=============================================================================

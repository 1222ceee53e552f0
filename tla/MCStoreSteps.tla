---------------------------- MODULE MCStoreSteps ----------------------------
(* Small instances of StoreSteps for TLC. *)
EXTENDS StoreSteps, TLC

CONSTANTS u1, U1            \* U1 is u1 in another case

MCFold == [v \in Values |-> v]
MCFoldUser == [u \in Users |-> u1]
Symmetry == Permutations(Guids) \cup Permutations(Entities)
            \cup Permutations(Values) \cup Permutations(Workers)
=============================================================================

---------------------------- MODULE MCEntityCreate ----------------------------
(* Small instances of EntityCreate for TLC. *)
EXTENDS EntityCreate, TLC

Symmetry == Permutations(Nodes) \cup Permutations(Ids) \cup Permutations(Others)
=============================================================================

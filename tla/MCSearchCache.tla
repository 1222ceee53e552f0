---------------------------- MODULE MCSearchCache ----------------------------
(* Small instances of SearchCache for TLC. *)
EXTENDS SearchCache

CONSTANT memcached

OneCache == {memcached}
Shared == [w \in Workers |-> memcached]
=============================================================================

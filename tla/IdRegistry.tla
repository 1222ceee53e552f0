----------------------------- MODULE IdRegistry -----------------------------
(***************************************************************************)
(* What the Learning Registry Index promises about entity IDs: an ID names *)
(* at most one entity, it is given only while nobody holds it, and it      *)
(* never passes from one entity straight to another.                       *)
(* PropStore.tla, the property store of lri-b, is shown to implement this. *)
(***************************************************************************)
CONSTANTS Entities,    \* entities of the index
          Keys,        \* IDs, one per class of IDs the index cannot tell apart
          None         \* "nobody"

VARIABLE owner         \* the entity each ID names

RegistryTypeOK == owner \in [Keys -> Entities \cup {None}]

RegistryInit == owner = [k \in Keys |-> None]

(* An entity receives an ID nobody holds. *)
Claim(e, k) == /\ owner[k] = None
               /\ owner' = [owner EXCEPT ![k] = e]

(* The holder of an ID loses it. *)
Release(k) == /\ owner[k] # None
              /\ owner' = [owner EXCEPT ![k] = None]

(* ID j is given up and the free ID k taken in its place. *)
Rename(j, e, k) == /\ owner[j] # None
                   /\ owner[k] = None
                   /\ owner' = [owner EXCEPT ![j] = None, ![k] = e]

RegistryNext == \/ \E e \in Entities, k \in Keys : Claim(e, k)
                \/ \E k \in Keys : Release(k)
                \/ \E e \in Entities, j, k \in Keys : Rename(j, e, k)

RegistrySpec == RegistryInit /\ [][RegistryNext]_owner
=============================================================================

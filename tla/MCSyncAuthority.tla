-------------------------- MODULE MCSyncAuthority --------------------------
(* Instances of the sync authority for TLC. *)
EXTENDS SyncAuthority, TLC

\* Every batch carries every object version, as a push repeated under a new id does.
SameVersions == [id \in Ids |-> Slots]

\* A batch carries one object version, which goes by the batch's own name.
OwnVersion == [id \in Ids |-> {id}]

Interchangeable ==
  Permutations(Ids) \cup Permutations(Requests) \cup Permutations(Slots)
=============================================================================

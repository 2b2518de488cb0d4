------------------------ MODULE MCLocalGraphStore ------------------------
(* Instances of the local graph store for TLC. *)
EXTENDS LocalGraphStore, TLC

Interchangeable == Permutations(Ids) \cup Permutations(Contents) \cup Permutations(Requests)
=============================================================================

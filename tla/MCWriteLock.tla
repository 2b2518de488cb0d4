---------------------------- MODULE MCWriteLock ----------------------------
(* Instances of the single-writer guard for TLC. *)
EXTENDS WriteLock, TLC

\* Process ids are interchangeable, except in the runs that check liveness.
Interchangeable == Permutations(Procs)
=============================================================================

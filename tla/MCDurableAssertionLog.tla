----------------------- MODULE MCDurableAssertionLog -----------------------
(* Finite instances of DurableAssertionLog for TLC. *)
EXTENDS DurableAssertionLog, TLC

Interchangeable == Permutations(Keys) \cup Permutations(Digests)
=============================================================================

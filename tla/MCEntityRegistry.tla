-------------------------- MODULE MCEntityRegistry --------------------------
(* Three entities, a legacy id, and imports that drift one trait at a time.    *)
EXTENDS EntityRegistry, TLC

CONSTANTS path, ordinal, text
Drifting == {{path, ordinal}, {path, ordinal, text}, {ordinal, text}, {path}}
Interchangeable == Permutations(Ids)
=============================================================================

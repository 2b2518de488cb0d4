----------------------------- MODULE MCSyncAgent -----------------------------
(* Two replicas, x and y of one editor each, or x shared.                      *)
EXTENDS SyncAgent, TLC

CONSTANTS a, b, x, y
EditorOfEach == x :> {a} @@ y :> {b}
TwoOfX == x :> 2 @@ y :> 1

EditorsOfX == x :> {a, b}
VersionsOfX == x :> 2
=============================================================================

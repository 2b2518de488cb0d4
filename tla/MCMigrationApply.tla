-------------------------- MODULE MCMigrationApply --------------------------
(* Two entities, an edge, a carried block, an absence, and retractions of the  *)
(* block and of the edge.  The second plan carries more than the first and     *)
(* redirects an id the first had left without a target; the third is broken.   *)
EXTENDS MigrationApply, TLC

KindOf == <<"retraction", "entity", "relationship", "provisional-block", "absence",
            "entity", "retraction">>
RefsOf == <<{4}, {}, {2, 6}, {}, {}, {}, {3}>>
SomePlans ==
  {[records |-> {1, 2, 3, 4, 6}, aliases |-> (1 :> {2}) @@ (2 :> {}) @@ (3 :> {2, 6})],
   [records |-> 1..7, aliases |-> (1 :> {2}) @@ (2 :> {3}) @@ (3 :> {2, 6}) @@ (4 :> {})],
   [records |-> {2, 3}, aliases |-> (1 :> {2})]}
=============================================================================

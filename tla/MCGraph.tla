-------------------------------- MODULE MCGraph --------------------------------
(***************************************************************************)
(* Four entities: two ways from 1 to 4 in the direction of the arrows,     *)
(* one of them doubled, a direct one, and an arrow back.                   *)
(***************************************************************************)
EXTENDS GraphViews, TLC

MCEntities == 1 .. 4
MCRelationships == 1 .. 7
MCSource == <<1, 2, 1, 3, 1, 1, 4>>
MCTarget == <<2, 4, 3, 4, 4, 2, 3>>

\* Queries from entity 1.
MCRequests ==
    {[ask |-> ask, source |-> 1, target |-> target, max_depth |-> max_depth,
      direction |-> way, limit |-> limit] :
        ask \in {"neighbors", "path", "paths"}, target \in {1, 4}, max_depth \in 1 .. 3,
        way \in Directions, limit \in {1, 2}}

\* Evidence 1 to 3; event 11 of evidence 1, event 12 of event 11 and of itself;
\* 98 and 99 name nothing.
MCLines == 1 .. 3
MCEventSources == 11 :> {1} @@ 12 :> {11, 12, 98}
MCDerivedFrom == <<{1}, {12}, {2}, {2}, {3, 99}, {11}, {99}>>
MCClaimed == {E \in SUBSET MCRelationships : Cardinality(E) >= 4}
=============================================================================

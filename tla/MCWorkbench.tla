------------------------------- MODULE MCWorkbench -------------------------------
(***************************************************************************)
(* Two entities and a relationship; a claim adds a third entity, the way    *)
(* on to it and a way back, so that first there is no chain from 1 to 3    *)
(* and then there is.  "short" is a threshold at which a gap is found.     *)
(***************************************************************************)
EXTENDS Workbench, TLC

MCEntities == 1 .. 3
MCRelationships == 1 .. 4
MCSource == <<1, 1, 2, 3>>
MCTarget == <<2, 2, 3, 1>>
MCClaimed == <<{1}, 1 .. 3>>
MCUnclaimed == <<{1, 2}>>
MCAsks == {[source |-> 1, target |-> 3]}
MCShort == "short" :> {"g"}
MCFoundAt == "short" :> {"g"} @@ "long" :> {}
=============================================================================

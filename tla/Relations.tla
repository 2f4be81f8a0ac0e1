------------------------------- MODULE Relations -------------------------------
(***************************************************************************)
(* The relationship graph of a case (core/relationships.py) and the steps  *)
(* a traversal can take in it (correlate/graph.py).  Entities and          *)
(* relationships are named by numbers, which stand for the order of their  *)
(* ids: a traversal takes them in that order.                              *)
(***************************************************************************)
EXTENDS Integers, Sequences, FiniteSets

CONSTANTS
    Entities,       \* entity ids
    Relationships,  \* ids of the relationships analysts can claim
    Source,         \* Source[r]: source_entity_id
    Target          \* Target[r]: target_entity_id

ASSUME EntitiesAssumption == Entities \subseteq Int
ASSUME RelationshipsAssumption ==
    /\ Relationships \subseteq Int
    /\ Source \in [Relationships -> Entities]
    /\ Target \in [Relationships -> Entities]
    /\ \A r \in Relationships : Source[r] # Target[r]

Directions == {"out", "in", "both"}

\* Variant: the way back is searched like the way there.
ReverseNot(direction) == direction

Reverse(direction) == CASE direction = "out" -> "in"
                        [] direction = "in" -> "out"
                        [] direction = "both" -> "both"

\* A TraversalStep: a relationship, walked with its arrow or against it.
Steps == [rel : Relationships, from : Entities, to : Entities,
          walked : {"forward", "backward"}]

Forward(r) == [rel |-> r, from |-> Source[r], to |-> Target[r], walked |-> "forward"]
Backward(r) == [rel |-> r, from |-> Target[r], to |-> Source[r], walked |-> "backward"]

\* The steps that the relationships of edges allow in a direction, ...
StepsOf(edges, direction) ==
    {Forward(r) : r \in {x \in edges : direction # "in"}}
        \cup {Backward(r) : r \in {x \in edges : direction # "out"}}

\* Variant: `both' lists forward edges only.
StepsFromForward(e, edges, direction) ==
    {s \in StepsOf(edges, IF direction = "both" THEN "out" ELSE direction) : s.from = e}

\* ... those that leave an entity, ...
StepsFrom(e, edges, direction) == {s \in StepsOf(edges, direction) : s.from = e}

\* ... and the order _steps_from lists them in: forward edges before backward
\* edges, each in the order of the relationship ids.
Precedes(s, t) == \/ s.walked = "forward" /\ t.walked = "backward"
                  \/ s.walked = t.walked /\ s.rel < t.rel

-----------------------------------------------------------------------------
(***************************************************************************)
(* What the traversals are to compute, defined without one.                *)
(***************************************************************************)

\* The walks of n steps from a, each step starting where the one before ended.
WalksFrom(a, edges, direction, n) ==
    LET walks[k \in 0 .. n] ==
            IF k = 0 THEN {<<>>}
            ELSE UNION {{Append(w, s) : s \in
                           StepsFrom(IF w = <<>> THEN a ELSE w[Len(w)].to,
                                     edges, direction)} : w \in walks[k - 1]}
    IN walks[n]

Walks(a, b, edges, direction, n) ==
    IF n = 0 THEN IF a = b THEN {<<>>} ELSE {}
    ELSE {w \in WalksFrom(a, edges, direction, n) : w[n].to = b}

\* The numbers of hops, up to max, in which a walk gets from a to b.
Hops(a, b, edges, direction, max) ==
    {n \in 0 .. max : Walks(a, b, edges, direction, n) # {}}

\* The least of them.
IsDistance(n, a, b, edges, direction, max) ==
    /\ n \in Hops(a, b, edges, direction, max)
    /\ \A k \in Hops(a, b, edges, direction, max) : n <= k
=============================================================================

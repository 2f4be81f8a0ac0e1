----------------------------- MODULE BreadthFirst -----------------------------
(***************************************************************************)
(* The breadth-first search that every point-to-point graph query rests on *)
(* (_bfs in correlate/graph.py), one step per edge it looks at.            *)
(*                                                                         *)
(* It works on the relationships it read when it began: what is claimed    *)
(* afterwards does not reach it.                                           *)
(***************************************************************************)
EXTENDS Relations

VARIABLES
    edges,      \* the relationships _build_adjacency has read
    origin, direction, bound,   \* origin_entity_id, direction, max_depth
    depth,
    visited,
    discovered, \* discovered[e]: its hop count and the step that reached it
    frontier,   \* the entities of this depth still to expand
    pending,    \* the steps, from the entity being expanded, still to look at
    following   \* next_frontier

search == <<edges, origin, direction, bound, depth, visited, discovered, frontier,
            pending, following>>

\* A search begins as if the depth of its origin had been expanded.
SearchFrom(e, read, way, max) ==
    /\ edges = read /\ origin = e /\ direction = way /\ bound = max
    /\ depth = 0
    /\ visited = {e}
    /\ discovered = [x \in {} |-> 0]
    /\ frontier = <<>>
    /\ pending = {}
    /\ following = <<e>>

StartSearch(e, read, way, max) ==
    /\ edges' = read /\ origin' = e /\ direction' = way /\ bound' = max
    /\ depth' = 0
    /\ visited' = {e}
    /\ discovered' = [x \in {} |-> 0]
    /\ frontier' = <<>>
    /\ pending' = {}
    /\ following' = <<e>>

\* Variant: the entity stays in line.
ExpandAgain == /\ pending = {}
               /\ frontier # <<>>
               /\ pending' = StepsFrom(Head(frontier), edges, direction)
               /\ UNCHANGED <<edges, origin, direction, bound, depth, visited,
                              discovered, frontier, following>>

\* `for entity_id in frontier'
Expand == /\ pending = {}
          /\ frontier # <<>>
          /\ pending' = StepsFrom(Head(frontier), edges, direction)
          /\ frontier' = Tail(frontier)
          /\ UNCHANGED <<edges, origin, direction, bound, depth, visited, discovered,
                         following>>

\* `for step in _steps_from(...)': the entity it leads to is known, ...
IsNext(s) == s \in pending /\ \A t \in pending \ {s} : Precedes(s, t)

Skip(s) == /\ s.to \in visited
           /\ pending' = pending \ {s}
           /\ UNCHANGED <<edges, origin, direction, bound, depth, visited, discovered,
                          frontier, following>>

\* ... or new.
Discover(s) ==
    /\ s.to \notin visited
    /\ visited' = visited \cup {s.to}
    /\ discovered' = [e \in DOMAIN discovered \cup {s.to} |->
                        IF e = s.to THEN [hop |-> depth, step |-> s] ELSE discovered[e]]
    /\ following' = Append(following, s.to)
    /\ pending' = pending \ {s}
    /\ UNCHANGED <<edges, origin, direction, bound, depth, frontier>>

\* Variant: one hop more than asked for.
DeepenBeyond == /\ pending = {}
                /\ frontier = <<>>
                /\ following # <<>>
                /\ depth <= bound
                /\ depth' = depth + 1
                /\ frontier' = following
                /\ following' = <<>>
                /\ UNCHANGED <<edges, origin, direction, bound, visited, discovered,
                               pending>>

\* `frontier = next_frontier', and the loop goes on.
Deepen == /\ pending = {}
          /\ frontier = <<>>
          /\ following # <<>>
          /\ depth < bound
          /\ depth' = depth + 1
          /\ frontier' = following
          /\ following' = <<>>
          /\ UNCHANGED <<edges, origin, direction, bound, visited, discovered, pending>>

SearchStep == \/ Expand
              \/ \E s \in pending : IsNext(s) /\ (Skip(s) \/ Discover(s))
              \/ Deepen

SearchEnded == /\ pending = {}
               /\ frontier = <<>>
               /\ following = <<>> \/ depth >= bound

\* The hop count of a visited entity (_distance_map adds the origin's).
Distance == [e \in visited |-> IF e = origin THEN 0 ELSE discovered[e].hop]

-----------------------------------------------------------------------------
\* The types of the search's variables.
SearchOK ==
    /\ edges \subseteq Relationships
    /\ origin \in Entities
    /\ direction \in Directions
    /\ bound \in Nat
    /\ depth \in 0 .. bound
    /\ visited \subseteq Entities
    /\ origin \in visited
    /\ DOMAIN discovered = visited \ {origin}
    /\ \A e \in visited \ {origin} : /\ discovered[e].hop \in 1 .. depth
                                   /\ discovered[e].step \in Steps
    /\ frontier \in Seq(Entities)
    /\ following \in Seq(Entities)
    /\ pending \subseteq Steps

\* Whatever has been reached was reached along a relationship that was read, in
\* the direction asked for, from an entity one hop nearer to the origin: the
\* steps back from it are a chain of as many relationships as its hop count says.
SearchGrounded ==
    \A e \in visited \ {origin} :
        LET s == discovered[e].step
        IN  /\ s \in StepsOf(edges, direction)
            /\ s.to = e
            /\ s.from \in visited
            /\ Distance[s.from] = Distance[e] - 1

\* A search that has ended has overlooked nothing within its bound: where a
\* relationship leads from an entity nearer than max_depth has been reached,
\* and in no more than one hop further.  (So no hop count is above the distance.)
SearchClosed ==
    SearchEnded =>
        \A s \in StepsOf(edges, direction) :
            s.from \in visited /\ Distance[s.from] < bound =>
                s.to \in visited /\ Distance[s.to] <= Distance[s.from] + 1

\* Together: the hop counts of a search that has ended are distances.
SearchExact == SearchGrounded /\ SearchClosed
=============================================================================

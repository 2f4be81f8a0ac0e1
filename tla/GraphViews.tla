------------------------------ MODULE GraphViews ------------------------------
(***************************************************************************)
(* Whether the chains that a query found rest on the same evidence         *)
(* (analyze_paths_evidence_overlap in correlate/graph.py), and what the    *)
(* components of a case must be.                                           *)
(***************************************************************************)
EXTENDS GraphQueries, GraphParts

CONSTANTS
    Lines,          \* the ids of evidence items
    EventSources,   \* EventSources[v]: the derived_from of event v
    DerivedFrom     \* DerivedFrom[r]: the derived_from of relationship r

ASSUME DerivationAssumption ==
    /\ DOMAIN DerivedFrom = Relationships
    /\ Lines \cap DOMAIN EventSources = {}
    /\ IsFiniteSet(DOMAIN EventSources)

\* resolve_evidence_ref, and one round of _resolve_root_evidence_ids.
Behind(found) == found \cup UNION {EventSources[v] : v \in found \cap DOMAIN EventSources}

\* An id that names neither an evidence item nor an event contributes nothing.
RootEvidence(ref) ==
    LET after[k \in 0 .. Cardinality(DOMAIN EventSources)] ==
            IF k = 0 THEN {ref} ELSE Behind(after[k - 1])
    IN Behind(after[Cardinality(DOMAIN EventSources)]) \cap Lines

ChainEvidence(w) ==
    UNION {RootEvidence(ref) : ref \in UNION {DerivedFrom[w[i].rel] : i \in DOMAIN w}}

\* Variant: the steps that cite an item are counted, not the chains.
CitingSteps(chains, e) ==
    Cardinality({s \in UNION {Sequence!ToSet(chains[i]) : i \in DOMAIN chains} :
                    \E ref \in DerivedFrom[s.rel] : e \in RootEvidence(ref)})

Citing(chains, e) == Cardinality({i \in DOMAIN chains : e \in ChainEvidence(chains[i])})

\* PathsEvidenceOverlap; fewer than two chains leave nothing to compare.
Overlap(chains) ==
    LET shared == {e \in Lines : Citing(chains, e) >= 2}
    IN [shared |-> shared,
        independent |-> IF Len(chains) < 2 THEN "does not apply"
                        ELSE IF shared = {} THEN "yes" ELSE "no"]

-----------------------------------------------------------------------------
\* No relationship leads out of K, and none of its parts is like that.
Cut(K, read) == \A r \in read : Ends(r) \subseteq K \/ Ends(r) \cap K = {}
Connected(K, read) == \A part \in (SUBSET K) \ {{}, K} : ~Cut(part, read)

\* find_components: every entity of a relationship is in exactly one component,
\* which is connected and as large as it can be, and every relationship in one;
\* components are listed by their smallest ids, and min_size `never changes
\* which entities are computed as connected to which'.
ComponentsExact ==
    IsAnswered("neighbors") =>
        \A min_size \in 1 .. 3 :
            LET listed == Components(stored, min_size)
                parts == {K \in SUBSET EndsOf(stored) :
                            /\ K # {} /\ Cut(K, stored) /\ Connected(K, stored)
                            /\ Cardinality(K) >= min_size}
            IN /\ DOMAIN listed = 1 .. Cardinality(parts)
               /\ parts = {listed[i].entity_ids : i \in DOMAIN listed}
               /\ \A i \in DOMAIN listed :
                     /\ listed[i].relationships =
                           {r \in stored : Ends(r) \subseteq listed[i].entity_ids}
                     /\ \A j \in 1 .. i - 1 :
                           Min(listed[j].entity_ids) < Min(listed[i].entity_ids)

\* The evidence that ids rest on: in every set that has them and what its events
\* derive from.
RestsOn(refs, e) ==
    \A S \in SUBSET Behind(Lines \cup DOMAIN EventSources \cup refs) :
        refs \subseteq S /\ Behind(S) \subseteq S => e \in S

\* analyze_paths_evidence_overlap: the chains that a query reports are called
\* evidence-independent only if there are two or more and no two of them rest
\* on one evidence item, however many steps of one chain do, and directly or
\* through events that derive from events, even in a circle.
OverlapExact ==
    IsAnswered("paths") =>
        LET Cited(i) == UNION {DerivedFrom[answer.chains[i][n].rel] :
                                 n \in DOMAIN answer.chains[i]}
            Both == {e \in Lines : \E i, j \in DOMAIN answer.chains :
                       i # j /\ RestsOn(Cited(i), e) /\ RestsOn(Cited(j), e)}
        IN /\ Overlap(answer.chains).shared = Both
           /\ Overlap(answer.chains).independent = "yes"
                 <=> Len(answer.chains) >= 2 /\ Both = {}
=============================================================================

------------------------------ MODULE GraphParts ------------------------------
(***************************************************************************)
(* The weakly connected components of a case (find_components in           *)
(* correlate/graph.py): its entities grouped by the relationships between  *)
(* them, whatever way those point.                                         *)
(***************************************************************************)
EXTENDS Relations, FiniteSetsExt

Sequence == INSTANCE SequencesExt

Ends(r) == {Source[r], Target[r]}
EndsOf(read) == UNION {Ends(r) : r \in read}

\* Variant: the arrows are followed one way only.
AroundForward(found, read) == found \cup {Target[r] : r \in {x \in read : Source[x] \in found}}

\* The entities found and those that undirected_adj has next to them.
Around(found, read) == found \cup EndsOf({r \in read : Ends(r) \cap found # {}})

\* The loop over `frontier': no component takes more rounds than it has entities.
Spread(start, read) ==
    LET after[k \in 0 .. Cardinality(EndsOf(read))] ==
            IF k = 0 THEN {start} ELSE Around(after[k - 1], read)
    IN after[Cardinality(EndsOf(read))]

\* The GraphComponents, each after those whose smallest id is smaller; min_size
\* filters what is listed.
Components(read, min_size) ==
    LET found == {Spread(e, read) : e \in EndsOf(read)}
        listed == {K \in found : Cardinality(K) >= min_size}
        Index(K) == 1 + Cardinality({L \in listed : Min(L) < Min(K)})
        Listed(i) == CHOOSE K \in listed : Index(K) = i
    IN [i \in {Index(K) : K \in listed} |->
          [entity_ids |-> Listed(i),
           relationships |-> {r \in read : Ends(r) \cap Listed(i) # {}}]]
=============================================================================

--------------------------- MODULE Contradictions ---------------------------
(***************************************************************************)
(* detect_time_contradictions (correlate/contradictions.py): the pairs of  *)
(* claims about one event that cannot both be true.                        *)
(***************************************************************************)
EXTENDS Observations

Distance(a, b) == IF ClaimOf[a].value < ClaimOf[b].value
                  THEN ClaimOf[b].value - ClaimOf[a].value
                  ELSE ClaimOf[a].value - ClaimOf[b].value

\* TimeAssertion.disagrees_with.
Disagree(a, b) ==
    /\ Event(a) = Event(b)
    /\ Distance(a, b) > ClaimOf[a].tolerance + ClaimOf[b].tolerance

\* Variant: only claims that are neighbours in the order of ids are compared.
NeighboursThatDisagree(of) ==
    {[pair |-> {x[1], x[2]}] :
        x \in {y \in of \X of :
                 /\ y[1] < y[2]
                 /\ Disagree(y[1], y[2])
                 /\ ~\E c \in of : /\ Event(c) = Event(y[1])
                                   /\ y[1] < c /\ c < y[2]}}

\* Every two claims of `of' about one event, in the order of their ids.
TimeContradictions(of) ==
    {[pair |-> {x[1], x[2]}] :
        x \in {y \in of \X of : y[1] < y[2] /\ Disagree(y[1], y[2])}}
=============================================================================

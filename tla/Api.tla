---------------------------------- MODULE Api ----------------------------------
(***************************************************************************)
(* The server of a case, as far as the frontend can tell: the service      *)
(* layer (service) behind the routes (api/routes).  Every request opens    *)
(* the case, reads or writes it in one step here, and closes it.  Another  *)
(* process may claim entities and relationships meanwhile; findings are    *)
(* tracked and reviewed through the server alone.                          *)
(***************************************************************************)
EXTENDS GraphParts

CONSTANTS
    Claimed,    \* Claimed[n]: the relationships of the case after n claims
    Thresholds, \* what an analysis can be asked for: min_gap_seconds, ...
    FoundAt,    \* FoundAt[t]: the gaps that find_gaps finds at threshold t
    Statuses,   \* the statuses an analyst gives: a subset of FindingStatus
    MaxDepth    \* the longest chain a path query looks for

MaxClaims == Len(Claimed) - 1

ASSUME ClaimedAssumption ==
    /\ Claimed \in Seq(SUBSET Relationships) /\ Len(Claimed) > 0
    /\ \A n \in DOMAIN Claimed : IsFiniteSet(Claimed[n])
    /\ \A m, n \in DOMAIN Claimed : m <= n => Claimed[m] \subseteq Claimed[n]
ASSUME FoundAssumption == DOMAIN FoundAt = Thresholds

VARIABLES
    claims,     \* how many claims another process has committed
    findings    \* the tracked findings: from the gap to its review

case == <<claims, findings>>

GapIds == UNION {FoundAt[t] : t \in Thresholds}
InitCase == claims = 0 /\ findings = [g \in {} |-> "open"]

\* The relationships and the entities of the case after n claims.
RelationshipsAt(n) == Claimed[n + 1]
EntitiesAt(n) == EndsOf(RelationshipsAt(n))

\* An import or a claim of the command line: entities and relationships at once.
Claim == claims < MaxClaims /\ claims' = claims + 1 /\ findings' = findings

-----------------------------------------------------------------------------
(***************************************************************************)
(* Requests that read.  What lists and views of the graph answer depends   *)
(* on nothing but the claims, which stand for it.                          *)
(***************************************************************************)
Answer(list) == IF list = "findings" THEN findings ELSE claims

\* /graph/path and /graph/paths: the shortest chains, of which `path' is one.
Chains(kind, source, target, n) ==
    LET read == RelationshipsAt(n)
        least == CHOOSE k \in 0 .. MaxDepth + 1 :
                    \/ IsDistance(k, source, target, read, "out", MaxDepth)
                    \/ k = MaxDepth + 1 /\ Hops(source, target, read, "out", MaxDepth) = {}
        chains == IF least > MaxDepth THEN {}
                  ELSE Walks(source, target, read, "out", least)
    IN IF kind = "path" /\ chains # {} THEN {CHOOSE w \in chains : TRUE} ELSE chains

\* /graph/components, for every state of the graph.
ComponentsAt == [n \in 0 .. MaxClaims |-> Components(RelationshipsAt(n), 1)]

\* /graph/neighbors: what an entity is next to, and the step that leads there.
Reached(e, n) == StepsFrom(e, RelationshipsAt(n), "out")

\* Requests that write, each in a transaction of its own: /gaps/track keeps the
\* review of what is tracked already, /findings/{id}/ack replaces it.
Track(t) ==
    findings' = [g \in DOMAIN findings \cup FoundAt[t] |->
                   IF g \in DOMAIN findings THEN findings[g] ELSE "open"]

Acknowledge(g, status) == findings' = [findings EXCEPT ![g] = status]
=============================================================================

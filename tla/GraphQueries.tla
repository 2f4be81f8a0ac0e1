----------------------------- MODULE GraphQueries -----------------------------
(***************************************************************************)
(* One `graph neighbors', `graph path' or `graph paths' query (find_       *)
(* neighbors, find_path and find_all_shortest_paths of correlate/graph.py, *)
(* as the commands and the API call them), while other processes claim     *)
(* further relationships in the same case.                                 *)
(*                                                                         *)
(* Each _build_adjacency is a SELECT of its own, outside any transaction:  *)
(* find_all_shortest_paths reads the relationships three times.  A query   *)
(* keeps nothing from an earlier one, so there is one here.  Entities are  *)
(* never removed: those of a query exist (the commands check), and its     *)
(* depth and limit are valid.                                              *)
(***************************************************************************)
EXTENDS BreadthFirst

CONSTANTS
    Requests,   \* the queries that can be asked
    Claimed,    \* sets of relationships a case can hold to begin with
    MaxClaims   \* bound on the relationships claimed meanwhile

ASSUME RequestsAssumption ==
    Requests \subseteq [ask : {"neighbors", "path", "paths"}, source : Entities,
                        target : Entities, max_depth : Nat \ {0},
                        direction : Directions, limit : Nat \ {0}]
ASSUME ClaimedAssumption ==
    /\ Claimed \subseteq SUBSET Relationships
    /\ \A read \in Claimed : IsFiniteSet(read)
ASSUME MaxClaimsIsNat == MaxClaims \in Nat

VARIABLES
    stored,     \* the relationships of the case
    claims,     \* how many of them were claimed meanwhile
    asked,      \* history: what was stored when the query was asked
    request,    \* the query
    pc,         \* what it does next
    forth,      \* dist_from_source
    dag,        \* dag_adj
    left,       \* the steps each call of dfs has still to try, outermost first
    chain,      \* current_chain
    paths,      \* found_paths
    answer      \* the result

query == <<asked, request, pc, forth, dag, left, chain, paths, answer>>
vars == <<search, stored, claims, query>>

NoAnswer == [found |-> FALSE, hops |-> 0, chains |-> <<>>, truncated |-> FALSE]
Found(hops, chains, truncated) ==
    [found |-> TRUE, hops |-> hops, chains |-> chains, truncated |-> truncated]

Init == /\ stored \in Claimed
        /\ claims = 0
        /\ request \in Requests
        /\ SearchFrom(request.source, {}, request.direction, request.max_depth)
        /\ asked = stored
        /\ pc = "ask"
        /\ forth = Distance
        /\ dag = [e \in {} |-> {}]
        /\ left = <<>> /\ chain = <<>> /\ paths = <<>>
        /\ answer = NoAnswer

-----------------------------------------------------------------------------
Answer(a) == /\ answer' = a
             /\ pc' = "answered"
             /\ UNCHANGED <<asked, request, forth, dag, left, chain, paths>>

\* source = target: `trivially connected, 0 hops', without a look at the case, ...
AskTrivial == /\ pc = "ask"
              /\ request.ask # "neighbors"
              /\ request.source = request.target
              /\ Answer(Found(0, <<<<>>>>, FALSE))
              /\ UNCHANGED <<search, stored, claims>>

\* ... or the first search, on what the case holds now.
Ask == /\ pc = "ask"
       /\ request.ask = "neighbors" \/ request.source # request.target
       /\ asked' = stored
       /\ StartSearch(request.source, stored, request.direction, request.max_depth)
       /\ pc' = "forth"
       /\ UNCHANGED <<stored, claims, request, forth, dag, left, chain, paths, answer>>

Search == /\ pc \in {"forth", "back"}
          /\ SearchStep
          /\ UNCHANGED <<stored, claims, query>>

\* find_neighbors: what has been discovered is the answer.
AnswerNeighbors == /\ pc = "forth"
                   /\ SearchEnded
                   /\ request.ask = "neighbors"
                   /\ Answer(Found(0, <<>>, FALSE))
                   /\ UNCHANGED <<search, stored, claims>>

\* `if target_entity_id not in discovered'.
AnswerNone == /\ pc = "forth"
              /\ SearchEnded
              /\ request.ask # "neighbors"
              /\ request.target \notin visited
              /\ Answer(NoAnswer)
              /\ UNCHANGED <<search, stored, claims>>

\* find_path: from the target back, the step that discovered each entity.
StartTrace == /\ pc = "forth"
              /\ SearchEnded
              /\ request.ask = "path"
              /\ request.target \in visited
              /\ pc' = "trace"
              /\ UNCHANGED <<search, stored, claims, asked, request, forth, dag, left,
                             chain, paths, answer>>

Current == IF chain = <<>> THEN request.target ELSE chain[1].from

Trace == /\ pc = "trace"
         /\ Current # request.source
         /\ chain' = <<discovered[Current].step>> \o chain
         /\ UNCHANGED <<search, stored, claims, asked, request, pc, forth, dag, left,
                        paths, answer>>

AnswerPath == /\ pc = "trace"
              /\ Current = request.source
              /\ Answer(Found(Len(chain), <<chain>>, FALSE))
              /\ UNCHANGED <<search, stored, claims>>

\* find_all_shortest_paths: the second search, on what the case holds by then.
Return == /\ pc = "forth"
          /\ SearchEnded
          /\ request.ask = "paths"
          /\ request.target \in visited
          /\ forth' = Distance
          /\ StartSearch(request.target, stored, Reverse(request.direction),
                         request.max_depth)
          /\ pc' = "back"
          /\ UNCHANGED <<stored, claims, asked, request, dag, left, chain, paths, answer>>

\* on_some_shortest_chain, by the distances of the two searches.
OnShortest(e) == /\ e \in DOMAIN forth
                 /\ e \in visited
                 /\ forth[e] + Distance[e] = forth[request.target]

\* The third read, and the subgraph of the shortest chains in it; dfs is called.
Pruned(read) ==
    [e \in {x \in DOMAIN forth : forth[x] < forth[request.target] /\ OnShortest(x)} |->
       {s \in StepsFrom(e, read, request.direction) :
          OnShortest(s.to) /\ forth[s.to] = forth[e] + 1}]

StepsAlong(graph, e) == IF e \in DOMAIN graph THEN graph[e] ELSE {}

Prune == /\ pc = "back"
         /\ SearchEnded
         /\ dag' = Pruned(stored)
         /\ left' = <<StepsAlong(dag', request.source)>>
         /\ pc' = "enumerate"
         /\ UNCHANGED <<search, stored, claims, asked, request, forth, chain, paths, answer>>

\* The step that dfs tries next: by to_entity_id, then by relationship id.
Before(s, t) == \/ s.to < t.to
                \/ s.to = t.to /\ s.rel < t.rel

Untried == IF left = <<>> THEN {} ELSE left[Len(left)]
Tries(s) == /\ pc = "enumerate"
            /\ Len(paths) <= request.limit
            /\ s \in Untried
            /\ \A t \in Untried \ {s} : Before(s, t)

\* Variant: the step is not marked as tried.
ArriveAgain(s) ==
    /\ s.to = request.target
    /\ paths' = Append(paths, Append(chain, s))
    /\ UNCHANGED <<search, stored, claims, asked, request, pc, forth, dag, left, chain,
                   answer>>

\* The step reaches the target, ...
Arrive(s) == /\ s.to = request.target
             /\ paths' = Append(paths, Append(chain, s))
             /\ left' = [left EXCEPT ![Len(left)] = @ \ {s}]
             /\ UNCHANGED <<search, stored, claims, asked, request, pc, forth, dag, chain,
                            answer>>

\* ... or an entity on the way to it; ...
Descend(s) == /\ s.to # request.target
              /\ chain' = Append(chain, s)
              /\ left' = Append([left EXCEPT ![Len(left)] = @ \ {s}], StepsAlong(dag, s.to))
              /\ UNCHANGED <<search, stored, claims, asked, request, pc, forth, dag, paths,
                             answer>>

Front(seq) == SubSeq(seq, 1, Len(seq) - 1)

\* ... dfs returns when it has tried every step, or one path too many is found.
Retreat == /\ pc = "enumerate"
           /\ left # <<>>
           /\ Untried = {} \/ Len(paths) > request.limit
           /\ left' = Front(left)
           /\ chain' = IF chain = <<>> THEN <<>> ELSE Front(chain)
           /\ UNCHANGED <<search, stored, claims, asked, request, pc, forth, dag, paths,
                          answer>>

AnswerPaths ==
    /\ pc = "enumerate"
    /\ left = <<>>
    /\ LET shown == IF Len(paths) > request.limit THEN request.limit ELSE Len(paths)
       IN Answer(Found(forth[request.target], SubSeq(paths, 1, shown),
                       Len(paths) > request.limit))
    /\ UNCHANGED <<search, stored, claims>>

Query == \/ AskTrivial
         \/ Ask
         \/ Search
         \/ AnswerNeighbors
         \/ AnswerNone
         \/ StartTrace
         \/ Trace
         \/ AnswerPath
         \/ Return
         \/ Prune
         \/ \E s \in Untried : Tries(s) /\ (Arrive(s) \/ Descend(s))
         \/ Retreat
         \/ AnswerPaths

\* Another process claims a relationship (module Relations says which there are).
Claim == /\ claims < MaxClaims
         /\ pc # "answered"
         /\ \E r \in Relationships \ stored : stored' = stored \cup {r}
         /\ claims' = claims + 1
         /\ UNCHANGED <<search, query>>

Answered == pc = "answered" /\ UNCHANGED vars

Next == Query \/ Claim \/ Answered

\* A query is a loop in one process: it goes on until it is answered.
Spec == Init /\ [][Next]_vars /\ WF_vars(Query)

-----------------------------------------------------------------------------
Chains == Seq(Steps)

IsAnswer(a) == /\ a = Found(a.hops, a.chains, a.truncated) \/ a = NoAnswer
               /\ a.hops \in Nat /\ a.truncated \in BOOLEAN
               /\ a.chains \in Seq(Chains)

\* The types of the variables, and the query's progress: dfs holds one list of
\* steps for each step of its chain, and one for the source.
TypeOK ==
    /\ SearchOK
    /\ stored \in SUBSET Relationships
    /\ claims \in 0 .. MaxClaims
    /\ asked \subseteq stored
    /\ request \in Requests
    /\ pc \in {"ask", "forth", "trace", "back", "enumerate", "answered"}
    /\ \A e \in DOMAIN forth : forth[e] \in 0 .. request.max_depth
    /\ \A e \in DOMAIN dag : dag[e] \subseteq Steps
    /\ chain \in Chains
    /\ pc = "enumerate" /\ left # <<>> => Len(left) = Len(chain) + 1
    /\ left \in Seq(SUBSET Steps)
    /\ paths \in Seq(Chains)
    /\ Len(paths) <= request.limit + 1
    /\ IsAnswer(answer)

IsAnswered(ask) == pc = "answered" /\ request.ask = ask

\* The distance of the query, n, in the graph that has these relationships.
AtDistance(n, e, graph) ==
    IsDistance(n, request.source, e, graph, request.direction, request.max_depth)
Reachable(e, graph) == Hops(request.source, e, graph, request.direction, request.max_depth) # {}
ShortestChains(n, graph) ==
    Walks(request.source, request.target, graph, request.direction, n)

\* find_neighbors: the entities within max_depth hops, each at its distance in
\* the case as it was when the query read it.
NeighborsExact ==
    IsAnswered("neighbors") =>
        \A e \in Entities \ {request.source} :
            /\ e \in DOMAIN discovered <=> Reachable(e, asked)
            /\ e \in DOMAIN discovered => AtDistance(discovered[e].hop, e, asked)

\* find_path: one of the shortest chains of the case as it was when the query
\* read it, `or none exists within max_depth'.
OneShortestChain ==
    IsAnswered("path") =>
        /\ answer.found <=> Reachable(request.target, asked)
        /\ answer.found => /\ AtDistance(answer.hops, request.target, asked)
                           /\ answer.chains[1] \in ShortestChains(answer.hops, asked)

\* find_all_shortest_paths, of a case that stood still meanwhile: every chain
\* tied for shortest, or limit of them and `truncated reports honestly that more
\* exist beyond the cap'.
AllShortestChains ==
    IsAnswered("paths") /\ stored = asked =>
        LET Shown == {answer.chains[i] : i \in DOMAIN answer.chains}
        IN  /\ answer.found <=> Reachable(request.target, asked)
            /\ answer.found =>
                 /\ AtDistance(answer.hops, request.target, asked)
                 /\ Shown \subseteq ShortestChains(answer.hops, asked)
                 /\ answer.truncated <=>
                      Cardinality(ShortestChains(answer.hops, asked)) > request.limit
                 /\ IF answer.truncated THEN Cardinality(Shown) = request.limit
                    ELSE Shown = ShortestChains(answer.hops, asked)

ShortestExact == OneShortestChain /\ AllShortestChains

\* A walk through relationships of the case, each step leaving from where the
\* one before arrived.
IsWalk(w, a, b) ==
    /\ w # <<>>
    /\ w[1].from = a
    /\ w[Len(w)].to = b
    /\ \A i \in 1 .. Len(w) : w[i] \in StepsOf(stored, request.direction)
    /\ \A i \in 1 .. Len(w) - 1 : w[i].to = w[i + 1].from

\* Whichever states of the case its reads saw, and whatever has been claimed
\* since, a query reports chains of relationships of the case, from source to
\* target, each as long as it says, none of them twice and no more than limit.
ChainsHold ==
    /\ Len(answer.chains) <= request.limit
    /\ \A i \in 1 .. Len(answer.chains) :
          /\ \/ IsWalk(answer.chains[i], request.source, request.target)
             \/ request.source = request.target /\ answer.chains[i] = <<>>
          /\ Len(answer.chains[i]) = answer.hops
          /\ \A j \in 1 .. Len(answer.chains) :
                answer.chains[i] = answer.chains[j] => i = j

\* A query is answered, cycles in the graph or not.
EveryQueryAnswered == <>(pc = "answered")
=============================================================================

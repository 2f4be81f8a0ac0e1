-------------------------------- MODULE Explorer --------------------------------
(***************************************************************************)
(* The graph view: the lists and components beside it, the graph drawn     *)
(* (graph/GraphPanel.tsx, graph/elements.ts, graph/CytoscapeGraph.tsx) and *)
(* the search for paths below it (components/PathExplorer.tsx).            *)
(***************************************************************************)
EXTENDS AppShell

CONSTANTS
    Asks,   \* the pairs of entities that paths are sought between
    Tabs,   \* bound: the tabs of the sidebar that are opened
    Edges   \* bound: the relationships that are selected

OnGraph == OnScreen("graph", app, cache)
ListedEntities(c) == EntitiesAt(Read("entities", c))
ListedRelationships(c) == RelationshipsAt(Read("relationships", c))

EdgesOf(chains) == {step.rel : step \in UNION {Sequence!ToSet(w) : w \in chains}}
Large(c) == Cardinality(ListedEntities(c)) > WarnAbove

\* Variant: a neighbourhood is drawn without the entity it is of.
EgoElementsReached(e, n) ==
    [nodes |-> {s.to : s \in Reached(e, n)}, edges |-> {s.rel : s \in Reached(e, n)}]

\* egoNetworkElements.
EgoElements(e, n) ==
    [nodes |-> {e} \cup {s.to : s \in Reached(e, n)},
     edges |-> {s.rel : s \in Reached(e, n)}]

\* The elements given to Cytoscape, which takes an edge only between nodes it has.
\* (A step runs between the ends of its relationship, Relations!StepsOf: those of
\* the chains stand for the entities of their steps.)
Drawn(a, c) ==
    LET none == [nodes |-> {}, edges |-> {}]
        ego == Query("neighbors", a.picked.id)
    IN CASE Mode(a) = "path" ->
              [nodes |-> EndsOf(EdgesOf(a.overlay)), edges |-> EdgesOf(a.overlay)]
         [] Mode(a) = "component" ->
              LET part == CHOOSE part \in a.focus : TRUE
              IN [nodes |-> part.entity_ids, edges |-> part.relationships]
         [] Mode(a) = "ego" ->
              IF ego \in Neighbors /\ a.picked.kind = "entity" /\ c[ego].data # {}
              THEN EgoElements(a.picked.id, CHOOSE n \in c[ego].data : TRUE)
              ELSE none
         [] OTHER -> IF Large(c) /\ ~a.forced THEN none
                     ELSE [nodes |-> ListedEntities(c), edges |-> ListedRelationships(c)]

-----------------------------------------------------------------------------
(***************************************************************************)
(* What is selected, focused and shown.                                    *)
(***************************************************************************)

\* selectEntity and selectRelationship, from a list or from the graph drawn: one
\* selection replaces the other.
Selectable ==
    LET drawn == Drawn(app, cache)
        Of(kind, ids) == {[kind |-> kind, id |-> id] : id \in ids}
    IN {Nothing} \cup Of("entity", (drawn.nodes \cup ListedEntities(cache)) \cap Origins)
                 \cup Of("relationship",
                      (drawn.edges \cup ListedRelationships(cache)) \cap Edges)

Select ==
    OnGraph /\ \E picked \in Selectable \ {app.picked} : Set([app EXCEPT !.picked = picked])

OpenTab(tab) == OnGraph /\ tab # app.tab /\ Set([app EXCEPT !.tab = tab])

\* ComponentsPanel: a click on the component in focus gives the focus up; the
\* button of a component is known by its index.
FocusComponent ==
    /\ OnGraph /\ app.tab = "components"
    /\ cache[Query("components", 0)].data # {}
    /\ cache[Query("components", 0)].status # "error"
    /\ LET listed == ComponentsAt[Read("components", cache)]
       IN \E i \in DOMAIN listed :
             Set([app EXCEPT !.overlay = {},
                             !.focus = IF \E part \in @ : part.index = i THEN {}
                                       ELSE {[index |-> i, entity_ids |-> listed[i].entity_ids,
                                              relationships |-> listed[i].relationships]}])

ClearOverlay == OnGraph /\ app.overlay # {} /\ Set([app EXCEPT !.overlay = {}])
ClearComponent == OnGraph /\ Mode(app) = "component" /\ Set([app EXCEPT !.focus = {}])
FocusSelected ==
    /\ OnGraph /\ Mode(app) = "full" /\ app.picked.kind = "entity"
    /\ Set([app EXCEPT !.mode = "ego"])

ShowFullGraph ==
    /\ OnGraph /\ Mode(app) = "ego"
    /\ Set([app EXCEPT !.mode = "full", !.picked = Nothing])

ShowAnyway ==
    /\ OnGraph /\ Mode(app) = "full" /\ Large(cache) /\ ~app.forced
    /\ Set([app EXCEPT !.forced = TRUE])

-----------------------------------------------------------------------------
(***************************************************************************)
(* Paths.  Neither button waits for the answer to the other.               *)
(***************************************************************************)
FindPath(kind, ask) ==
    /\ OnGraph /\ {ask.source, ask.target} \subseteq ListedEntities(cache)
    /\ Mutate(kind, ask)

\* What the server would answer, for every state of the graph.
ChainsAt ==
    [n \in 0 .. MaxClaims, kind \in {"path", "paths"}, ask \in Asks |->
       Chains(kind, ask.source, ask.target, n)]

\* What it answers now.
ChainsNow(kind, ask) == ChainsAt[claims, kind, ask]

ServePath(call) ==
    /\ call.kind \in {"path", "paths"}
    /\ Respond(call, ChainsNow(call.kind, call.of))
    /\ UNCHANGED case

\* What is highlighted of an answer: chains that have a step.
Highlighted(chains) == IF chains \ {<<>>} # {} THEN chains ELSE {}

\* Variant: the highlight is set and the component stays in focus.
OverlaidFocused(chains, owned) ==
    [app EXCEPT !.overlay = Highlighted(chains), !.owned = owned]

\* onOverlay.
Overlaid(chains, owned) ==
    [app EXCEPT !.overlay = Highlighted(chains), !.owned = owned, !.focus = {}]

\* onSuccess: a component that has gone keeps no result, and App the overlay.
ShowPath(call) ==
    LET chains == Answered(call)
        now == Overlaid(chains, call.mine)
    IN /\ call.kind \in {"path", "paths"}
       /\ Deliver(call,
                  IF ~call.mine THEN now
                  ELSE [now EXCEPT !.path = IF call.kind = "path" THEN {chains} ELSE {},
                                   !.paths = IF call.kind = "paths" THEN {chains} ELSE {}],
                  cache)

ExplorerStep ==
    \/ Select
    \/ \E tab \in Tabs : OpenTab(tab)
    \/ FocusComponent
    \/ ClearOverlay
    \/ ClearComponent
    \/ FocusSelected
    \/ ShowFullGraph
    \/ ShowAnyway
    \/ \E kind \in {"path", "paths"}, ask \in Asks : FindPath(kind, ask)
    \/ \E call \in calls : ServePath(call) \/ ShowPath(call)

-----------------------------------------------------------------------------
(***************************************************************************)
(* Properties.                                                             *)
(***************************************************************************)

\* The graph highlights what the search on the screen last answered: one of the
\* two results is shown, an overlay is either that result's or was set by a
\* search of which the view has gone, and it excludes a component in focus.
OverlayMatchesResult ==
    /\ app.path = {} \/ app.paths = {}
    /\ app.overlay = {} \/ app.focus = {}
    /\ app.owned /\ app.overlay # {} => app.overlay \in app.path \cup app.paths

\* Cytoscape is never given a relationship without both its entities, in any of
\* the four ways to draw, unless the entities were listed before a claim and the
\* relationships after it: App reads the two lists in requests of their own.
DrawnClosed ==
    OnGraph =>
        LET drawn == Drawn(app, cache)
        IN \/ EndsOf(drawn.edges) \subseteq drawn.nodes
           \/ /\ Mode(app) = "full"
              /\ Read("entities", cache) < Read("relationships", cache)
=============================================================================

-------------------------------- MODULE AppShell --------------------------------
(***************************************************************************)
(* The state of the frontend (frontend/src/App.tsx): which view is shown,  *)
(* what is selected, highlighted and focused, the query cache, and the     *)
(* calls under way.  A view's own state goes when the view does; the calls *)
(* it began do not, and their handlers still run.                          *)
(***************************************************************************)
EXTENDS Api, QueryClient

CONSTANTS
    Views,      \* the views visited, of TOP_VIEWS
    Origins,    \* the entities whose neighbourhood is looked at
    WarnAbove,  \* FULL_GRAPH_WARNING_THRESHOLD
    Unreliable, \* bound: the lists that a fetch may fail to read
    Forgotten,  \* bound: the lists that the cache may drop
    MaxCalls    \* bound: calls under way at a time

ASSUME ViewsAssumption == "graph" \in Views

VARIABLES
    app,    \* useState of App, and of the panels of the view shown
    cache,  \* the query cache
    calls   \* mutations that have been begun and not been answered

vars == <<case, app, cache, calls>>

Query(list, of) == [list |-> list, of |-> of]
Overview == Query("case", 0)
Lists == {Query(list, 0) : list \in {"entities", "relationships"}}
Findings == Query("findings", 0)
Neighbors == {Query("neighbors", e) : e \in Origins}
Queries == {Overview, Findings, Query("components", 0)} \cup Lists \cup Neighbors

Read(name, c) == CHOOSE n \in c[Query(name, 0)].data : TRUE

\* App returns its views only once the overview and both lists have been read,
\* and not after a fetch of the overview that failed.
Shown(c) == c[Overview].status = "success" /\ \A q \in Lists : c[q].data # {}
OnScreen(view, a, c) == a.view = view /\ Shown(c)

\* effectiveMode of GraphPanel.  `overlay' is empty for no overlay.
Mode(a) == CASE a.overlay # {} -> "path"
             [] a.overlay = {} /\ a.focus # {} -> "component"
             [] OTHER -> a.mode

\* The queries that mounted components use (useQuery and its `enabled').
Active(q, a, c) ==
    \/ q = Overview
    \/ q \in Lists /\ c[Overview].status = "success"
    \/ q = Findings /\ OnScreen("findings", a, c)
    \/ q = Query("components", 0) /\ OnScreen("graph", a, c) /\ a.tab = "components"
    \/ /\ q \in Neighbors
       /\ OnScreen("graph", a, c) /\ Mode(a) = "ego"
       /\ a.picked = [kind |-> "entity", id |-> q.of]

Nothing == [kind |-> "none", id |-> 0]

\* What the panels of a view begin with.  `owned' is not in the code: the overlay
\* was set by the PathExplorer on the screen.
Mounted(a, c) ==
    [a EXCEPT !.mode = IF Shown(c) /\ Cardinality(EntitiesAt(Read("entities", c))) > WarnAbove
                       THEN "ego" ELSE "full",
              !.forced = FALSE, !.path = {}, !.paths = {}, !.analysed = FALSE,
              !.owned = FALSE]

InitApp ==
    /\ cache = [q \in Queries |-> IF q = Overview THEN Started(Unread) ELSE Unread]
    /\ calls = {}
    /\ app = [view |-> "graph", tab |-> "entities", picked |-> Nothing,
              overlay |-> {}, focus |-> {}, mode |-> "full", forced |-> FALSE,
              path |-> {}, paths |-> {}, analysed |-> FALSE, owned |-> FALSE]

\* React renders what a handler has left: a view that appears begins anew, and
\* queries that were not in use and now are begin to be fetched.
Render(a, c, d) ==
    LET remounted == \/ a.view # app.view
                     \/ Shown(c) # Shown(cache)
        now == IF remounted THEN Mounted(a, c) ELSE a
    IN /\ app' = now
       /\ cache' = [q \in Queries |-> IF Active(q, now, c) /\ ~Active(q, app, cache)
                                      THEN Used(c[q]) ELSE c[q]]
       /\ calls' = IF remounted THEN {[call EXCEPT !.mine = FALSE] : call \in d} ELSE d

Set(a) == Render(a, cache, calls) /\ UNCHANGED case

\* The tabs of TOP_VIEWS.
GoTo(view) ==
    /\ Shown(cache) /\ view # app.view
    /\ Set([app EXCEPT !.view = view])

-----------------------------------------------------------------------------
(***************************************************************************)
(* Fetches and calls (api/client.ts).  Answers come in any order, or not.  *)
(***************************************************************************)
Fetched(q, entry) ==
    Render(app, [cache EXCEPT ![q] = entry], calls) /\ UNCHANGED case

ServeFetch(q) ==
    /\ cache[q].fetching /\ cache[q].answer = {}
    /\ Fetched(q, Served(cache[q], Answer(q.list)))

FetchSucceeds(q) == cache[q].answer # {} /\ Fetched(q, Succeeded(cache[q]))
FetchFails(q) ==
    cache[q].fetching /\ q.list \in Unreliable /\ Fetched(q, Failed(cache[q]))

\* gcTime: what no component has used for long is dropped.
Drop(q) ==
    /\ q.list \in Forgotten
    /\ ~Active(q, app, cache) /\ ~cache[q].fetching /\ cache[q] # Unread
    /\ Fetched(q, Unread)

FetchStep ==
    \E q \in Queries :
        ServeFetch(q) \/ FetchSucceeds(q) \/ FetchFails(q) \/ Drop(q)

\* useMutation: the component calls mutate.  Calls alike are numbered.
Mutate(kind, of) ==
    LET alike == {call \in calls : call.kind = kind /\ call.of = of}
        number == Min(1 .. MaxCalls \ {call.number : call \in alike})
    IN /\ Cardinality(calls) < MaxCalls
       /\ calls' = calls \cup {[kind |-> kind, of |-> of, number |-> number,
                                answer |-> {}, mine |-> TRUE]}
       /\ UNCHANGED <<case, app, cache>>

\* The server answers a call: what it answers is kept until it is delivered.
Respond(call, answer) ==
    /\ call \in calls /\ call.answer = {}
    /\ calls' = (calls \ {call}) \cup {[call EXCEPT !.answer = {answer}]}
    /\ UNCHANGED <<app, cache>>

Answered(call) == CHOOSE answer \in call.answer : TRUE

\* Its onSuccess, whether or not the component that called is still there.
Deliver(call, a, c) ==
    /\ call \in calls /\ call.answer # {}
    /\ Render(a, c, calls \ {call}) /\ UNCHANGED case

\* The server is not reached or refuses, or its answer is lost: a write may have
\* been made that nothing is told of.
CallFails(call) ==
    /\ Render(app,
              IF call.kind \in {"track", "ack"} /\ call.answer # {}
              THEN [cache EXCEPT ![Findings].missed = TRUE] ELSE cache,
              calls \ {call})
    /\ UNCHANGED case

ClaimElsewhere == Claim /\ UNCHANGED <<app, cache, calls>>

ShellStep ==
    \/ \E view \in Views : GoTo(view)
    \/ FetchStep
    \/ \E call \in calls : CallFails(call)
    \/ ClaimElsewhere
=============================================================================

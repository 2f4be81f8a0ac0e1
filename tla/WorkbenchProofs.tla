---------------------------- MODULE WorkbenchProofs ----------------------------
(***************************************************************************)
(* For any case, server, views and bounds: the graph highlights what the   *)
(* search on the screen last answered, it draws no relationship without    *)
(* its entities, and the findings view settles on what the case holds.     *)
(***************************************************************************)
EXTENDS Workbench, FiniteSetTheorems, WellFoundedInduction, TLAPS

\* The fields of the records of the state.
AppFields == {"view", "tab", "picked", "overlay", "focus", "mode", "forced", "path",
              "paths", "analysed", "owned"}
EntryFields == {"status", "data", "fetching", "answer", "missed"}
CallFields == {"kind", "of", "number", "answer", "mine"}

\* An answer waits only for a fetch that is under way.
EntryOK(entry) == DOMAIN entry = EntryFields /\ (~entry.fetching => entry.answer = {})
CacheOK(c) == DOMAIN c = Queries /\ \A q \in Queries : EntryOK(c[q])
CallsOK(d) == \A call \in d : DOMAIN call = CallFields

ShellOK == DOMAIN app = AppFields /\ CacheOK(cache) /\ CallsOK(calls)

\* OverlayMatchesResult, of any state of the app.
Matches(a) ==
    /\ a.path = {} \/ a.paths = {}
    /\ a.overlay = {} \/ a.focus = {}
    /\ a.owned /\ a.overlay # {} => a.overlay \in a.path \cup a.paths

\* A write has been answered, and its answer not been delivered.
Unannounced(d) == \E call \in d : call.kind \in {"track", "ack"} /\ call.answer # {}

\* Unless a write is unannounced or missed, a fetch has been answered, and the
\* view shows, what the case holds.
FreshIn(c, d) ==
    ~Unannounced(d) /\ ~c[Findings].missed =>
        /\ c[Findings].answer \subseteq {findings}
        /\ /\ OnScreen("findings", app, cache)
           /\ ~c[Findings].fetching
           /\ c[Findings].status = "success"
           => c[Findings].data = {findings}

Fresh == FreshIn(cache, calls)

IInv == ShellOK /\ Matches(app) /\ Fresh

-----------------------------------------------------------------------------
LEMMA FindingsIsQuery == Findings \in Queries /\ Findings # Overview /\ Findings \notin Lists
                         /\ Findings \notin Neighbors /\ Findings # Query("components", 0)
BY DEF Findings, Queries, Overview, Lists, Neighbors, Query

LEMMA ListsAreQueries == Overview \in Queries /\ Lists \subseteq Queries
BY DEF Overview, Lists, Queries

\* The query of the findings is in use exactly while they are on the screen.
LEMMA FindingsActive ==
    ASSUME NEW a, NEW c
    PROVE  Active(Findings, a, c) <=> OnScreen("findings", a, c)
BY FindingsIsQuery DEF Active

LEMMA StartedOK ==
    ASSUME NEW entry, EntryOK(entry)
    PROVE  /\ EntryOK(Started(entry)) /\ EntryOK(Used(entry))
           /\ Started(entry).fetching /\ Started(entry).answer = {}
           /\ Used(entry).data = entry.data /\ Used(entry).fetching
BY DEF EntryOK, EntryFields, Started, Used

LEMMA InvalidatedOK ==
    ASSUME NEW entry, EntryOK(entry), NEW active \in BOOLEAN
    PROVE  EntryOK(Invalidated(entry, active))
BY StartedOK DEF EntryOK, EntryFields, Started, Invalidated

\* What Render leaves of the app and of the calls.
LEMMA RenderedApp ==
    ASSUME NEW a, NEW c, NEW d, Render(a, c, d), DOMAIN a = AppFields, Matches(a), CallsOK(d)
    PROVE  /\ DOMAIN app' = AppFields /\ Matches(app)'
           /\ CallsOK(calls') /\ (Unannounced(calls') <=> Unannounced(d))
<1>1. app' = a \/ app' = Mounted(a, c)
  BY DEF Render
<1>2. DOMAIN app' = AppFields /\ Matches(app')
  BY <1>1 DEF Mounted, AppFields, Matches
<1>3. calls' = d \/ calls' = {[call EXCEPT !.mine = FALSE] : call \in d}
  BY DEF Render
<1>4. CASE calls' = d
  BY <1>2, <1>4
<1>5. CASE calls' = {[call EXCEPT !.mine = FALSE] : call \in d}
  <2>1. \A call \in d : LET e == [call EXCEPT !.mine = FALSE]
                        IN DOMAIN e = CallFields /\ e.kind = call.kind /\ e.answer = call.answer
    BY DEF CallsOK, CallFields
  <2>2. CallsOK(calls')
    BY <1>5, <2>1 DEF CallsOK
  <2>3. ASSUME Unannounced(d) PROVE Unannounced(calls')
    <3>1. PICK call \in d : call.kind \in {"track", "ack"} /\ call.answer # {}
      BY <2>3 DEF Unannounced
    <3>2. [call EXCEPT !.mine = FALSE] \in calls'
      BY <1>5
    <3> QED BY <2>1, <3>1, <3>2 DEF Unannounced
  <2>4. ASSUME Unannounced(calls') PROVE Unannounced(d)
    <3>1. PICK e \in calls' : e.kind \in {"track", "ack"} /\ e.answer # {}
      BY <2>4 DEF Unannounced
    <3>2. PICK call \in d : e = [call EXCEPT !.mine = FALSE]
      BY <1>5
    <3> QED BY <2>1, <3>1, <3>2 DEF Unannounced
  <2> QED BY <1>2, <2>2, <2>3, <2>4
<1> QED BY <1>3, <1>4, <1>5

\* What Render leaves of the query cache.
LEMMA RenderedCache ==
    ASSUME NEW a, NEW c, NEW d, Render(a, c, d), CacheOK(c)
    PROVE  /\ CacheOK(cache')
           /\ Shown(cache') <=> Shown(c)
           /\ cache'[Findings] =
                IF OnScreen("findings", app', cache') /\ ~OnScreen("findings", app, cache)
                THEN Used(c[Findings]) ELSE c[Findings]
<1> DEFINE New(q) == Active(q, app', c) /\ ~Active(q, app, cache)
<1>1. cache' = [q \in Queries |-> IF New(q) THEN Used(c[q]) ELSE c[q]]
  BY DEF Render
<1>2. CacheOK(cache')
  BY <1>1, StartedOK DEF CacheOK
<1>3. ~New(Overview)
  BY DEF Active
<1>4. cache'[Overview] = c[Overview] /\ \A q \in Lists : cache'[q].data = c[q].data
  BY <1>1, <1>3, StartedOK, ListsAreQueries DEF CacheOK
<1>5. Shown(cache') <=> Shown(c)
  BY <1>4 DEF Shown
<1>6. New(Findings) <=> OnScreen("findings", app', cache') /\ ~OnScreen("findings", app, cache)
  BY <1>5, FindingsActive DEF OnScreen
<1> QED BY <1>1, <1>2, <1>5, <1>6, FindingsIsQuery

\* An action that renders keeps the invariant if what it renders is fresh.
LEMMA RenderKeeps ==
    ASSUME NEW a, NEW c, NEW d, Render(a, c, d), findings' = findings,
           DOMAIN a = AppFields, Matches(a), CacheOK(c), CallsOK(d), FreshIn(c, d)
    PROVE  IInv'
<1>1. ShellOK' /\ Matches(app)'
  BY RenderedApp, RenderedCache DEF ShellOK
<1>2. ASSUME ~Unannounced(calls'), ~cache'[Findings].missed
      PROVE  /\ cache'[Findings].answer \subseteq {findings}
             /\ /\ OnScreen("findings", app', cache')
                /\ ~cache'[Findings].fetching
                /\ cache'[Findings].status = "success"
                => cache'[Findings].data = {findings}
  <2>1. ~Unannounced(d)
    BY <1>2, RenderedApp
  <2>2. EntryOK(c[Findings])
    BY FindingsIsQuery DEF CacheOK
  <2>3. CASE /\ OnScreen("findings", app', cache') /\ ~OnScreen("findings", app, cache)
             /\ ~c[Findings].fetching
    <3>1. cache'[Findings] = Started(c[Findings])
      BY <2>3, RenderedCache DEF Used
    <3> QED BY <2>2, <3>1, StartedOK
  <2>4. CASE /\ OnScreen("findings", app', cache') /\ ~OnScreen("findings", app, cache)
             /\ c[Findings].fetching
    <3>1. cache'[Findings] = c[Findings]
      BY <2>4, RenderedCache DEF Used
    <3> QED BY <1>2, <2>1, <2>4, <3>1 DEF FreshIn
  <2>5. CASE OnScreen("findings", app', cache') => OnScreen("findings", app, cache)
    <3>1. cache'[Findings] = c[Findings]
      BY <2>5, RenderedCache
    <3> QED BY <1>2, <2>1, <2>5, <3>1 DEF FreshIn
  <2> QED BY <2>3, <2>4, <2>5
<1>3. Fresh'
  BY <1>2 DEF Fresh, FreshIn
<1> QED BY <1>1, <1>3 DEF IInv

-----------------------------------------------------------------------------
LEMMA InitOK == Init => IInv
<1> SUFFICES ASSUME Init PROVE IInv
  OBVIOUS
<1>1. EntryOK(Unread)
  BY DEF EntryOK, EntryFields, Unread
<1>2. \A q \in Queries : cache[q] = IF q = Overview THEN Started(Unread) ELSE Unread
  BY DEF Init, InitApp
<1>3. CacheOK(cache)
  BY <1>1, <1>2, StartedOK DEF Init, InitApp, CacheOK
<1>4. cache[Findings] = Unread
  BY <1>2, FindingsIsQuery
<1>5. Fresh
  BY <1>4 DEF Fresh, FreshIn, Unread
<1>6. DOMAIN app = AppFields /\ Matches(app)
  BY DEF Init, InitApp, AppFields, Matches
<1>7. CallsOK(calls)
  BY DEF Init, InitApp, CallsOK
<1> QED BY <1>3, <1>5, <1>6, <1>7 DEF IInv, ShellOK

\* A handler of the app alone.
LEMMA SetKeeps ==
    ASSUME IInv, NEW a, Set(a), DOMAIN a = AppFields, Matches(a)
    PROVE  IInv'
BY RenderKeeps DEF IInv, ShellOK, Fresh, Set, case

\* A fetch that changes one entry, to a fresh one.
LEMMA FetchedKeeps ==
    ASSUME IInv, NEW q \in Queries, NEW entry, Fetched(q, entry), EntryOK(entry),
           q = Findings => FreshIn([cache EXCEPT ![Findings] = entry], calls)
    PROVE  IInv'
<1> DEFINE c == [cache EXCEPT ![q] = entry]
<1>1. CacheOK(c)
  BY DEF IInv, ShellOK, CacheOK
<1>2. FreshIn(c, calls)
  <2>1. CASE q = Findings
    BY <2>1
  <2>2. CASE q # Findings
    <3>1. c[Findings] = cache[Findings]
      BY <2>2, FindingsIsQuery DEF IInv, ShellOK, CacheOK
    <3> QED BY <3>1 DEF IInv, Fresh, FreshIn
  <2> QED BY <2>1, <2>2
<1>3. Render(app, c, calls) /\ findings' = findings
  BY DEF Fetched, case
<1> HIDE DEF c
<1> QED BY <1>1, <1>2, <1>3, RenderKeeps DEF IInv, ShellOK

LEMMA FetchKeeps == ASSUME IInv, FetchStep PROVE IInv'
<1>1. PICK q \in Queries : ServeFetch(q) \/ FetchSucceeds(q) \/ FetchFails(q) \/ Drop(q)
  BY DEF FetchStep
<1>2. EntryOK(cache[q]) /\ CacheOK(cache)
  BY DEF IInv, ShellOK, CacheOK
<1>3. CASE ServeFetch(q)
  <2> DEFINE entry == Served(cache[q], Answer(q.list))
  <2>1. EntryOK(entry)
    BY <1>2, <1>3 DEF EntryOK, EntryFields, Served, ServeFetch
  <2>2. ASSUME q = Findings PROVE FreshIn([cache EXCEPT ![Findings] = entry], calls)
    <3>1. entry = Served(cache[Findings], findings)
      BY <2>2 DEF Answer, Findings, Query
    <3>2. [cache EXCEPT ![Findings] = entry][Findings] = entry
      BY <1>2, FindingsIsQuery DEF CacheOK
    <3>3. /\ entry.answer = {findings} /\ entry.fetching = cache[Findings].fetching
          /\ cache[Findings].fetching
      BY <1>2, <1>3, <2>2, <3>1 DEF EntryOK, EntryFields, Served, ServeFetch
    <3> QED BY <3>2, <3>3 DEF FreshIn
  <2>3. Fetched(q, entry)
    BY <1>3 DEF ServeFetch
  <2> HIDE DEF entry
  <2> QED BY <2>1, <2>2, <2>3, FetchedKeeps
<1>4. CASE FetchSucceeds(q)
  <2> DEFINE entry == Succeeded(cache[q])
  <2>1. EntryOK(entry) /\ entry.data = cache[q].answer /\ entry.answer = {}
                       /\ entry.missed = cache[q].missed
    BY <1>2, <1>4 DEF EntryOK, EntryFields, Succeeded
  <2>2. ASSUME q = Findings PROVE FreshIn([cache EXCEPT ![Findings] = entry], calls)
    <3>1. [cache EXCEPT ![Findings] = entry][Findings] = entry
      BY <1>2, FindingsIsQuery DEF CacheOK
    <3>2. cache[Findings].answer # {}
      BY <1>4, <2>2 DEF FetchSucceeds
    <3>3. ~Unannounced(calls) /\ ~entry.missed => entry.data = {findings}
      BY <2>1, <2>2, <3>2 DEF IInv, Fresh, FreshIn
    <3> HIDE DEF entry
    <3> QED BY <2>1, <3>1, <3>3 DEF FreshIn
  <2>3. Fetched(q, entry)
    BY <1>4 DEF FetchSucceeds
  <2> HIDE DEF entry
  <2> QED BY <2>1, <2>2, <2>3, FetchedKeeps
<1>5. CASE FetchFails(q)
  <2> DEFINE entry == Failed(cache[q])
  <2>1. EntryOK(entry) /\ entry.status = "error" /\ entry.answer = {}
    BY <1>2, <1>5 DEF EntryOK, EntryFields, Failed
  <2>2. ASSUME q = Findings PROVE FreshIn([cache EXCEPT ![Findings] = entry], calls)
    <3>1. [cache EXCEPT ![Findings] = entry][Findings] = entry
      BY <1>2, FindingsIsQuery DEF CacheOK
    <3> HIDE DEF entry
    <3> QED BY <2>1, <3>1 DEF FreshIn
  <2>3. Fetched(q, entry)
    BY <1>5 DEF FetchFails
  <2> HIDE DEF entry
  <2> QED BY <2>1, <2>2, <2>3, FetchedKeeps
<1>6. CASE Drop(q)
  <2>1. EntryOK(Unread)
    BY DEF EntryOK, EntryFields, Unread
  <2>2. ASSUME q = Findings PROVE FreshIn([cache EXCEPT ![Findings] = Unread], calls)
    <3>1. [cache EXCEPT ![Findings] = Unread][Findings] = Unread
      BY <1>2, FindingsIsQuery DEF CacheOK
    <3> QED BY <3>1 DEF FreshIn, Unread
  <2>3. Fetched(q, Unread)
    BY <1>6 DEF Drop
  <2> QED BY <2>1, <2>2, <2>3, FetchedKeeps
<1> QED BY <1>1, <1>3, <1>4, <1>5, <1>6

-----------------------------------------------------------------------------
\* Nothing but the calls changes, and a write that is unannounced stays so.
LEMMA CallsKeep ==
    ASSUME IInv, CallsOK(calls'), Unannounced(calls) => Unannounced(calls'),
           findings' = findings, app' = app, cache' = cache
    PROVE  IInv'
<1>1. ShellOK'
  BY DEF IInv, ShellOK, CacheOK
<1>2. Matches(app)'
  BY DEF IInv, Matches
<1>3. ASSUME ~Unannounced(calls'), ~cache'[Findings].missed
      PROVE  /\ cache'[Findings].answer \subseteq {findings'}
             /\ /\ OnScreen("findings", app', cache')
                /\ ~cache'[Findings].fetching
                /\ cache'[Findings].status = "success"
                => cache'[Findings].data = {findings'}
  <2>1. ~Unannounced(calls) /\ ~cache[Findings].missed
    BY <1>3
  <2>2. /\ cache[Findings].answer \subseteq {findings}
        /\ /\ OnScreen("findings", app, cache)
           /\ ~cache[Findings].fetching
           /\ cache[Findings].status = "success"
           => cache[Findings].data = {findings}
    BY <2>1 DEF IInv, Fresh, FreshIn
  <2>3. OnScreen("findings", app', cache') => OnScreen("findings", app, cache)
    OBVIOUS
  <2> QED BY <2>2, <2>3
<1>4. Fresh'
  BY <1>3 DEF Fresh, FreshIn
<1> QED BY <1>1, <1>2, <1>4 DEF IInv

\* A call begins: nothing has been answered by it.
LEMMA MutateKeeps == ASSUME IInv, NEW kind, NEW of, Mutate(kind, of) PROVE IInv'
<1>1. PICK n : calls' = calls \cup {[kind |-> kind, of |-> of, number |-> n,
                                    answer |-> {}, mine |-> TRUE]}
  BY DEF Mutate
<1>2. CallsOK(calls')
  BY <1>1 DEF IInv, ShellOK, CallsOK, CallFields
<1>3. Unannounced(calls) => Unannounced(calls')
  BY <1>1 DEF Unannounced
<1>4. findings' = findings /\ app' = app /\ cache' = cache
  BY DEF Mutate, case
<1> QED BY <1>2, <1>3, <1>4, CallsKeep

\* The server answers a call that reads ...
LEMMA AnsweredRead ==
    ASSUME IInv, NEW call \in calls, NEW answer, Respond(call, answer),
           call.kind \notin {"track", "ack"}, findings' = findings
    PROVE  IInv'
<1> DEFINE e == [call EXCEPT !.answer = {answer}]
<1>1. calls' = (calls \ {call}) \cup {e} /\ UNCHANGED <<app, cache>>
  BY DEF Respond
<1>2. DOMAIN e = CallFields /\ e.kind = call.kind
  BY DEF IInv, ShellOK, CallsOK, CallFields
<1> HIDE DEF e
<1>3. CallsOK(calls')
  BY <1>1, <1>2 DEF IInv, ShellOK, CallsOK
<1>4. Unannounced(calls) => Unannounced(calls')
  BY <1>1, <1>2 DEF Unannounced
<1> QED BY <1>1, <1>3, <1>4, CallsKeep

\* ... or one that writes, and what it has written is not announced yet.
LEMMA AnsweredWrite ==
    ASSUME IInv, NEW call \in calls, NEW answer, Respond(call, answer),
           call.kind \in {"track", "ack"}
    PROVE  IInv'
<1> DEFINE e == [call EXCEPT !.answer = {answer}]
<1>1. calls' = (calls \ {call}) \cup {e} /\ UNCHANGED <<app, cache>>
  BY DEF Respond
<1>2. DOMAIN e = CallFields /\ e.kind = call.kind /\ e.answer = {answer}
  BY DEF IInv, ShellOK, CallsOK, CallFields
<1> HIDE DEF e
<1>3. CallsOK(calls')
  BY <1>1, <1>2 DEF IInv, ShellOK, CallsOK
<1>4. Unannounced(calls')
  BY <1>1, <1>2 DEF Unannounced
<1> QED BY <1>1, <1>3, <1>4 DEF IInv, ShellOK, Fresh, FreshIn

\* An answer that no list is invalidated for is delivered.
LEMMA DeliveredRead ==
    ASSUME IInv, NEW call \in calls, NEW a, Deliver(call, a, cache),
           call.kind \notin {"track", "ack"}, DOMAIN a = AppFields, Matches(a)
    PROVE  IInv'
<1>1. CallsOK(calls \ {call}) /\ (Unannounced(calls) <=> Unannounced(calls \ {call}))
  BY DEF IInv, ShellOK, CallsOK, Unannounced
<1>2. FreshIn(cache, calls \ {call})
  BY <1>1 DEF IInv, Fresh, FreshIn
<1>3. Render(a, cache, calls \ {call}) /\ findings' = findings
  BY DEF Deliver, case
<1> QED BY <1>1, <1>2, <1>3, RenderKeeps DEF IInv, ShellOK

\* The findings are invalidated: they are fetched again, or miss it, or are not
\* on the screen.
LEMMA InvalidatedFindings ==
    ASSUME IInv, NEW d,
           NEW c, c = Invalidate(Findings, cache)
    PROVE  CacheOK(c) /\ FreshIn(c, d)
<1> DEFINE shown == Active(Findings, app, cache)
<1>1. EntryOK(cache[Findings]) /\ DOMAIN cache = Queries /\ Findings \in Queries
  BY FindingsIsQuery DEF IInv, ShellOK, CacheOK
<1>2. c[Findings] = Invalidated(cache[Findings], shown)
  BY <1>1 DEF Invalidate
<1>3. CacheOK(c)
  BY <1>1, InvalidatedOK DEF Invalidate, IInv, ShellOK, CacheOK, Active
<1>4. ASSUME ~c[Findings].missed
      PROVE  /\ c[Findings].answer = {}
             /\ OnScreen("findings", app, cache) => c[Findings].fetching
  <2>1. CASE shown /\ ~(cache[Findings].fetching /\ cache[Findings].data = {})
    BY <1>1, <1>2, <2>1, StartedOK DEF Invalidated
  <2>2. CASE ~(shown /\ ~(cache[Findings].fetching /\ cache[Findings].data = {}))
    <3>1. /\ c[Findings].missed <=> cache[Findings].missed \/ cache[Findings].fetching
          /\ c[Findings].answer = cache[Findings].answer
      BY <1>1, <1>2, <2>2 DEF Invalidated, EntryOK, EntryFields
    <3>2. ~cache[Findings].fetching
      BY <1>4, <3>1
    <3>3. ~shown
      BY <2>2, <3>2
    <3> QED BY <1>1, <3>1, <3>2, <3>3, FindingsActive DEF EntryOK
  <2> QED BY <2>1, <2>2
<1> QED BY <1>3, <1>4 DEF FreshIn

\* The answer to a write is delivered.
LEMMA DeliveredWrite ==
    ASSUME IInv, NEW call \in calls, NEW c, Deliver(call, app, c),
           c = Invalidate(Findings, cache)
             \/ c = Invalidate(Overview, Invalidate(Findings, cache))
    PROVE  IInv'
<1> DEFINE d == calls \ {call}
<1>1. CacheOK(Invalidate(Findings, cache)) /\ FreshIn(Invalidate(Findings, cache), d)
  BY InvalidatedFindings
<1>2. ASSUME c = Invalidate(Overview, Invalidate(Findings, cache))
      PROVE  CacheOK(c) /\ FreshIn(c, d)
  <2> DEFINE b == Invalidate(Findings, cache)
  <2>1. EntryOK(b[Overview]) /\ DOMAIN b = Queries
    BY <1>1, ListsAreQueries DEF CacheOK
  <2>2. Active(Overview, app, b)
    BY DEF Active
  <2>3. EntryOK(Invalidated(b[Overview], Active(Overview, app, b)))
    BY <2>1, <2>2, StartedOK DEF EntryOK, EntryFields, Started, Invalidated
  <2>4. c = [b EXCEPT ![Overview] = Invalidated(b[Overview], Active(Overview, app, b))]
    BY <1>2 DEF Invalidate
  <2>5. c[Findings] = b[Findings]
    BY <2>1, <2>4, FindingsIsQuery
  <2>6. CacheOK(b) /\ FreshIn(b, d)
    BY <1>1
  <2> HIDE DEF b
  <2> QED BY <2>1, <2>3, <2>4, <2>5, <2>6 DEF CacheOK, FreshIn
<1>3. CallsOK(d)
  BY DEF IInv, ShellOK, CallsOK
<1>4. Render(app, c, d) /\ findings' = findings
  BY DEF Deliver, case
<1> HIDE DEF d
<1> QED BY <1>1, <1>2, <1>3, <1>4, RenderKeeps DEF IInv, ShellOK

\* A call fails: if it was a write that had been made, the findings missed it.
LEMMA FailureKeeps == ASSUME IInv, NEW call \in calls, CallFails(call) PROVE IInv'
<1> DEFINE d == calls \ {call}
           written == call.kind \in {"track", "ack"} /\ call.answer # {}
           c == IF written THEN [cache EXCEPT ![Findings].missed = TRUE] ELSE cache
<1>1. Render(app, c, d) /\ findings' = findings
  BY DEF CallFails, case
<1>2. CallsOK(d)
  BY DEF IInv, ShellOK, CallsOK
<1>3. EntryOK(cache[Findings]) /\ DOMAIN cache = Queries /\ Findings \in Queries
  BY FindingsIsQuery DEF IInv, ShellOK, CacheOK
<1>4. CASE written
  <2>1. c = [cache EXCEPT ![Findings] = [cache[Findings] EXCEPT !.missed = TRUE]]
    BY <1>3, <1>4
  <2>2. LET e == [cache[Findings] EXCEPT !.missed = TRUE]
        IN EntryOK(e) /\ e.missed
    BY <1>3 DEF EntryOK, EntryFields
  <2>3. CacheOK(c)
    BY <2>1, <2>2 DEF IInv, ShellOK, CacheOK
  <2>4. FreshIn(c, d)
    BY <1>3, <2>1, <2>2 DEF FreshIn
  <2> QED BY <1>1, <1>2, <2>3, <2>4, RenderKeeps DEF IInv, ShellOK
<1>5. CASE ~written
  <2>1. c = cache
    BY <1>5
  <2>2. Unannounced(calls) => Unannounced(d)
    BY <1>5 DEF Unannounced
  <2>3. FreshIn(cache, d)
    BY <2>2 DEF IInv, Fresh, FreshIn
  <2> QED BY <1>1, <1>2, <2>1, <2>3, RenderKeeps DEF IInv, ShellOK
<1> QED BY <1>4, <1>5

-----------------------------------------------------------------------------
LEMMA ShellKeeps == ASSUME IInv, ShellStep PROVE IInv'
<1>1. ASSUME NEW view \in Views, GoTo(view) PROVE IInv'
  <2>1. LET a == [app EXCEPT !.view = view] IN DOMAIN a = AppFields /\ Matches(a)
    BY DEF IInv, ShellOK, AppFields, Matches
  <2> QED BY <1>1, <2>1, SetKeeps DEF GoTo
<1>2. CASE FetchStep
  BY <1>2, FetchKeeps
<1>3. ASSUME NEW call \in calls, CallFails(call) PROVE IInv'
  BY <1>3, FailureKeeps
<1>4. CASE ClaimElsewhere
  <2>1. findings' = findings /\ app' = app /\ cache' = cache /\ calls' = calls
    BY <1>4 DEF ClaimElsewhere, Claim
  <2>2. CallsOK(calls') /\ (Unannounced(calls) => Unannounced(calls'))
    BY <2>1 DEF IInv, ShellOK
  <2> QED BY <2>1, <2>2, CallsKeep
<1> QED BY <1>1, <1>2, <1>3, <1>4 DEF ShellStep

\* The selections of the graph view leave overlay, component and results in order.
LEMMA ViewKeeps ==
    ASSUME IInv,
           \/ Select \/ FocusComponent \/ ClearOverlay \/ ClearComponent \/ FocusSelected
           \/ ShowFullGraph \/ ShowAnyway \/ \E tab \in Tabs : OpenTab(tab)
    PROVE  IInv'
<1> USE DEF IInv, ShellOK, AppFields, Matches
<1>1. CASE Select
  <2>1. PICK picked \in Selectable : Set([app EXCEPT !.picked = picked])
    BY <1>1 DEF Select
  <2> QED BY <2>1, SetKeeps
<1>2. CASE FocusComponent
  <2>1. PICK focus : Set([app EXCEPT !.overlay = {}, !.focus = focus])
    BY <1>2 DEF FocusComponent
  <2> QED BY <2>1, SetKeeps
<1>3. CASE ClearOverlay
  BY <1>3, SetKeeps DEF ClearOverlay
<1>4. CASE ClearComponent
  BY <1>4, SetKeeps DEF ClearComponent
<1>5. CASE FocusSelected
  BY <1>5, SetKeeps DEF FocusSelected
<1>6. CASE ShowFullGraph
  BY <1>6, SetKeeps DEF ShowFullGraph
<1>7. CASE ShowAnyway
  BY <1>7, SetKeeps DEF ShowAnyway
<1>8. ASSUME NEW tab \in Tabs, OpenTab(tab) PROVE IInv'
  BY <1>8, SetKeeps DEF OpenTab
<1> QED BY <1>1, <1>2, <1>3, <1>4, <1>5, <1>6, <1>7, <1>8

\* An answered search replaces result and overlay, and gives the component up.
LEMMA ShowPathKeeps == ASSUME IInv, NEW call \in calls, ShowPath(call) PROVE IInv'
<1> DEFINE chains == Answered(call)
           now == Overlaid(chains, call.mine)
           a == IF ~call.mine THEN now
                ELSE [now EXCEPT !.path = IF call.kind = "path" THEN {chains} ELSE {},
                                 !.paths = IF call.kind = "paths" THEN {chains} ELSE {}]
<1>1. Deliver(call, a, cache) /\ call.kind \in {"path", "paths"}
  BY DEF ShowPath
<1>2. /\ DOMAIN now = AppFields /\ now.focus = {} /\ now.owned = call.mine
      /\ now.overlay = {} \/ now.overlay = chains
      /\ now.path = app.path /\ now.paths = app.paths
  BY DEF IInv, ShellOK, AppFields, Overlaid, Highlighted
<1>3. DOMAIN a = AppFields /\ Matches(a)
  <2>1. CASE ~call.mine
    BY <1>2, <2>1 DEF IInv, Matches
  <2>2. CASE call.mine
    <3>1. a = [now EXCEPT !.path = IF call.kind = "path" THEN {chains} ELSE {},
                          !.paths = IF call.kind = "paths" THEN {chains} ELSE {}]
      BY <2>2
    <3> HIDE DEF now, a, chains
    <3> QED BY <1>1, <1>2, <3>1 DEF Matches, AppFields
  <2> QED BY <2>1, <2>2
<1> HIDE DEF a
<1> QED BY <1>1, <1>3, DeliveredRead

LEMMA ExplorerKeeps == ASSUME IInv, ExplorerStep PROVE IInv'
<1>1. ASSUME NEW kind \in {"path", "paths"}, NEW ask \in Asks, FindPath(kind, ask) PROVE IInv'
  BY <1>1, MutateKeeps DEF FindPath
<1>2. ASSUME NEW call \in calls, ServePath(call) PROVE IInv'
  BY <1>2, AnsweredRead DEF ServePath, case
<1>3. ASSUME NEW call \in calls, ShowPath(call) PROVE IInv'
  BY <1>3, ShowPathKeeps
<1> QED BY <1>1, <1>2, <1>3, ViewKeeps DEF ExplorerStep

LEMMA ReviewKeeps == ASSUME IInv, ReviewStep PROVE IInv'
<1>1. ASSUME NEW t \in Thresholds, Analyze(t) \/ TrackFindings(t) PROVE IInv'
  BY <1>1, MutateKeeps DEF Analyze, TrackFindings
<1>2. ASSUME NEW g \in GapIds, NEW status \in Statuses, AckFinding(g, status) PROVE IInv'
  BY <1>2, MutateKeeps DEF AckFinding
<1>3. ASSUME NEW call \in calls, ServeAnalyze(call) PROVE IInv'
  BY <1>3, AnsweredRead DEF ServeAnalyze, case
<1>4. ASSUME NEW call \in calls, ServeTrack(call) \/ ServeAck(call) PROVE IInv'
  BY <1>4, AnsweredWrite DEF ServeTrack, ServeAck
<1>5. ASSUME NEW call \in calls, ShowAnalysis(call) PROVE IInv'
  <2> DEFINE a == IF call.mine THEN [app EXCEPT !.analysed = Answered(call) # {}] ELSE app
  <2>1. DOMAIN a = AppFields /\ Matches(a)
    BY DEF IInv, ShellOK, AppFields, Matches
  <2>2. Deliver(call, a, cache) /\ call.kind = "analyze"
    BY <1>5 DEF ShowAnalysis
  <2> HIDE DEF a
  <2> QED BY <2>1, <2>2, DeliveredRead
<1>6. ASSUME NEW call \in calls, Tracked(call) \/ Acknowledged(call) PROVE IInv'
  BY <1>6, DeliveredWrite DEF Tracked, Acknowledged
<1> QED BY <1>1, <1>2, <1>3, <1>4, <1>5, <1>6 DEF ReviewStep

-----------------------------------------------------------------------------
LEMMA Inductive == Spec => []IInv
<1>1. IInv /\ [Next]_vars => IInv'
  <2> SUFFICES ASSUME IInv, [Next]_vars PROVE IInv'
    OBVIOUS
  <2>1. CASE UNCHANGED vars
    <3>1. findings' = findings /\ app' = app /\ cache' = cache /\ calls' = calls
      BY <2>1 DEF vars, case
    <3>2. CallsOK(calls') /\ (Unannounced(calls) => Unannounced(calls'))
      BY <3>1 DEF IInv, ShellOK
    <3> QED BY <3>1, <3>2, CallsKeep
  <2> QED BY <2>1, ShellKeeps, ExplorerKeeps, ReviewKeeps DEF Next
<1> QED BY <1>1, InitOK, PTL DEF Spec

\* Whatever the order in which searches are answered, and whichever of their views
\* have gone: the graph highlights what the search on the screen last answered
\* (PathExplorer.tsx, onOverlay in App.tsx).
THEOREM OverlaysMatch == Spec => []OverlayMatchesResult
<1>1. IInv => OverlayMatchesResult
  BY DEF IInv, Matches, OverlayMatchesResult
<1> QED BY <1>1, Inductive, PTL

\* Whatever fetches and writes overlap, fail or lose their answers, for any server
\* that tracks and acknowledges: the findings view settles on what the case holds
\* (GapsPanel.tsx, FindingsPanel.tsx).
THEOREM FindingsSettle == Spec => []SettledFresh
<1>1. IInv => SettledFresh
  <2> SUFFICES ASSUME IInv, OnScreen("findings", app, cache),
                      \A call \in calls : call.kind \notin {"track", "ack"},
                      cache[Findings].status = "success", ~cache[Findings].fetching,
                      ~cache[Findings].missed
               PROVE  cache[Findings].data = {findings}
    BY DEF SettledFresh
  <2>1. ~Unannounced(calls)
    BY DEF Unannounced
  <2> QED BY <2>1 DEF IInv, Fresh, FreshIn
<1> QED BY <1>1, Inductive, PTL

-----------------------------------------------------------------------------
(***************************************************************************)
(* What the graph view draws.  A component takes all that its              *)
(* relationships lead to, ...                                              *)
(***************************************************************************)

\* A set that has 0 and, of each of its numbers, the next has them all: those it
\* had not would have a least one.
LEMMA SetInduction ==
    ASSUME NEW S, 0 \in S, \A n \in Nat : n \in S => n + 1 \in S
    PROVE  \A n \in Nat : n \in S
<1> DEFINE T == Nat \ S
           R == {ss \in Nat \X Nat : ss[1] < ss[2]}
<1> SUFFICES ASSUME T # {} PROVE FALSE
  OBVIOUS
<1>1. PICK m \in T : \A k \in T : <<k, m>> \notin R
  <2>1. IsWellFoundedOn(R, Nat)
    BY NatLessThanWellFounded DEF OpToRel
  <2>2. T \subseteq Nat
    OBVIOUS
  <2> HIDE DEF R, T
  <2> QED BY <2>1, <2>2, WFMin
<1>2. m # 0 /\ m \in Nat
  OBVIOUS
<1>3. m - 1 \in Nat /\ m - 1 < m /\ (m - 1) + 1 = m
  BY <1>2
<1>4. m - 1 \in T
  BY <1>3
<1> QED BY <1>1, <1>2, <1>3, <1>4

LEMMA EndsFinite ==
    ASSUME NEW read \in SUBSET Relationships, IsFiniteSet(read)
    PROVE  IsFiniteSet(EndsOf(read))
<1> DEFINE F == {Source[r] : r \in read}
           T == {Target[r] : r \in read}
           s == [r \in read |-> Source[r]]
           t == [r \in read |-> Target[r]]
<1>1. s \in Surjection(read, F) /\ t \in Surjection(read, T)
  BY DEF Surjection
<1>2. EndsOf(read) = F \cup T
  BY DEF EndsOf, Ends
<1> HIDE DEF F, T, s, t
<1>3. IsFiniteSet(F) /\ IsFiniteSet(T)
  BY <1>1, FS_Surjection
<1> QED BY <1>2, <1>3, FS_Union

\* The recursion of Spread, over 0 .. n.
IsSpread(f, e, read, n) ==
    f = [k \in 0 .. n |-> IF k = 0 THEN {e} ELSE Around(f[k - 1], read)]

\* What it defines exists.
LEMMA Spreads ==
    ASSUME NEW e, NEW read, NEW n \in Nat
    PROVE  \E f : IsSpread(f, e, read, n)
<1> DEFINE S == {m \in Nat : \E f : IsSpread(f, e, read, m)}
<1>1. 0 \in S
  <2> DEFINE f == [k \in 0 .. 0 |-> {e}]
  <2>1. IsSpread(f, e, read, 0)
    BY DEF IsSpread
  <2> HIDE DEF f
  <2> QED BY <2>1
<1>2. ASSUME NEW m \in Nat, m \in S PROVE m + 1 \in S
  <2>1. PICK f : IsSpread(f, e, read, m)
    BY <1>2
  <2> DEFINE g == [k \in 0 .. m + 1 |-> IF k = m + 1 THEN Around(f[m], read) ELSE f[k]]
  <2>2. \A k \in 0 .. m : g[k] = f[k]
    OBVIOUS
  <2>3. ASSUME NEW k \in 0 .. m + 1
        PROVE  g[k] = IF k = 0 THEN {e} ELSE Around(g[k - 1], read)
    <3>1. CASE k = m + 1
      <4>1. g[k] = Around(f[m], read) /\ k # 0 /\ k - 1 = m /\ m \in 0 .. m
        BY <3>1
      <4> QED BY <2>2, <4>1
    <3>2. CASE k \in 0 .. m
      <4>1. f[k] = IF k = 0 THEN {e} ELSE Around(f[k - 1], read)
        BY <2>1, <3>2 DEF IsSpread
      <4>2. k # 0 => k - 1 \in 0 .. m
        BY <3>2
      <4> HIDE DEF g
      <4> QED BY <2>2, <3>2, <4>1, <4>2
    <3> QED BY <3>1, <3>2
  <2>4. IsSpread(g, e, read, m + 1)
    BY <2>3 DEF IsSpread
  <2> HIDE DEF g
  <2> QED BY <2>4
<1> HIDE DEF S
<1>3. n \in S
  BY <1>1, <1>2, SetInduction
<1> QED BY <1>3 DEF S

\* A round that finds nothing more is the last that does; so as many rounds as there
\* are entities find all there is to be found.
LEMMA SpreadStops ==
    ASSUME NEW read \in SUBSET Relationships, IsFiniteSet(read), NEW e \in EndsOf(read)
    PROVE  Around(Spread(e, read), read) = Spread(e, read)
<1> DEFINE V == EndsOf(read)
           n == Cardinality(V)
           f == CHOOSE f : IsSpread(f, e, read, n)
           S == {k \in Nat : k <= n =>
                   /\ f[k] \subseteq V
                   /\ Around(f[k], read) = f[k] \/ Cardinality(f[k]) >= k}
<1>1. IsFiniteSet(V) /\ n \in Nat
  BY EndsFinite, FS_CardinalityType
<1>2. IsSpread(f, e, read, n)
  BY <1>1, Spreads
<1>3. Spread(e, read) = f[n]
  BY DEF Spread, IsSpread
<1>4. \A x : x \subseteq V => x \subseteq Around(x, read) /\ Around(x, read) \subseteq V
  BY DEF Around, EndsOf
<1>5. \A x : x \subseteq V => IsFiniteSet(x) /\ Cardinality(x) \in Nat /\ Cardinality(x) <= n
                              /\ (Cardinality(x) = n => x = V)
  BY <1>1, FS_Subset, FS_CardinalityType
<1> HIDE DEF V, f
<1>6. f[0] = {e} /\ \A k \in Nat : k + 1 <= n => f[k + 1] = Around(f[k], read)
  <2>1. ASSUME NEW k \in Nat, k + 1 <= n PROVE f[k + 1] = Around(f[k], read)
    <3>1. k + 1 \in 0 .. n /\ k + 1 # 0 /\ (k + 1) - 1 = k
      BY <1>1, <2>1
    <3> QED BY <1>2, <3>1 DEF IsSpread
  <2>2. f[0] = {e}
    BY <1>1, <1>2 DEF IsSpread
  <2> QED BY <2>1, <2>2
<1>7. 0 \in S
  <2>1. f[0] \subseteq V
    BY <1>6 DEF V
  <2>2. Cardinality(f[0]) >= 0
    BY <1>5, <2>1
  <2> QED BY <2>1, <2>2
<1>8. ASSUME NEW k \in Nat, k \in S PROVE k + 1 \in S
  <2> SUFFICES ASSUME k + 1 <= n
               PROVE  /\ f[k + 1] \subseteq V
                      /\ \/ Around(f[k + 1], read) = f[k + 1]
                         \/ Cardinality(f[k + 1]) >= k + 1
    OBVIOUS
  <2>1. f[k + 1] = Around(f[k], read) /\ k <= n
    BY <1>1, <1>6
  <2>2. f[k] \subseteq V /\ (Around(f[k], read) = f[k] \/ Cardinality(f[k]) >= k)
    BY <1>8, <2>1
  <2>3. f[k + 1] \subseteq V /\ f[k] \subseteq f[k + 1]
    BY <1>4, <2>1, <2>2
  <2>4. CASE f[k + 1] = f[k]
    BY <2>1, <2>3, <2>4
  <2>5. CASE f[k + 1] # f[k]
    <3> DEFINE A == f[k]
               B == f[k + 1]
    <3>1. A \in SUBSET B /\ A # B /\ IsFiniteSet(B)
      BY <1>5, <2>3, <2>5
    <3>2. Cardinality(A) \in Nat /\ Cardinality(B) \in Nat /\ Cardinality(A) >= k
      BY <1>5, <2>1, <2>2, <2>3, <2>5
    <3> HIDE DEF A, B
    <3>3. Cardinality(A) <= Cardinality(B) /\ Cardinality(A) # Cardinality(B)
      BY <3>1, FS_Subset
    <3>4. Cardinality(B) >= k + 1
      BY <3>2, <3>3
    <3> QED BY <2>3, <3>4 DEF B
  <2> QED BY <2>4, <2>5
<1> HIDE DEF S
<1>9. n \in S
  BY <1>1, <1>7, <1>8, SetInduction
<1>10. f[n] \subseteq V /\ (Around(f[n], read) = f[n] \/ Cardinality(f[n]) >= n)
  BY <1>1, <1>9 DEF S
<1>11. CASE Cardinality(f[n]) >= n
  <2>1. f[n] = V
    BY <1>1, <1>5, <1>10, <1>11
  <2> QED BY <1>3, <1>4, <2>1
<1> QED BY <1>3, <1>10, <1>11

\* A component has the entities of its relationships.
LEMMA PartsClosed ==
    ASSUME NEW read \in SUBSET Relationships, IsFiniteSet(read),
           NEW min_size, NEW i \in DOMAIN Components(read, min_size)
    PROVE  LET part == Components(read, min_size)[i]
           IN EndsOf(part.relationships) \subseteq part.entity_ids
<1> DEFINE found == {Spread(e, read) : e \in EndsOf(read)}
           listed == {K \in found : Cardinality(K) >= min_size}
           Index(K) == 1 + Cardinality({L \in listed : Min(L) < Min(K)})
           Listed(j) == CHOOSE K \in listed : Index(K) = j
           part == Components(read, min_size)[i]
<1>1. Components(read, min_size) =
        [j \in {Index(K) : K \in listed} |->
           [entity_ids |-> Listed(j),
            relationships |-> {r \in read : Ends(r) \cap Listed(j) # {}}]]
  BY DEF Components
<1> HIDE DEF listed
<1>2. PICK K \in listed : Index(K) = i
  BY <1>1
<1>3. Listed(i) \in listed
  BY <1>2
<1> HIDE DEF Index
<1>4. part.entity_ids = Listed(i)
      /\ part.relationships = {r \in read : Ends(r) \cap Listed(i) # {}}
  BY <1>1
<1> HIDE DEF Listed, part
<1>5. PICK e \in EndsOf(read) : Listed(i) = Spread(e, read)
  BY <1>3 DEF listed
<1>6. Around(Listed(i), read) = Listed(i)
  BY <1>5, SpreadStops
<1>7. EndsOf(part.relationships) \subseteq part.entity_ids
  BY <1>4, <1>6 DEF Around
<1> QED BY <1>7 DEF part

-----------------------------------------------------------------------------
(***************************************************************************)
(* ... what is in focus is one, and every list shown is that of a state    *)
(* that the case was in.                                                   *)
(***************************************************************************)

\* What the graph view keeps between renders: one of the two modes it has, and a
\* component with the entities of its relationships.
Sound(a) ==
    /\ a.mode \in {"full", "ego"}
    /\ \A part \in a.focus : EndsOf(part.relationships) \subseteq part.entity_ids

\* Every list was read, or is being read, from a state that the case was in.
ReadingsOK(c) ==
    \A q \in Queries \ {Findings} : c[q].data \cup c[q].answer \subseteq 0 .. MaxClaims

GraphInv == claims \in 0 .. MaxClaims /\ Sound(app) /\ ReadingsOK(cache)

-----------------------------------------------------------------------------
LEMMA ClaimsTyped ==
    /\ MaxClaims \in Nat
    /\ \A n \in 0 .. MaxClaims :
          RelationshipsAt(n) \in SUBSET Relationships /\ IsFiniteSet(RelationshipsAt(n))
    /\ \A m, n \in 0 .. MaxClaims : m <= n => RelationshipsAt(m) \subseteq RelationshipsAt(n)
<1>1. MaxClaims \in Nat /\ \A n \in 0 .. MaxClaims : n + 1 \in DOMAIN Claimed
  BY ClaimedAssumption DEF MaxClaims
<1>2. \A m, n \in 0 .. MaxClaims : m <= n => m + 1 <= n + 1
  BY <1>1
<1>3. \A n \in DOMAIN Claimed : Claimed[n] \in SUBSET Relationships
  BY ClaimedAssumption
<1> QED BY <1>1, <1>2, <1>3, ClaimedAssumption DEF RelationshipsAt

LEMMA ServedRight ==
    ASSUME NEW q \in Queries, q # Findings
    PROVE  Answer(q.list) = claims
BY DEF Queries, Answer, Findings, Overview, Lists, Neighbors, Query

\* A handler renders: what it leaves sound is sound on the screen.
LEMMA RenderedSound ==
    ASSUME NEW a, NEW c, NEW d, Render(a, c, d), claims' = claims, GraphInv,
           DOMAIN a = AppFields, Sound(a), CacheOK(c), ReadingsOK(c)
    PROVE  GraphInv'
<1>1. app' = a \/ app' = Mounted(a, c)
  BY DEF Render
<1>2. Sound(app')
  BY <1>1 DEF Mounted, AppFields, Sound
<1>3. \A q \in Queries : cache'[q] = Used(c[q]) \/ cache'[q] = c[q]
  BY DEF Render
<1>4. \A q \in Queries : cache'[q].data = c[q].data
                         /\ (cache'[q].answer = c[q].answer \/ cache'[q].answer = {})
  <2>1. \A q \in Queries : EntryOK(c[q])
    BY DEF CacheOK
  <2>2. \A q \in Queries : Used(c[q]).data = c[q].data
           /\ (Used(c[q]).answer = c[q].answer \/ Used(c[q]).answer = {})
    BY <2>1, StartedOK DEF Used
  <2> QED BY <1>3, <2>2
<1>5. ReadingsOK(cache')
  BY <1>4 DEF ReadingsOK
<1> QED BY <1>2, <1>5 DEF GraphInv, Sound, ReadingsOK

LEMMA SetSound ==
    ASSUME IInv, GraphInv, NEW a, Set(a), DOMAIN a = AppFields, Sound(a)
    PROVE  GraphInv'
BY RenderedSound DEF IInv, ShellOK, GraphInv, Set, case

LEMMA FetchedSound ==
    ASSUME IInv, GraphInv, NEW q \in Queries, NEW entry, Fetched(q, entry), EntryOK(entry),
           q # Findings => entry.data \cup entry.answer \subseteq 0 .. MaxClaims
    PROVE  GraphInv'
<1> DEFINE c == [cache EXCEPT ![q] = entry]
<1>1. CacheOK(c)
  BY DEF IInv, ShellOK, CacheOK
<1>2. ReadingsOK(c)
  BY DEF IInv, ShellOK, CacheOK, GraphInv, ReadingsOK
<1>3. Render(app, c, calls) /\ claims' = claims
  BY DEF Fetched, case
<1> HIDE DEF c
<1> QED BY <1>1, <1>2, <1>3, RenderedSound DEF IInv, ShellOK, GraphInv

LEMMA FetchSound == ASSUME IInv, GraphInv, FetchStep PROVE GraphInv'
<1>1. PICK q \in Queries : ServeFetch(q) \/ FetchSucceeds(q) \/ FetchFails(q) \/ Drop(q)
  BY DEF FetchStep
<1>2. EntryOK(cache[q])
  BY DEF IInv, ShellOK, CacheOK
<1>3. q # Findings => cache[q].data \cup cache[q].answer \subseteq 0 .. MaxClaims
  BY DEF GraphInv, ReadingsOK
<1>4. CASE ServeFetch(q)
  <2> DEFINE entry == Served(cache[q], Answer(q.list))
  <2>1. EntryOK(entry) /\ entry.data = cache[q].data /\ entry.answer = {Answer(q.list)}
    BY <1>2, <1>4 DEF EntryOK, EntryFields, Served, ServeFetch
  <2>2. q # Findings => Answer(q.list) \in 0 .. MaxClaims
    BY ServedRight DEF GraphInv
  <2>3. Fetched(q, entry)
    BY <1>4 DEF ServeFetch
  <2> HIDE DEF entry
  <2> QED BY <1>3, <2>1, <2>2, <2>3, FetchedSound
<1>5. CASE FetchSucceeds(q)
  <2> DEFINE entry == Succeeded(cache[q])
  <2>1. EntryOK(entry) /\ entry.data = cache[q].answer /\ entry.answer = {}
    BY <1>2 DEF EntryOK, EntryFields, Succeeded
  <2>2. Fetched(q, entry)
    BY <1>5 DEF FetchSucceeds
  <2> HIDE DEF entry
  <2> QED BY <1>3, <2>1, <2>2, FetchedSound
<1>6. CASE FetchFails(q)
  <2> DEFINE entry == Failed(cache[q])
  <2>1. EntryOK(entry) /\ entry.data = cache[q].data /\ entry.answer = {}
    BY <1>2 DEF EntryOK, EntryFields, Failed
  <2>2. Fetched(q, entry)
    BY <1>6 DEF FetchFails
  <2> HIDE DEF entry
  <2> QED BY <1>3, <2>1, <2>2, FetchedSound
<1>7. CASE Drop(q)
  <2>1. EntryOK(Unread) /\ Unread.data = {} /\ Unread.answer = {}
    BY DEF EntryOK, EntryFields, Unread
  <2>2. Fetched(q, Unread)
    BY <1>7 DEF Drop
  <2> QED BY <2>1, <2>2, FetchedSound
<1> QED BY <1>1, <1>4, <1>5, <1>6, <1>7

\* A call begins or is answered: neither the screen nor what was read changes.
LEMMA AsideSound ==
    ASSUME GraphInv, claims' \in 0 .. MaxClaims, app' = app, cache' = cache
    PROVE  GraphInv'
BY DEF GraphInv, Sound, ReadingsOK

\* A query is fetched again: what was read of it stays until then.
LEMMA InvalidatedSound ==
    ASSUME NEW c, CacheOK(c), ReadingsOK(c), NEW q \in {Findings, Overview}
    PROVE  CacheOK(Invalidate(q, c)) /\ ReadingsOK(Invalidate(q, c))
<1> DEFINE active == Active(q, app, c)
           entry == Invalidated(c[q], active)
<1>1. q \in Queries /\ EntryOK(c[q])
  BY FindingsIsQuery, ListsAreQueries DEF CacheOK
<1>2. active \in BOOLEAN
  BY DEF Active
<1>3. EntryOK(entry)
  BY <1>1, <1>2, InvalidatedOK
<1>4. entry.data = c[q].data /\ (entry.answer = c[q].answer \/ entry.answer = {})
  <2>1. CASE entry = Started(c[q])
    BY <1>1, <2>1 DEF EntryOK, EntryFields, Started
  <2>2. CASE entry = [c[q] EXCEPT !.missed = @ \/ c[q].fetching]
    BY <1>1, <2>2 DEF EntryOK, EntryFields
  <2> QED BY <2>1, <2>2 DEF Invalidated
<1>5. Invalidate(q, c) = [c EXCEPT ![q] = entry]
  BY DEF Invalidate
<1> HIDE DEF entry
<1> QED BY <1>1, <1>3, <1>4, <1>5 DEF CacheOK, ReadingsOK

LEMMA FailureSound == ASSUME IInv, GraphInv, NEW call \in calls, CallFails(call) PROVE GraphInv'
<1> DEFINE d == [cache EXCEPT ![Findings].missed = TRUE]
           c == IF call.kind \in {"track", "ack"} /\ call.answer # {} THEN d ELSE cache
<1>1. Render(app, c, calls \ {call}) /\ claims' = claims
  BY DEF CallFails, case
<1>2. EntryOK(cache[Findings]) /\ DOMAIN cache = Queries /\ Findings \in Queries
  BY FindingsIsQuery DEF IInv, ShellOK, CacheOK
<1>3. d = [cache EXCEPT ![Findings] = [cache[Findings] EXCEPT !.missed = TRUE]]
  BY <1>2
<1>4. EntryOK([cache[Findings] EXCEPT !.missed = TRUE])
  BY <1>2 DEF EntryOK, EntryFields
<1> HIDE DEF d
<1>5. CacheOK(d) /\ ReadingsOK(d)
  BY <1>2, <1>3, <1>4 DEF IInv, ShellOK, CacheOK, GraphInv, ReadingsOK
<1>6. CacheOK(c) /\ ReadingsOK(c)
  BY <1>5 DEF IInv, ShellOK, GraphInv
<1> HIDE DEF c
<1> QED BY <1>1, <1>6, RenderedSound DEF IInv, ShellOK, GraphInv

-----------------------------------------------------------------------------
LEMMA ShellSound == ASSUME IInv, GraphInv, ShellStep PROVE GraphInv'
<1>1. ASSUME NEW view \in Views, GoTo(view) PROVE GraphInv'
  <2>1. LET a == [app EXCEPT !.view = view] IN DOMAIN a = AppFields /\ Sound(a)
    BY DEF IInv, ShellOK, AppFields, GraphInv, Sound
  <2> QED BY <1>1, <2>1, SetSound DEF GoTo
<1>2. CASE FetchStep
  BY <1>2, FetchSound
<1>3. ASSUME NEW call \in calls, CallFails(call) PROVE GraphInv'
  BY <1>3, FailureSound
<1>4. CASE ClaimElsewhere
  <2>1. claims' \in 0 .. MaxClaims
    BY <1>4, ClaimsTyped DEF ClaimElsewhere, Claim, GraphInv
  <2> QED BY <1>4, <2>1, AsideSound DEF ClaimElsewhere
<1> QED BY <1>1, <1>2, <1>3, <1>4 DEF ShellStep

\* A component that comes into focus is one of those read.
LEMMA FocusSound == ASSUME IInv, GraphInv, FocusComponent PROVE GraphInv'
<1> DEFINE n == Read("components", cache)
           listed == ComponentsAt[n]
           Part(i) == [index |-> i, entity_ids |-> listed[i].entity_ids,
                       relationships |-> listed[i].relationships]
<1>1. n \in 0 .. MaxClaims
  <2>1. cache[Query("components", 0)].data # {}
    BY DEF FocusComponent
  <2>2. Query("components", 0) \in Queries \ {Findings}
    BY FindingsIsQuery DEF Queries
  <2> QED BY <2>1, <2>2 DEF Read, GraphInv, ReadingsOK
<1>2. listed = Components(RelationshipsAt(n), 1)
  BY <1>1 DEF ComponentsAt
<1>3. PICK i \in DOMAIN listed :
         Set([app EXCEPT !.overlay = {},
                         !.focus = IF \E part \in @ : part.index = i THEN {} ELSE {Part(i)}])
  BY DEF FocusComponent
<1>4. EndsOf(listed[i].relationships) \subseteq listed[i].entity_ids
  BY <1>1, <1>2, ClaimsTyped, PartsClosed
<1> HIDE DEF listed, n
<1>5. EndsOf(Part(i).relationships) \subseteq Part(i).entity_ids
  BY <1>4
<1> HIDE DEF Part
<1>6. PICK focus \in SUBSET {Part(i)} : Set([app EXCEPT !.overlay = {}, !.focus = focus])
  BY <1>3 DEF IInv, ShellOK, AppFields
<1>7. LET a == [app EXCEPT !.overlay = {}, !.focus = focus]
      IN DOMAIN a = AppFields /\ Sound(a)
  BY <1>5 DEF IInv, ShellOK, AppFields, GraphInv, Sound
<1> QED BY <1>6, <1>7, SetSound

LEMMA ViewSound ==
    ASSUME IInv, GraphInv,
           \/ Select \/ FocusComponent \/ ClearOverlay \/ ClearComponent \/ FocusSelected
           \/ ShowFullGraph \/ ShowAnyway \/ \E tab \in Tabs : OpenTab(tab)
    PROVE  GraphInv'
<1> USE DEF IInv, ShellOK, AppFields, GraphInv, Sound
<1>1. CASE Select
  <2>1. PICK picked \in Selectable : Set([app EXCEPT !.picked = picked])
    BY <1>1 DEF Select
  <2> QED BY <2>1, SetSound
<1>2. CASE FocusComponent
  BY <1>2, FocusSound
<1>3. CASE ClearOverlay
  BY <1>3, SetSound DEF ClearOverlay
<1>4. CASE ClearComponent
  BY <1>4, SetSound DEF ClearComponent
<1>5. CASE FocusSelected
  BY <1>5, SetSound DEF FocusSelected
<1>6. CASE ShowFullGraph
  BY <1>6, SetSound DEF ShowFullGraph
<1>7. CASE ShowAnyway
  BY <1>7, SetSound DEF ShowAnyway
<1>8. ASSUME NEW tab \in Tabs, OpenTab(tab) PROVE GraphInv'
  BY <1>8, SetSound DEF OpenTab
<1> QED BY <1>1, <1>2, <1>3, <1>4, <1>5, <1>6, <1>7, <1>8

LEMMA ShowPathSound == ASSUME IInv, GraphInv, NEW call \in calls, ShowPath(call) PROVE GraphInv'
<1> DEFINE chains == Answered(call)
           now == Overlaid(chains, call.mine)
           a == IF ~call.mine THEN now
                ELSE [now EXCEPT !.path = IF call.kind = "path" THEN {chains} ELSE {},
                                 !.paths = IF call.kind = "paths" THEN {chains} ELSE {}]
<1>1. Render(a, cache, calls \ {call}) /\ claims' = claims
  BY DEF ShowPath, Deliver, case
<1>2. DOMAIN now = AppFields /\ now.focus = {} /\ now.mode = app.mode
  BY DEF IInv, ShellOK, AppFields, Overlaid
<1> HIDE DEF now, chains
<1>3. DOMAIN a = AppFields /\ a.focus = {} /\ a.mode = app.mode
  BY <1>2 DEF AppFields
<1> HIDE DEF a
<1>4. Sound(a)
  BY <1>3 DEF GraphInv, Sound
<1> QED BY <1>1, <1>3, <1>4, RenderedSound DEF IInv, ShellOK, GraphInv

LEMMA ExplorerSound == ASSUME IInv, GraphInv, ExplorerStep PROVE GraphInv'
<1>1. ASSUME NEW kind \in {"path", "paths"}, NEW ask \in Asks, FindPath(kind, ask)
      PROVE  GraphInv'
  BY <1>1, AsideSound DEF FindPath, Mutate, case, GraphInv
<1>2. ASSUME NEW call \in calls, ServePath(call) PROVE GraphInv'
  BY <1>2, AsideSound DEF ServePath, Respond, case, GraphInv
<1>3. ASSUME NEW call \in calls, ShowPath(call) PROVE GraphInv'
  BY <1>3, ShowPathSound
<1> QED BY <1>1, <1>2, <1>3, ViewSound DEF ExplorerStep

LEMMA ReviewSound == ASSUME IInv, GraphInv, ReviewStep PROVE GraphInv'
<1>1. ASSUME NEW kind, NEW of, Mutate(kind, of) PROVE GraphInv'
  BY <1>1, AsideSound DEF Mutate, case, GraphInv
<1>2. ASSUME NEW t \in Thresholds, Analyze(t) \/ TrackFindings(t) PROVE GraphInv'
  BY <1>1, <1>2 DEF Analyze, TrackFindings
<1>3. ASSUME NEW g \in GapIds, NEW status \in Statuses, AckFinding(g, status) PROVE GraphInv'
  BY <1>1, <1>3 DEF AckFinding
<1>4. ASSUME NEW call \in calls, ServeAnalyze(call) \/ ServeTrack(call) \/ ServeAck(call)
      PROVE  GraphInv'
  BY <1>4, AsideSound DEF ServeAnalyze, ServeTrack, ServeAck, Respond, case, GraphInv
<1>5. ASSUME NEW call \in calls, ShowAnalysis(call) PROVE GraphInv'
  <2> DEFINE a == IF call.mine THEN [app EXCEPT !.analysed = Answered(call) # {}] ELSE app
  <2>1. DOMAIN a = AppFields /\ Sound(a)
    BY DEF IInv, ShellOK, AppFields, GraphInv, Sound
  <2>2. Render(a, cache, calls \ {call}) /\ claims' = claims
    BY <1>5 DEF ShowAnalysis, Deliver, case
  <2> HIDE DEF a
  <2> QED BY <2>1, <2>2, RenderedSound DEF IInv, ShellOK, GraphInv
<1>6. ASSUME NEW call \in calls, Tracked(call) \/ Acknowledged(call) PROVE GraphInv'
  <2> DEFINE b == Invalidate(Findings, cache)
             c == Invalidate(Overview, b)
  <2>1. CacheOK(b) /\ ReadingsOK(b)
    BY InvalidatedSound DEF IInv, ShellOK, GraphInv
  <2>2. CacheOK(c) /\ ReadingsOK(c)
    <3> HIDE DEF b
    <3> QED BY <2>1, InvalidatedSound
  <2>3. (Render(app, b, calls \ {call}) \/ Render(app, c, calls \ {call})) /\ claims' = claims
    BY <1>6 DEF Tracked, Acknowledged, Deliver, case
  <2> HIDE DEF b, c
  <2> QED BY <2>1, <2>2, <2>3, RenderedSound DEF IInv, ShellOK, GraphInv
<1> QED BY <1>2, <1>3, <1>4, <1>5, <1>6 DEF ReviewStep

LEMMA GraphInvariant == Spec => []GraphInv
<1>1. Init => GraphInv
  <2> SUFFICES ASSUME Init PROVE GraphInv
    OBVIOUS
  <2>1. claims = 0 /\ 0 \in 0 .. MaxClaims
    BY ClaimsTyped DEF Init, InitCase
  <2>2. Sound(app)
    BY DEF Init, InitApp, Sound
  <2>3. \A q \in Queries : cache[q] = Started(Unread) \/ cache[q] = Unread
    BY DEF Init, InitApp
  <2>4. Unread.data = {} /\ Unread.answer = {} /\ EntryOK(Unread) /\ ~Unread.fetching
    BY DEF Unread, EntryOK, EntryFields
  <2>5. Used(Unread) = Started(Unread)
    BY <2>4 DEF Used
  <2>6. Started(Unread).data = {} /\ Started(Unread).answer = {}
    BY <2>4, <2>5, StartedOK
  <2> QED BY <2>1, <2>2, <2>3, <2>4, <2>6 DEF GraphInv, ReadingsOK
<1>2. IInv /\ GraphInv /\ [Next]_vars => GraphInv'
  <2> SUFFICES ASSUME IInv, GraphInv, [Next]_vars PROVE GraphInv'
    OBVIOUS
  <2>1. CASE UNCHANGED vars
    BY <2>1, AsideSound DEF vars, case, GraphInv
  <2> QED BY <2>1, ShellSound, ExplorerSound, ReviewSound DEF Next
<1> QED BY <1>1, <1>2, Inductive, PTL DEF Spec

-----------------------------------------------------------------------------
LEMMA EndsGrow ==
    ASSUME NEW R, NEW S, R \subseteq S
    PROVE  EndsOf(R) \subseteq EndsOf(S)
BY DEF EndsOf

\* The neighbourhood of an entity has it and what it reaches.
LEMMA EgoClosed ==
    ASSUME NEW e, NEW n
    PROVE  EndsOf(EgoElements(e, n).edges) \subseteq EgoElements(e, n).nodes
<1>1. \A s \in Reached(e, n) : Ends(s.rel) = {e, s.to}
  BY DEF Reached, StepsFrom, StepsOf, Forward, Backward, Ends
<1> QED BY <1>1 DEF EgoElements, EndsOf

\* Whatever is drawn, and however the lists were read: no relationship is drawn
\* without its entities, unless they were listed before a claim and it after
\* (GraphPanel.tsx, elements.ts, App.tsx).
THEOREM DrawsClosed == Spec => []DrawnClosed
<1>1. IInv /\ GraphInv => DrawnClosed
  <2> SUFFICES ASSUME GraphInv, OnGraph,
                      ~(Mode(app) = "full"
                        /\ Read("entities", cache) < Read("relationships", cache))
               PROVE  EndsOf(Drawn(app, cache).edges) \subseteq Drawn(app, cache).nodes
    BY DEF DrawnClosed
  <2> DEFINE none == [nodes |-> {}, edges |-> {}]
             full == [nodes |-> ListedEntities(cache), edges |-> ListedRelationships(cache)]
             ego == Query("neighbors", app.picked.id)
             around == EgoElements(app.picked.id, CHOOSE n \in cache[ego].data : TRUE)
  <2>1. EndsOf(none.edges) \subseteq none.nodes
    BY DEF EndsOf
  <2>2. CASE Mode(app) = "path"
    BY <2>2 DEF Drawn
  <2>3. CASE Mode(app) = "component"
    <3>1. app.focus # {}
      BY <2>3 DEF Mode, GraphInv, Sound
    <3> DEFINE part == CHOOSE part \in app.focus : TRUE
    <3>2. EndsOf(part.relationships) \subseteq part.entity_ids
      BY <3>1 DEF GraphInv, Sound
    <3>3. Drawn(app, cache) = [nodes |-> part.entity_ids, edges |-> part.relationships]
      BY <2>3 DEF Drawn
    <3> HIDE DEF part
    <3> QED BY <3>2, <3>3
  <2>4. CASE Mode(app) = "ego"
    <3>1. Drawn(app, cache) = around \/ Drawn(app, cache) = none
      BY <2>4 DEF Drawn
    <3>2. EndsOf(around.edges) \subseteq around.nodes
      BY EgoClosed
    <3> HIDE DEF around, none
    <3> QED BY <2>1, <3>1, <3>2
  <2>5. CASE Mode(app) \notin {"path", "component", "ego"}
    <3>1. Drawn(app, cache) = none \/ Drawn(app, cache) = full
      BY <2>5 DEF Drawn
    <3>2. Mode(app) = "full"
      BY <2>5 DEF Mode, GraphInv, Sound
    <3>3. /\ Read("entities", cache) \in 0 .. MaxClaims
          /\ Read("relationships", cache) \in 0 .. MaxClaims
      <4>1. ASSUME NEW name \in {"entities", "relationships"}
            PROVE  Read(name, cache) \in 0 .. MaxClaims
        <5>1. Query(name, 0) \in Queries \ {Findings} /\ Query(name, 0) \in Lists
          BY FindingsIsQuery, ListsAreQueries DEF Lists
        <5>2. cache[Query(name, 0)].data # {}
          BY <5>1 DEF OnGraph, OnScreen, Shown
        <5> QED BY <5>1, <5>2 DEF Read, GraphInv, ReadingsOK
      <4> QED BY <4>1
    <3>4. Read("relationships", cache) <= Read("entities", cache)
      <4>1. \A m, n \in 0 .. MaxClaims : ~(m < n) => n <= m
        BY ClaimsTyped
      <4> QED BY <3>2, <3>3, <4>1
    <3>5. EndsOf(full.edges) \subseteq full.nodes
      BY <3>3, <3>4, ClaimsTyped, EndsGrow
         DEF ListedRelationships, ListedEntities, EntitiesAt
    <3> HIDE DEF full, none
    <3> QED BY <2>1, <3>1, <3>5
  <2> QED BY <2>2, <2>3, <2>4, <2>5
<1> QED BY <1>1, GraphInvariant, Inductive, PTL
=============================================================================

------------------------------ MODULE QueryClient ------------------------------
(***************************************************************************)
(* One entry of the query cache of @tanstack/react-query, as the QueryClient *)
(* of frontend/src/main.tsx has it: a query is fetched once when a          *)
(* component begins to use it, is not retried when it fails, and is fetched *)
(* again only when it is used anew or invalidated.                          *)
(***************************************************************************)
EXTENDS Integers

\* data and answer hold at most one value: what the components see, and what the
\* server has answered to the fetch under way.  `missed' is not in the code: an
\* invalidation that this fetch may not honour, or one that never came.
Unread == [status |-> "pending", data |-> {}, fetching |-> FALSE, answer |-> {},
           missed |-> FALSE]

\* A fetch begins, in place of one under way; what was read stays on the screen.
Started(q) ==
    [q EXCEPT !.fetching = TRUE, !.answer = {}, !.missed = FALSE,
              !.status = IF q.data = {} THEN "pending" ELSE @]

\* A component begins to use the query, and shares a fetch that is under way.
Used(q) == IF q.fetching THEN q ELSE Started(q)

\* invalidateQueries: a query in use is fetched again, in place of a fetch under
\* way unless that is the first; one that is not in use waits until it is used.
Invalidated(q, active) ==
    IF active /\ ~(q.fetching /\ q.data = {})
    THEN Started(q)
    ELSE [q EXCEPT !.missed = @ \/ q.fetching]

Served(q, value) == [q EXCEPT !.answer = {value}]

Succeeded(q) ==
    [q EXCEPT !.status = "success", !.data = q.answer, !.fetching = FALSE, !.answer = {}]

\* What was read before stays.
Failed(q) == [q EXCEPT !.status = "error", !.fetching = FALSE, !.answer = {}]
=============================================================================

---------------------------- MODULE AtomicIngest ----------------------------
(***************************************************************************)
(* What ingest_source promises (ingest/pipeline.py): a source's records    *)
(* all enter the case in one step, in the order of the source, or none do. *)
(***************************************************************************)
EXTENDS SourceRecords

VARIABLE db

\* The chain of custody of line l, to which the first k records of s, ingested at
\* t, have added what it did not hold yet.
Chains(tables, s, t, l) ==
    LET chain[k \in 0 .. Len(Records[s])] ==
            IF k = 0 THEN tables.evidence[l]
            ELSE IF Records[s][k].line = l /\ Custody(s, k, t) \notin Range(tables.evidence[l])
                 THEN Append(chain[k - 1], Custody(s, k, t))
                 ELSE chain[k - 1]
    IN chain

\* The tables after s has been ingested at t, in the order of s.
After(tables, s, t) ==
    LET rows == Range(Records[s])
    IN [evidence |-> [l \in Lines |-> Chains(tables, s, t, l)[Len(Records[s])]],
        events |-> tables.events \cup UNION {EventsOf(r) : r \in rows},
        assertions |-> tables.assertions \cup UNION {AssertionsOf(r) : r \in rows}]

Init == db = NoRows

IngestSource(s, t) ==
    /\ \A r \in Range(Records[s]) : r.reading # "bad"
    /\ db' = After(db, s, t)

Next == \E s \in Sources, t \in Instants : IngestSource(s, t)

Spec == Init /\ [][Next]_db
=============================================================================

---------------------------- MODULE SourceRecords ----------------------------
(***************************************************************************)
(* The records of the source files and the objects made of them.  A record *)
(* (module Adapters says how an adapter makes it) is a line, the schema    *)
(* its event's attributes depend on besides the line, and its reading:     *)
(*   "raw"      evidence only                                              *)
(*   "plain"    an event, without a timezone-aware timestamp               *)
(*   "stamped"  an event with one, hence also a time assertion             *)
(*   "bad"      the adapter raises                                         *)
(* Ids are content hashes, so an object is named here by what its id       *)
(* hashes: evidence by its line (the same in every source), an event by    *)
(* its line and schema, the time assertion of an event by that event.      *)
(***************************************************************************)
EXTENDS Sequences, Naturals, Functions

CONSTANTS
    Sources,    \* source files, each with the adapter it is ingested with
    Lines,      \* line contents
    Schemas,    \* what an adapter adds to a line to make an event
    Records,    \* Records[s]: what the adapter yields for s, in order
    Instants    \* values of collected_at

Readings == {"raw", "plain", "stamped", "bad"}

ASSUME RecordsAssumption ==
    Records \in [Sources -> Seq([line : Lines, schema : Schemas, reading : Readings])]

\* The NormalizedEvent derived from a record, if any.
EventsOf(rec) == IF rec.reading \in {"plain", "stamped"} THEN {<<rec.line, rec.schema>>}
                 ELSE {}

\* The TimeAssertion derived from the event of a record, if any.
AssertionsOf(rec) == IF rec.reading = "stamped" THEN EventsOf(rec) ELSE {}

\* The ProvenanceRecord that ingesting record i of s at t makes: the actor and
\* the locator say which record of which source it is.
Custody(s, i, t) == <<s, i, t>>

CustodyRecords == Sources \X Nat \X Instants
EventIds == Lines \X Schemas

\* A case's tables: evidence[l] is the chain of custody of line l, empty when
\* the table has no row for it.
Tables == [evidence : [Lines -> Seq(CustodyRecords)],
           events : SUBSET EventIds,
           assertions : SUBSET EventIds]

\* What compute_manifest keeps of a table's rows.
Manifests == [evidence : SUBSET Lines, events : SUBSET EventIds,
              assertions : SUBSET EventIds]

NoRows == [evidence |-> [l \in Lines |-> <<>>], events |-> {}, assertions |-> {}]

HasEvidence(tables, l) == tables.evidence[l] # <<>>

\* What compute_manifest hashes of the tables: for evidence its content only,
\* so a manifest does not tell one chain of custody from another.
Ids(tables) == [evidence |-> {l \in Lines : HasEvidence(tables, l)},
                events |-> tables.events,
                assertions |-> tables.assertions]
=============================================================================

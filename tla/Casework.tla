------------------------------- MODULE Casework -------------------------------
(***************************************************************************)
(* What analysts do with a case from the command line: `entities create',  *)
(* `relationships create', `time-assertions create', `hypothesis propose', *)
(* `hypothesis support' and `contradict', and `verify' (or `replay'), run  *)
(* by any number of processes on one case, beside ingests.                 *)
(*                                                                         *)
(* Each command looks up what it refers to, one SELECT at a time, writes   *)
(* one row and commits it, and records the manifest; none of it is one     *)
(* transaction.  That write and its commit are one step here: no other     *)
(* process sees what lies between them.  An ingest, whose own steps are in *)
(* module Ingest, adds its rows in one step and records the manifest too.  *)
(***************************************************************************)
EXTENDS Naturals, Sequences, FiniteSets, Functions

CONSTANTS
    Procs,          \* processes working on the case
    EvidenceItems,  \* ids of evidence items
    Events,         \* ids of normalized events
    Entities,       \* ids of entities, generated
    Relationships,  \* what relationships can be claimed: ids are content hashes
    Assertions,     \* what times can be asserted: ids are content hashes
    Hypotheses,     \* ids of hypotheses, generated
    Cited,          \* lists of ids that analysts cite on the command line
    Earlier,        \* tables that earlier commands have left
    NoManifest,     \* there is no manifest.json
    Torn,           \* manifest.json is cut short
    MaxCommands     \* bound on the number of commands started

Facts == EvidenceItems \cup Events

ASSUME FactsAssumption == EvidenceItems \cap Events = {}
ASSUME RelationshipsAssumption ==
    Relationships \subseteq [source : Entities, target : Entities, from : Cited]
ASSUME AssertionsAssumption == Assertions \subseteq [subject : Facts, evidence : Facts]
ASSUME CitedAssumption == Cited \subseteq Seq(Facts) \ {<<>>}
ASSUME MaxCommandsIsNat == MaxCommands \in Nat
ASSUME IdsAssumption == /\ Facts \cap (Entities \cup Hypotheses) = {}
                        /\ Entities \cap Hypotheses = {}

VARIABLES
    tables,         \* the committed tables of case.db
    manifest,       \* what manifest.json records
    started,        \* commands started so far
    pc,             \* pc[p]: what p does next
    cmd,            \* cmd[p]: p's command
    todo,           \* todo[p]: the ids p has yet to look up
    seen,           \* seen[p]: the hypothesis as p has read it
    snap,           \* snap[p]: the tables compute_manifest has read
    verdict,        \* verdict[p]: what p's last `verify' has said
    added,          \* history: the references that changes have put
    contended,      \* history: hypotheses two changes of which overlapped
    calm,           \* history: nobody else wrote since p began to read the tables
    vouched         \* history: no commit since a manifest was recorded in calm, if ever

vars == <<tables, manifest, started, pc, cmd, todo, seen, snap, verdict,
          added, contended, calm, vouched>>

Statuses == {"proposed", "supported", "contradicted"}
NoHypothesis == [status |-> "none", supporting |-> <<>>, contradicting |-> <<>>]
Rows == [status : Statuses, supporting : Seq(Facts), contradicting : Seq(Facts)]

\* entities[e]: derived_from, which is empty for no entity there is;
\* relationships[r], assertions[a]: created_at, in commands started, 0 if there
\* is no such row.
Tables == [evidence : SUBSET EvidenceItems,
           events : SUBSET Events,
           entities : [Entities -> {<<>>} \cup Cited],
           relationships : [Relationships -> Nat],
           assertions : [Assertions -> Nat],
           hypotheses : [Hypotheses -> Rows \cup {NoHypothesis}]]

Manifests == [evidence : SUBSET EvidenceItems,
              events : SUBSET Events,
              entities : [Entities -> {<<>>} \cup Cited],
              relationships : SUBSET Relationships,
              assertions : SUBSET Assertions,
              hypotheses : [Hypotheses -> Rows \cup {NoHypothesis}]]

ASSUME ManifestsAssumption == /\ NoManifest # Torn
                              /\ {NoManifest, Torn} \cap Manifests = {}

Resolve(t, ids) == \A i \in DOMAIN ids : ids[i] \in t.evidence \cup t.events

\* What the rows of t refer to is there.
Grounded(t) ==
    /\ \A e \in Entities : Resolve(t, t.entities[e])
    /\ \A r \in Relationships : t.relationships[r] # 0 =>
          /\ r.source # r.target
          /\ t.entities[r.source] # <<>> /\ t.entities[r.target] # <<>>
          /\ Resolve(t, r.from)
    /\ \A a \in Assertions : t.assertions[a] # 0 =>
          a.subject \in t.events /\ a.evidence \in t.evidence
    /\ \A h \in Hypotheses : /\ Resolve(t, t.hypotheses[h].supporting)
                             /\ Resolve(t, t.hypotheses[h].contradicting)

ASSUME EarlierAssumption ==
    \A t \in Earlier : /\ t \in Tables
                       /\ Grounded(t)
                       /\ \A h \in Hypotheses : t.hypotheses[h] # NoHypothesis =>
                             t.hypotheses[h].supporting # <<>>

\* What compute_manifest hashes: of relationships and assertions only their ids,
\* of entities and hypotheses everything.
Hashed(t) == [evidence |-> t.evidence, events |-> t.events, entities |-> t.entities,
              relationships |-> {r \in Relationships : t.relationships[r] # 0},
              assertions |-> {a \in Assertions : t.assertions[a] # 0},
              hypotheses |-> t.hypotheses]

Commands ==
    [do : {"ingest"}, facts : SUBSET Facts]
        \cup [do : {"entity"}, id : Entities, from : Cited]
        \cup [do : {"relationship"}, claim : Relationships]
        \cup [do : {"assertion"}, claim : Assertions]
        \cup [do : {"propose"}, id : Hypotheses, refs : Cited]
        \cup [do : {"change"}, id : Hypotheses, status : {"supported", "contradicted"},
              refs : Cited]
        \cup [do : {"verify"}]

\* What a command looks up before it writes, and where: an id in a set of tables.
Among(ids, where) == [i \in DOMAIN ids |-> <<ids[i], where>>]
Anywhere == {"evidence", "events"}
Citations == (Facts \cup Entities) \X SUBSET {"evidence", "events", "entities"}

LookUps(c) ==
    CASE c.do = "entity" -> Among(c.from, Anywhere)
      [] c.do = "relationship" -> Among(<<c.claim.source, c.claim.target>>, {"entities"})
                                    \o Among(c.claim.from, Anywhere)
      [] c.do = "assertion" -> <<<<c.claim.subject, {"events"}>>,
                                 <<c.claim.evidence, {"evidence"}>>>>
      [] c.do \in {"propose", "change"} -> Among(c.refs, Anywhere)
      [] c.do \in {"ingest", "verify"} -> <<>>

\* Where a command begins.
First(c) == IF c.do = "change" THEN "get" ELSE IF c.do = "verify" THEN "evidence" ELSE "look"

IsThere(id, where) == \/ "evidence" \in where /\ id \in tables.evidence
                      \/ "events" \in where /\ id \in tables.events
                      \/ "entities" \in where /\ id \in Entities /\ tables.entities[id] # <<>>

\* Nobody has generated the id: no row has it, no command under way.
IsNew(id) == /\ id \in Entities => tables.entities[id] = <<>>
             /\ id \in Hypotheses => tables.hypotheses[id] = NoHypothesis
             /\ \A p \in Procs : /\ pc[p] # "idle"
                                 /\ cmd[p].do \in {"entity", "propose"}
                                 => cmd[p].id # id

Init == /\ tables \in Earlier
        /\ manifest \in {Hashed(tables), NoManifest}
        /\ started = 0
        /\ pc = [p \in Procs |-> "idle"]
        /\ cmd = [p \in Procs |-> [do |-> "verify"]]
        /\ todo = [p \in Procs |-> <<>>]
        /\ seen = [p \in Procs |-> NoHypothesis]
        /\ snap = [p \in Procs |-> Hashed(tables)]
        /\ verdict = [p \in Procs |-> "none"]
        /\ added = [h \in Hypotheses |-> {}]
        /\ contended = {}
        /\ calm = [p \in Procs |-> FALSE]
        /\ vouched = TRUE

-----------------------------------------------------------------------------
\* p's command ends, by an error or with its process.
Abort(p) == /\ pc' = [pc EXCEPT ![p] = "idle"]
            /\ UNCHANGED <<tables, manifest, started, cmd, todo, seen, snap, verdict,
                           added, contended, calm, vouched>>

\* A command opens the case.
Begin(p, c) ==
    /\ pc[p] = "idle"
    /\ started < MaxCommands
    /\ c.do \in {"entity", "propose"} => IsNew(c.id)
    /\ started' = started + 1
    /\ cmd' = [cmd EXCEPT ![p] = c]
    /\ todo' = [todo EXCEPT ![p] = LookUps(c)]
    /\ pc' = [pc EXCEPT ![p] = First(c)]
    /\ calm' = [calm EXCEPT ![p] = (c.do = "verify")]
    /\ UNCHANGED <<tables, manifest, seen, snap, verdict, added, contended, vouched>>

\* `no such hypothesis'.
NoSuchHypothesis(p) == /\ pc[p] = "get"
                       /\ tables.hypotheses[cmd[p].id] = NoHypothesis
                       /\ Abort(p)

\* p has read hypothesis h and not yet written it.
Changing(p, h) == pc[p] = "look" /\ cmd[p].do = "change" /\ cmd[p].id = h

\* Variant: a hypothesis that is not there is changed like any other.
GetHypothesisAny(p) ==
    /\ pc[p] = "get"
    /\ seen' = [seen EXCEPT ![p] = tables.hypotheses[cmd[p].id]]
    /\ pc' = [pc EXCEPT ![p] = "look"]
    /\ contended' = IF \E q \in Procs : Changing(q, cmd[p].id)
                    THEN contended \cup {cmd[p].id} ELSE contended
    /\ UNCHANGED <<tables, manifest, started, cmd, todo, snap, verdict, added, calm,
                   vouched>>

\* _change_hypothesis_status: `existing = case.store.get_hypothesis(...)'.
GetHypothesis(p) ==
    /\ pc[p] = "get"
    /\ tables.hypotheses[cmd[p].id] # NoHypothesis
    /\ seen' = [seen EXCEPT ![p] = tables.hypotheses[cmd[p].id]]
    /\ pc' = [pc EXCEPT ![p] = "look"]
    /\ contended' = IF \E q \in Procs : Changing(q, cmd[p].id)
                    THEN contended \cup {cmd[p].id} ELSE contended
    /\ UNCHANGED <<tables, manifest, started, cmd, todo, snap, verdict, added, calm,
                   vouched>>

\* Variant: the look-ups stop short of the last id.
LookUpButLast(p) ==
    /\ pc[p] = "look"
    /\ todo[p] # <<>>
    /\ IsThere(Head(todo[p])[1], Head(todo[p])[2]) \/ Len(todo[p]) = 1
    /\ todo' = [todo EXCEPT ![p] = Tail(@)]
    /\ UNCHANGED <<tables, manifest, started, pc, cmd, seen, snap, verdict, added,
                   contended, calm, vouched>>

\* The next id that the command cites names a row ...
LookUp(p) == /\ pc[p] = "look"
             /\ todo[p] # <<>>
             /\ IsThere(Head(todo[p])[1], Head(todo[p])[2])
             /\ todo' = [todo EXCEPT ![p] = Tail(@)]
             /\ UNCHANGED <<tables, manifest, started, pc, cmd, seen, snap, verdict,
                            added, contended, calm, vouched>>

\* ... or not: BadParameter.
Unknown(p) == /\ pc[p] = "look"
              /\ todo[p] # <<>>
              /\ ~IsThere(Head(todo[p])[1], Head(todo[p])[2])
              /\ Abort(p)

\* Relationship.create raises: an entity is not related to itself.
Invalid(p) == /\ pc[p] = "look"
              /\ todo[p] = <<>>
              /\ cmd[p].do = "relationship"
              /\ cmd[p].claim.source = cmd[p].claim.target
              /\ Abort(p)

\* Variant: INSERT OR REPLACE.
ClaimedAnew(rows, c) == [rows EXCEPT ![c] = started]

\* put_relationship, put_time_assertion: INSERT OR IGNORE.
Claimed(rows, c) == [rows EXCEPT ![c] = IF @ = 0 THEN started ELSE @]

\* Variant: the evidence of a change takes the place of what was there.
WithStatusAlone(h, status, refs) ==
    [h EXCEPT !.status = status,
              !.supporting = IF status = "supported" THEN refs ELSE @,
              !.contradicting = IF status = "contradicted" THEN refs ELSE @]

\* Hypothesis.with_status, as `support' and `contradict' call it.
WithStatus(h, status, refs) ==
    [h EXCEPT !.status = status,
              !.supporting = IF status = "supported" THEN @ \o refs ELSE @,
              !.contradicting = IF status = "contradicted" THEN @ \o refs ELSE @]

Proposal(refs) == [status |-> "proposed", supporting |-> refs, contradicting |-> <<>>]

\* The row that a command writes (INSERT OR REPLACE, but for the claims).
Write(c, read) ==
    \/ /\ c.do = "ingest"
       /\ tables' = [tables EXCEPT !.evidence = @ \cup (c.facts \cap EvidenceItems),
                                   !.events = @ \cup (c.facts \cap Events)]
    \/ /\ c.do = "entity"
       /\ tables' = [tables EXCEPT !.entities[c.id] = c.from]
    \/ /\ c.do = "relationship"
       /\ c.claim.source # c.claim.target
       /\ tables' = [tables EXCEPT !.relationships = Claimed(@, c.claim)]
    \/ /\ c.do = "assertion"
       /\ tables' = [tables EXCEPT !.assertions = Claimed(@, c.claim)]
    \/ /\ c.do = "propose"
       /\ tables' = [tables EXCEPT !.hypotheses[c.id] = Proposal(c.refs)]
    \/ /\ c.do = "change"
       /\ tables' = [tables EXCEPT !.hypotheses[c.id] = WithStatus(read, c.status, c.refs)]

\* Everything is looked up: the row is written and committed.
Put(p) ==
    /\ pc[p] = "look"
    /\ todo[p] = <<>>
    /\ Write(cmd[p], seen[p])
    /\ added' = IF cmd[p].do = "change"
                THEN [added EXCEPT ![cmd[p].id] =
                        @ \cup {<<cmd[p].status, r>> : r \in Range(cmd[p].refs)}]
                ELSE added
    /\ calm' = [q \in Procs |-> q = p]
    /\ vouched' = FALSE
    /\ pc' = [pc EXCEPT ![p] = "evidence"]
    /\ UNCHANGED <<manifest, started, cmd, todo, seen, snap, verdict, contended>>

\* Variant: compute_manifest leaves out the hypotheses.
AfterReadingLess ==
    [evidence |-> "events", events |-> "entities", entities |-> "relationships",
     relationships |-> "assertions", assertions |-> "listed", hypotheses |-> "listed"]

\* The order in which compute_manifest lists the tables, and what follows.
AfterReading ==
    [evidence |-> "events", events |-> "entities", entities |-> "relationships",
     relationships |-> "assertions", assertions |-> "hypotheses", hypotheses |-> "listed"]

\* compute_manifest: one list_*() call, each a statement of its own.
ReadTable(p) ==
    /\ pc[p] \in DOMAIN AfterReading
    /\ snap' = [snap EXCEPT ![p][pc[p]] = Hashed(tables)[pc[p]]]
    /\ pc' = [pc EXCEPT ![p] = AfterReading[pc[p]]]
    /\ UNCHANGED <<tables, manifest, started, cmd, todo, seen, verdict, added, contended,
                   calm, vouched>>

\* record_manifest: write_text opens manifest.json for writing, ...
TruncateManifest(p) ==
    /\ pc[p] = "listed"
    /\ cmd[p].do # "verify"
    /\ manifest' = Torn
    /\ pc' = [pc EXCEPT ![p] = "record"]
    /\ calm' = [q \in Procs |-> q = p /\ calm[p]]
    /\ vouched' = FALSE
    /\ UNCHANGED <<tables, started, cmd, todo, seen, snap, verdict, added, contended>>

\* ... and writes the text; the command is done.
WriteManifest(p) ==
    /\ pc[p] = "record"
    /\ manifest' = snap[p]
    /\ pc' = [pc EXCEPT ![p] = "idle"]
    /\ calm' = [q \in Procs |-> q = p /\ calm[p]]
    /\ vouched' = calm[p]
    /\ UNCHANGED <<tables, started, cmd, todo, seen, snap, verdict, added, contended>>

\* Variant: a missing manifest is no match.
VerdictStrict(recomputed, recorded) == IF recorded = recomputed THEN "MATCH" ELSE "MISMATCH"

\* replay_and_verify and _replay_verdict: a manifest cut short does not parse.
Verdict(recomputed, recorded) ==
    IF recorded = Torn THEN "error"
    ELSE IF recorded \in {NoManifest, recomputed} THEN "MATCH" ELSE "MISMATCH"

\* `verify' loads the recorded manifest and compares.
Compare(p) ==
    /\ pc[p] = "listed"
    /\ cmd[p].do = "verify"
    /\ verdict' = [verdict EXCEPT ![p] = Verdict(snap[p], manifest)]
    /\ pc' = [pc EXCEPT ![p] = "idle"]
    /\ UNCHANGED <<tables, manifest, started, cmd, todo, seen, snap, added, contended,
                   calm, vouched>>

\* The process dies, or an error ends its command.
Interrupt(p) == pc[p] # "idle" /\ Abort(p)

Step(p) == \/ NoSuchHypothesis(p)
           \/ GetHypothesis(p)
           \/ LookUp(p)
           \/ Unknown(p)
           \/ Invalid(p)
           \/ Put(p)
           \/ ReadTable(p)
           \/ TruncateManifest(p)
           \/ WriteManifest(p)
           \/ Compare(p)

\* No command is left to start.
Finished == /\ started = MaxCommands
            /\ \A p \in Procs : pc[p] = "idle"
            /\ UNCHANGED vars

Next == \/ \E p \in Procs : \/ \E c \in Commands : Begin(p, c)
                            \/ Step(p)
                            \/ Interrupt(p)
        \/ Finished

Spec == Init /\ [][Next]_vars

-----------------------------------------------------------------------------
Stages == {"idle", "get", "look", "listed", "record"}

\* The types of the variables; a process runs the steps of its own command, and
\* one that changes a hypothesis holds the row that it read.
TypeOK ==
    /\ tables \in Tables
    /\ manifest \in {NoManifest, Torn} \cup Manifests
    /\ started \in 0 .. MaxCommands
    /\ pc \in [Procs -> Stages \cup DOMAIN AfterReading]
    /\ cmd \in [Procs -> Commands]
    /\ todo \in [Procs -> Seq(Citations)]
    /\ seen \in [Procs -> Rows \cup {NoHypothesis}]
    /\ snap \in [Procs -> Manifests]
    /\ verdict \in [Procs -> {"none", "MATCH", "MISMATCH", "error"}]
    /\ added \in [Hypotheses -> SUBSET (Statuses \X Facts)]
    /\ contended \in SUBSET Hypotheses
    /\ calm \in [Procs -> BOOLEAN]
    /\ vouched \in BOOLEAN
    /\ \A p \in Procs : pc[p] = "get" => cmd[p].do = "change"
    /\ \A p \in Procs : pc[p] = "record" => cmd[p].do # "verify"
    /\ \A p \in Procs : pc[p] = "look" =>
          /\ cmd[p].do # "verify"
          /\ cmd[p].do = "change" => seen[p] # NoHypothesis

\* Whatever a row refers to is in the case, in the table it must be in: the
\* look-ups of a command still hold when it writes, "confirming both ids actually
\* name existing Entities" (core/relationships.py, core/hypothesis.py).
ReferencesResolve == Grounded(tables)

\* The rows that there are stay.
Kept == /\ tables.evidence \subseteq tables'.evidence
        /\ tables.events \subseteq tables'.events
        /\ \A e \in Entities : tables.entities[e] # <<>> =>
              tables'.entities[e] = tables.entities[e]
        /\ \A r \in Relationships : tables.relationships[r] # 0 =>
              tables'.relationships[r] = tables.relationships[r]
        /\ \A a \in Assertions : tables.assertions[a] # 0 =>
              tables'.assertions[a] = tables.assertions[a]
        /\ \A h \in Hypotheses : tables.hypotheses[h] # NoHypothesis =>
              /\ tables'.hypotheses[h] # NoHypothesis
              /\ Head(tables'.hypotheses[h].supporting)
                   = Head(tables.hypotheses[h].supporting)

\* The tables are append-only, whoever writes at the same time (SqliteStore's
\* docstring): a claim made again is "a safe, idempotent no-op", an entity stays
\* as it was created, a hypothesis keeps the evidence it was proposed with.
RowsKept == [][Kept]_tables

Held(h, status) == IF status = "supported" THEN tables.hypotheses[h].supporting
                   ELSE tables.hypotheses[h].contradicting

\* Every reference that `support' or `contradict' has put into a hypothesis is
\* still there, on its side, unless two changes of the hypothesis overlapped:
\* with_status only adds.  (Of two that overlap, one is lost.)
ChangesKept ==
    \A h \in Hypotheses \ contended : \A x \in added[h] : x[2] \in Range(Held(h, x[1]))

\* A manifest that was recorded while nobody else wrote is that of the case
\* until the next commit: however manifests were cut short or overtaken before,
\* any one command run by itself sets it right.  (NoManifest: none was ever
\* recorded, `init' was cut short.)
ManifestCurrent == vouched => manifest \in {Hashed(tables), NoManifest}

\* And of such a case `verify' says MATCH, if nobody writes meanwhile.
IntactCaseMatches ==
    [][\A p \in Procs : Compare(p) /\ calm[p] /\ vouched => verdict'[p] = "MATCH"]_vars
=============================================================================

------------------------------- MODULE Tracking -------------------------------
(***************************************************************************)
(* The commands that persist what the analyses find and what analysts make *)
(* of it: `gaps --track' and `contradictions --track' (correlate/          *)
(* tracking.py, contradiction_tracking.py), `findings ack' and             *)
(* `contradiction-findings ack', run by any number of processes on one     *)
(* case, over the tables tracked_gap_findings and                          *)
(* tracked_time_contradictions of store/sqlite_store.py.                   *)
(*                                                                         *)
(* The case goes on growing meanwhile (module Observations).  SQLite is    *)
(* used as in module Ingest: a SELECT outside a transaction sees what is   *)
(* committed, the first write of a transaction takes the write lock.       *)
(* Those other commands take it too: they commit while it is free.         *)
(***************************************************************************)
EXTENDS Gaps, Contradictions

CONSTANTS
    Procs,          \* processes working on the case
    NoProc,         \* the write lock is free
    Reviews,        \* what an analyst can annotate: a status, a name, a note
    NoReview,       \* the annotation of a finding as it is tracked
    NoFinding,      \* no finding, or the id of none
    MaxCommands     \* bound on the number of commands started

ASSUME NoProcIsNone == NoProc \notin Procs
ASSUME NoReviewIsNone == NoReview \notin Reviews
ASSUME MaxCommandsIsNat == MaxCommands \in Nat

VARIABLES
    rows,           \* the committed rows of the two tables
    image,          \* the rows as the lock holder sees them
    lock,           \* the process whose transaction has written
    started,        \* commands started so far
    pc,             \* pc[p]: what p does next
    cmd,            \* cmd[p]: p's command
    read,           \* read[p]: what find_gaps has read of the case
    found,          \* found[p]: what p's analysis found, or the row its ack read
    todo,           \* todo[p]: the findings p has yet to track
    now,            \* now[p]: the finding p is tracking, or the row p annotates
    new             \* new[p]: the findings p will report as newly tracked

tracking == <<rows, image, lock, started, pc, cmd, read, found, todo, now, new>>
vars == <<observations, tracking>>

Kinds == {"gaps", "contradictions"}
TrackCommands == [do : {"track"}, of : Kinds, param : Params]
AckCommands == [do : {"ack"}, of : Kinds, review : Reviews]

\* The rows of a finding: none or one, the id being the primary key.
RowsOf(table, of, f) == {r \in table : r.of = of /\ r.finding = f}

\* What a SELECT of p sees, and whether p need not wait to write.
View(p) == IF lock = p THEN image ELSE rows
CanWrite(p) == lock \in {NoProc, p}

\* The row p's command has reached.
Rows(p) == RowsOf(View(p), cmd[p].of, now[p])

\* A freshly tracked finding: open, with the parameters it was found with.
Candidate(p) == [of |-> cmd[p].of, finding |-> now[p], param |-> cmd[p].param,
                 review |-> NoReview]

Unread == [events |-> {}, lines |-> {}, sources |-> [l \in Lines |-> {}]]

Init == /\ InitiallyObserved
        /\ rows = {}
        /\ image = {}
        /\ lock = NoProc
        /\ started = 0
        /\ pc = [p \in Procs |-> "idle"]
        /\ \E c \in TrackCommands : cmd = [p \in Procs |-> c]
        /\ read = [p \in Procs |-> Unread]
        /\ found = [p \in Procs |-> {}]
        /\ todo = [p \in Procs |-> {}]
        /\ now = [p \in Procs |-> NoFinding]
        /\ new = [p \in Procs |-> {}]

-----------------------------------------------------------------------------
\* The transaction of p ends without a commit, and its command with it.
Abort(p) == /\ lock' = IF lock = p THEN NoProc ELSE lock
            /\ image' = IF lock = p THEN rows ELSE image
            /\ pc' = [pc EXCEPT ![p] = "idle"]
            /\ UNCHANGED <<observations, rows, started, cmd, read, found, todo,
                           now, new>>

\* A command opens the case; contradictions reads one table, gaps reads three.
BeginTrack(p, c) ==
    /\ pc[p] = "idle"
    /\ started < MaxCommands
    /\ started' = started + 1
    /\ cmd' = [cmd EXCEPT ![p] = c]
    /\ pc' = [pc EXCEPT ![p] = IF c.of = "gaps" THEN "events" ELSE "claims"]
    /\ UNCHANGED <<observations, rows, image, lock, read, found, todo, now, new>>

\* list_normalized_events, then list_evidence, each a statement of its own.
ReadEvents(p) ==
    /\ pc[p] = "events"
    /\ read' = [read EXCEPT ![p].events = known]
    /\ pc' = [pc EXCEPT ![p] = "evidence"]
    /\ UNCHANGED <<observations, rows, image, lock, started, cmd, found, todo,
                   now, new>>

ReadEvidence(p) ==
    /\ pc[p] = "evidence"
    /\ read' = [read EXCEPT ![p].lines = known, ![p].sources = declared]
    /\ pc' = [pc EXCEPT ![p] = "claims"]
    /\ UNCHANGED <<observations, rows, image, lock, started, cmd, found, todo,
                   now, new>>

\* What p finds when it reads the claims now.
Finds(p) == IF cmd[p].of = "gaps"
            THEN FindGaps(claims, read[p].events, read[p].lines, read[p].sources,
                          cmd[p].param)
            ELSE TimeContradictions(claims)

\* list_time_assertions; the analysis is then complete, and the transaction
\* block is entered.
Analyse(p) ==
    /\ pc[p] = "claims"
    /\ found' = [found EXCEPT ![p] = Finds(p)]
    /\ todo' = [todo EXCEPT ![p] = Finds(p)]
    /\ new' = [new EXCEPT ![p] = {}]
    /\ pc' = [pc EXCEPT ![p] = "track"]
    /\ UNCHANGED <<observations, rows, image, lock, started, cmd, read, now>>

\* track_findings: `pre_existing = store.get_tracked_finding(id_) is not None'.
\* (The order of the findings makes no difference.)
LookUp(p) ==
    /\ pc[p] = "track"
    /\ \E f \in todo[p] :
          /\ now' = [now EXCEPT ![p] = f]
          /\ new' = IF RowsOf(View(p), cmd[p].of, f) = {}
                    THEN [new EXCEPT ![p] = @ \cup {f}] ELSE new
    /\ pc' = [pc EXCEPT ![p] = "create"]
    /\ UNCHANGED <<observations, rows, image, lock, started, cmd, read, found,
                   todo>>

Advance(p) == /\ todo' = [todo EXCEPT ![p] = @ \ {now[p]}]
              /\ pc' = [pc EXCEPT ![p] = "track"]

\* create_tracked_finding looks again: the row is there, and left as it is, ...
LeaveTracked(p) ==
    /\ pc[p] = "create"
    /\ Rows(p) # {}
    /\ Advance(p)
    /\ UNCHANGED <<observations, rows, image, lock, started, cmd, read, found,
                   now, new>>

\* ... or it is not, and an INSERT follows.
Miss(p) ==
    /\ pc[p] = "create"
    /\ Rows(p) = {}
    /\ pc' = [pc EXCEPT ![p] = "insert"]
    /\ UNCHANGED <<observations, rows, image, lock, started, cmd, read, found,
                   todo, now, new>>

\* Variant: INSERT OR REPLACE.
InsertReplacing(p) ==
    /\ pc[p] = "insert"
    /\ CanWrite(p)
    /\ lock' = p
    /\ image' = (View(p) \ Rows(p)) \cup {Candidate(p)}
    /\ Advance(p)
    /\ UNCHANGED <<observations, rows, started, cmd, read, found, now, new>>

\* Variant: each row is committed by itself.
InsertAlone(p) ==
    /\ pc[p] = "insert"
    /\ CanWrite(p)
    /\ Rows(p) = {}
    /\ lock' = NoProc
    /\ image' = View(p) \cup {Candidate(p)}
    /\ rows' = View(p) \cup {Candidate(p)}
    /\ Advance(p)
    /\ UNCHANGED <<observations, started, cmd, read, found, now, new>>

\* The INSERT; the first one of the transaction takes the lock.
Insert(p) ==
    /\ pc[p] = "insert"
    /\ CanWrite(p)
    /\ Rows(p) = {}
    /\ lock' = p
    /\ image' = View(p) \cup {Candidate(p)}
    /\ Advance(p)
    /\ UNCHANGED <<observations, rows, started, cmd, read, found, now, new>>

\* sqlite3.IntegrityError: another process has tracked the finding meanwhile.
InsertRejected(p) ==
    /\ pc[p] = "insert"
    /\ CanWrite(p)
    /\ Rows(p) # {}
    /\ Abort(p)

\* The transaction block ends; the command reports what it created.
Commit(p) ==
    /\ pc[p] = "track"
    /\ todo[p] = {}
    /\ rows' = View(p)
    /\ lock' = IF lock = p THEN NoProc ELSE lock
    /\ pc' = [pc EXCEPT ![p] = "idle"]
    /\ UNCHANGED <<observations, image, started, cmd, read, found, todo, now, new>>

\* An analyst annotates a finding, by an id that is in its table or not.
BeginAck(p, of, f, review) ==
    /\ pc[p] = "idle"
    /\ started < MaxCommands
    /\ started' = started + 1
    /\ cmd' = [cmd EXCEPT ![p] = [do |-> "ack", of |-> of, review |-> review]]
    /\ now' = [now EXCEPT ![p] = f]
    /\ pc' = [pc EXCEPT ![p] = "look"]
    /\ UNCHANGED <<observations, rows, image, lock, read, found, todo, new>>

\* annotate_tracked_finding finds no such row and raises, ...
AckUnknown(p) ==
    /\ pc[p] = "look"
    /\ Rows(p) = {}
    /\ Abort(p)

\* ... or it has the row, ...
AckKnown(p) ==
    /\ pc[p] = "look"
    /\ Rows(p) # {}
    /\ found' = [found EXCEPT ![p] = Rows(p)]
    /\ pc' = [pc EXCEPT ![p] = "annotate"]
    /\ UNCHANGED <<observations, rows, image, lock, started, cmd, read, todo, now,
                   new>>

\* ... and updates it to what it had read with the new annotation, and commits.
Annotate(p) ==
    /\ pc[p] = "annotate"
    /\ lock = NoProc
    /\ rows' = (rows \ Rows(p)) \cup {[r EXCEPT !.review = cmd[p].review] : r \in found[p]}
    /\ image' = rows'
    /\ pc' = [pc EXCEPT ![p] = "idle"]
    /\ UNCHANGED <<observations, lock, started, cmd, read, found, todo, now, new>>

\* sqlite3.OperationalError: the database was locked for five seconds.
LockTimeout(p) ==
    /\ pc[p] \in {"insert", "annotate"}
    /\ ~CanWrite(p)
    /\ Abort(p)

\* The process dies, or an error ends its command.
Interrupt(p) == pc[p] # "idle" /\ Abort(p)

\* Another command commits: an ingest, or a claim.
CaseGrows == /\ lock = NoProc
             /\ started < MaxCommands
             /\ started' = started + 1
             /\ Observe
             /\ UNCHANGED <<rows, image, lock, pc, cmd, read, found, todo, now,
                            new>>

Begin(p) == \/ \E c \in TrackCommands : BeginTrack(p, c)
            \/ \E of \in Kinds, review \in Reviews :
                  \E f \in {r.finding : r \in {x \in rows : x.of = of}} \cup {NoFinding} :
                     BeginAck(p, of, f, review)

Step(p) == \/ ReadEvents(p)
           \/ ReadEvidence(p)
           \/ Analyse(p)
           \/ LookUp(p)
           \/ LeaveTracked(p)
           \/ Miss(p)
           \/ Insert(p)
           \/ InsertRejected(p)
           \/ Commit(p)
           \/ AckUnknown(p)
           \/ AckKnown(p)
           \/ Annotate(p)
           \/ LockTimeout(p)

\* No command is left to start.
Finished == /\ started = MaxCommands
            /\ \A p \in Procs : pc[p] = "idle"
            /\ UNCHANGED vars

Next == \/ \E p \in Procs : Begin(p) \/ Step(p) \/ Interrupt(p)
        \/ CaseGrows
        \/ Finished

Spec == Init /\ [][Next]_vars

-----------------------------------------------------------------------------
IsRow(r) == /\ r = [of |-> r.of, finding |-> r.finding, param |-> r.param,
                    review |-> r.review]
            /\ r.of \in Kinds
            /\ r.param \in Params
            /\ r.review \in Reviews \cup {NoReview}

\* The types of the variables; a process runs the steps of its own command, and
\* only one inside its transaction block holds the lock.
TypeOK ==
    /\ ObservationsOK
    /\ \A r \in rows \cup image : IsRow(r)
    /\ lock \in Procs \cup {NoProc}
    /\ started \in 0 .. MaxCommands
    /\ pc \in [Procs -> {"idle", "events", "evidence", "claims", "track", "create",
                         "insert", "look", "annotate"}]
    /\ cmd \in [Procs -> TrackCommands \cup AckCommands]
    /\ DOMAIN read = Procs /\ DOMAIN found = Procs /\ DOMAIN todo = Procs
    /\ DOMAIN now = Procs /\ DOMAIN new = Procs
    /\ \A p \in Procs :
          /\ pc[p] \in {"look", "annotate"} => cmd[p].do = "ack"
          /\ pc[p] \notin {"idle", "look", "annotate"} => cmd[p].do = "track"
          /\ pc[p] = "annotate" => \A r \in found[p] : IsRow(r)
          /\ lock = p => pc[p] \in {"track", "create", "insert"}

\* A finding has one row at most, and what an analyst wrote about it changes
\* only by another annotation of that finding: re-discovery, by whatever
\* interleaving, "never resets or overwrites" it, no row is lost or doubled and
\* no anchor moves (create_tracked_finding, annotate_tracked_finding).
ReviewKept ==
    [][/\ \A r, s \in rows' : r.of = s.of /\ r.finding = s.finding => r = s
       /\ \A r \in rows : \E s \in rows' :
             /\ [s EXCEPT !.review = r.review] = r
             /\ s # r => \E p \in Procs : /\ pc[p] = "annotate"
                                          /\ cmd[p].of = r.of
                                          /\ now[p] = r.finding
                                          /\ cmd[p].review = s.review]_rows

\* A finding is tracked with all that the same analysis found, or not at all
\* (track_findings: "a failure partway through rolls back every insert").
TrackIsWhole ==
    [][\A r \in rows' : RowsOf(rows, r.of, r.finding) = {} =>
          \E p \in Procs :
             /\ cmd[p].of = r.of
             /\ r.finding \in found[p]
             /\ \A f \in found[p] : RowsOf(rows', r.of, f) # {}]_rows

\* A tracked contradiction "is reproducible by every future analysis run with
\* certainty", whatever the case has learned since (tracked_time_contradiction.py).
ContradictionsStand ==
    \A r \in rows : r.of = "contradictions" => r.finding \in TimeContradictions(claims)

\* is_still_reproduced uses the parameters a finding was first tracked with: a
\* gap that today's analysis reports with any thresholds, and that is tracked
\* with the same refinement, is still reproduced.
ThresholdsNeverMatter ==
    \A r \in rows : r.of = "gaps" =>
        \A param \in Params : /\ param.refined = r.param.refined
                             /\ r.finding \in CaseGaps(param)
                             => r.finding \in CaseGaps(r.param)
=============================================================================

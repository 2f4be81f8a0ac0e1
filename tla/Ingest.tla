------------------------------- MODULE Ingest -------------------------------
(***************************************************************************)
(* The command `witnessgraph ingest': ingest_source (ingest/pipeline.py)   *)
(* over a case's SQLite store (store/sqlite_store.py) and blob store, then *)
(* Case.record_manifest (store/case.py), run by any number of processes on *)
(* one case directory and cut short anywhere.                              *)
(*                                                                         *)
(* SQLite is used as the sqlite3 module does by default: a SELECT outside  *)
(* a transaction sees the committed tables; the first INSERT or UPDATE of  *)
(* a transaction takes the write lock, which it keeps until it commits or  *)
(* rolls back; meanwhile the holder alone sees its own writes, and any     *)
(* other writer waits for five seconds and then raises.                    *)
(*                                                                         *)
(* A blob put is one step here, as BlobStore shows it to be for puts that  *)
(* do not race; one that raises is an Interrupt.                           *)
(***************************************************************************)
EXTENDS SourceRecords, FiniteSets

CONSTANTS
    Procs,          \* processes working on the case
    NoProc,         \* the write lock is free
    NoManifest,     \* manifest.json is missing or cut short
    MaxCommands     \* bound on the number of commands started

ASSUME NoProcAssumption == NoProc \notin Procs
ASSUME MaxCommandsAssumption == MaxCommands \in Nat

VARIABLES
    db,             \* the committed tables of case.db
    image,          \* the tables as the lock holder sees them
    lock,           \* the process whose transaction has written
    blobs,          \* the lines whose bytes the blob store holds
    manifest,       \* what manifest.json records
    started,        \* commands started so far
    pc,             \* pc[p]: what p does next
    cmd,            \* cmd[p]: the source and collected_at of p's command
    at,             \* at[p]: the record p has reached
    seen,           \* seen[p]: the chain of custody put_evidence read
    snap,           \* snap[p]: the tables compute_manifest has read
    committed,      \* history: the commands whose transaction committed
    stale           \* history: a commit since the last manifest was written

vars == <<db, image, lock, blobs, manifest, started, pc, cmd, at, seen, snap,
          committed, stale>>

Commands == [source : Sources, at : Instants]

\* What a SELECT of p sees.
View(p) == IF lock = p THEN image ELSE db

\* p has nothing to wait for to write.
CanWrite(p) == lock \in {NoProc, p}

Exhausted(p) == at[p] > Len(Records[cmd[p].source])
Record(p) == Records[cmd[p].source][at[p]]
Line(p) == Record(p).line
NewCustody(p) == Custody(cmd[p].source, at[p], cmd[p].at)

Init == /\ db = NoRows
        /\ image = NoRows
        /\ lock = NoProc
        /\ blobs = {}
        /\ \E recorded \in BOOLEAN :    \* `init' died before its manifest?
              /\ manifest = IF recorded THEN Ids(NoRows) ELSE NoManifest
              /\ stale = ~recorded
        /\ started = 0
        /\ pc = [p \in Procs |-> "idle"]
        /\ \E c \in Commands : cmd = [p \in Procs |-> c]
        /\ at = [p \in Procs |-> 1]
        /\ seen = [p \in Procs |-> <<>>]
        /\ snap = [p \in Procs |-> Ids(NoRows)]
        /\ committed = {}

-----------------------------------------------------------------------------
\* Variant: a transaction block that fails is left open.
RollbackForgotten(p) == UNCHANGED <<lock, image>>

\* The transaction() block of p ends without a commit.
Rollback(p) == /\ lock' = IF lock = p THEN NoProc ELSE lock
               /\ image' = IF lock = p THEN db ELSE image

\* p's command ends here: an exception leaves it, or p dies.
Abort(p) == /\ Rollback(p)
            /\ pc' = [pc EXCEPT ![p] = "idle"]
            /\ UNCHANGED <<db, blobs, manifest, started, cmd, at, seen, snap,
                           committed, stale>>

\* A command opens the case and the source and enters the transaction block,
\* which begins no SQLite transaction yet.
Begin(p, c) ==
    /\ pc[p] = "idle"
    /\ started < MaxCommands
    /\ started' = started + 1
    /\ pc' = [pc EXCEPT ![p] = "blob"]
    /\ cmd' = [cmd EXCEPT ![p] = c]
    /\ at' = [at EXCEPT ![p] = 1]
    /\ UNCHANGED <<db, image, lock, blobs, manifest, seen, snap, committed, stale>>

\* The adapter raises on the next line.
AdapterRaises(p) ==
    /\ pc[p] = "blob"
    /\ ~Exhausted(p)
    /\ Record(p).reading = "bad"
    /\ Abort(p)

\* Variant: the bytes of a line that yields no event are not kept.
PutEventBlob(p) ==
    /\ pc[p] = "blob"
    /\ ~Exhausted(p)
    /\ Record(p).reading # "bad"
    /\ blobs' = IF Record(p).reading = "raw" THEN blobs ELSE blobs \cup {Line(p)}
    /\ pc' = [pc EXCEPT ![p] = "select"]
    /\ UNCHANGED <<db, image, lock, manifest, started, cmd, at, seen, snap,
                   committed, stale>>

\* case.blobs.put(raw_bytes).
PutBlob(p) ==
    /\ pc[p] = "blob"
    /\ ~Exhausted(p)
    /\ Record(p).reading # "bad"
    /\ blobs' = blobs \cup {Line(p)}
    /\ pc' = [pc EXCEPT ![p] = "select"]
    /\ UNCHANGED <<db, image, lock, manifest, started, cmd, at, seen, snap,
                   committed, stale>>

\* put_evidence: `existing = self.get_evidence(item.id)'.
Select(p) ==
    /\ pc[p] = "select"
    /\ seen' = [seen EXCEPT ![p] = View(p).evidence[Line(p)]]
    /\ pc' = [pc EXCEPT ![p] = "store"]
    /\ UNCHANGED <<db, image, lock, blobs, manifest, started, cmd, at, snap,
                   committed, stale>>

\* Variant: INSERT OR REPLACE, the new source overwrites the known ones.
MergedByReplacing(p) == <<NewCustody(p)>>

\* The chain of custody put_evidence leaves: what was read, and the new record
\* unless it was there.
Merged(p) == IF NewCustody(p) \in Range(seen[p]) THEN View(p).evidence[Line(p)]
             ELSE Append(seen[p], NewCustody(p))

\* put_evidence, put_normalized_event and put_time_assertion of one record.
Stored(p) ==
    [evidence |-> [View(p).evidence EXCEPT ![Line(p)] = Merged(p)],
     events |-> View(p).events \cup EventsOf(Record(p)),
     assertions |-> View(p).assertions \cup AssertionsOf(Record(p))]

\* The three calls execute an INSERT or UPDATE (put_time_assertion always does).
Writes(p) == \/ NewCustody(p) \notin Range(seen[p])
             \/ ~(EventsOf(Record(p)) \subseteq View(p).events)
             \/ AssertionsOf(Record(p)) # {}

\* put_evidence INSERTs a row that has appeared since it looked.
Collides(p) == seen[p] = <<>> /\ HasEvidence(View(p), Line(p))

Advance(p) == /\ pc' = [pc EXCEPT ![p] = "blob"]
              /\ at' = [at EXCEPT ![p] = @ + 1]

\* Variant: each put_*() commits by itself.
StoreRecordAlone(p) ==
    /\ pc[p] = "store"
    /\ Writes(p)
    /\ CanWrite(p)
    /\ ~Collides(p)
    /\ lock' = NoProc
    /\ image' = Stored(p)
    /\ db' = Stored(p)
    /\ Advance(p)
    /\ UNCHANGED <<blobs, manifest, started, cmd, seen, snap, committed, stale>>

\* The record is written; the first write of a transaction takes the lock.
StoreRecord(p) ==
    /\ pc[p] = "store"
    /\ Writes(p)
    /\ CanWrite(p)
    /\ ~Collides(p)
    /\ lock' = p
    /\ image' = Stored(p)
    /\ Advance(p)
    /\ UNCHANGED <<db, blobs, manifest, started, cmd, seen, snap, committed, stale>>

\* The record, its event and its assertion are all there already.
SkipRecord(p) ==
    /\ pc[p] = "store"
    /\ ~Writes(p)
    /\ Advance(p)
    /\ UNCHANGED <<db, image, lock, blobs, manifest, started, cmd, seen, snap,
                   committed, stale>>

\* sqlite3.IntegrityError leaves the transaction block.
RejectRecord(p) ==
    /\ pc[p] = "store"
    /\ Writes(p)
    /\ CanWrite(p)
    /\ Collides(p)
    /\ Abort(p)

\* sqlite3.OperationalError: the database was locked for five seconds.
LockTimeout(p) ==
    /\ pc[p] = "store"
    /\ Writes(p)
    /\ ~CanWrite(p)
    /\ Abort(p)

\* The transaction block ends, and ingest_source with it.
Commit(p) ==
    /\ pc[p] = "blob"
    /\ Exhausted(p)
    /\ db' = View(p)
    /\ lock' = IF lock = p THEN NoProc ELSE lock
    /\ pc' = [pc EXCEPT ![p] = "evidence"]
    /\ committed' = committed \cup {cmd[p]}
    /\ stale' = TRUE
    /\ UNCHANGED <<image, blobs, manifest, started, cmd, at, seen, snap>>

\* Variant: compute_manifest leaves out the time assertions.
AfterReadingLess == [evidence |-> "events", events |-> "truncate",
                     assertions |-> "truncate"]

\* The order in which compute_manifest lists the tables, and what follows.
AfterReading == [evidence |-> "events", events |-> "assertions",
                 assertions |-> "truncate"]

\* Variant: the tables are read with other processes' uncommitted writes.
ReadTableDirty(p) ==
    /\ pc[p] \in DOMAIN AfterReading
    /\ snap' = [snap EXCEPT ![p][pc[p]] = Ids(image)[pc[p]]]
    /\ pc' = [pc EXCEPT ![p] = AfterReading[pc[p]]]
    /\ UNCHANGED <<db, image, lock, blobs, manifest, started, cmd, at, seen,
                   committed, stale>>

\* compute_manifest: one list_*() call, each a statement of its own.
ReadTable(p) ==
    /\ pc[p] \in DOMAIN AfterReading
    /\ snap' = [snap EXCEPT ![p][pc[p]] = Ids(db)[pc[p]]]
    /\ pc' = [pc EXCEPT ![p] = AfterReading[pc[p]]]
    /\ UNCHANGED <<db, image, lock, blobs, manifest, started, cmd, at, seen,
                   committed, stale>>

\* record_manifest: write_text opens manifest.json for writing, ...
TruncateManifest(p) ==
    /\ pc[p] = "truncate"
    /\ manifest' = NoManifest
    /\ pc' = [pc EXCEPT ![p] = "record"]
    /\ UNCHANGED <<db, image, lock, blobs, started, cmd, at, seen, snap,
                   committed, stale>>

\* ... and writes the text, whose length is that of any other manifest.
WriteManifest(p) ==
    /\ pc[p] = "record"
    /\ manifest' = snap[p]
    /\ stale' = FALSE
    /\ pc' = [pc EXCEPT ![p] = "idle"]
    /\ UNCHANGED <<db, image, lock, blobs, started, cmd, at, seen, snap, committed>>

\* The process dies, or an I/O error ends its command.
Interrupt(p) == pc[p] # "idle" /\ Abort(p)

Step(p) == \/ AdapterRaises(p)
           \/ PutBlob(p)
           \/ Select(p)
           \/ StoreRecord(p)
           \/ SkipRecord(p)
           \/ RejectRecord(p)
           \/ LockTimeout(p)
           \/ Commit(p)
           \/ ReadTable(p)
           \/ TruncateManifest(p)
           \/ WriteManifest(p)

\* No command is left to start.
Finished == /\ started = MaxCommands
            /\ \A p \in Procs : pc[p] = "idle"
            /\ UNCHANGED vars

Next == \/ \E p \in Procs : \/ \E c \in Commands : Begin(p, c)
                            \/ Step(p)
                            \/ Interrupt(p)
        \/ Finished

Spec == Init /\ [][Next]_vars

\* A process that is not killed keeps running its command.
FairSpec == Spec /\ \A p \in Procs : WF_vars(Step(p))

-----------------------------------------------------------------------------
\* The types of the variables; a process that works on a record has one, and
\* only a process inside its transaction block holds the lock.
TypeOK ==
    /\ db \in Tables
    /\ image \in Tables
    /\ lock \in Procs \cup {NoProc}
    /\ blobs \in SUBSET Lines
    /\ manifest \in Manifests \cup {NoManifest}
    /\ started \in 0 .. MaxCommands
    /\ pc \in [Procs -> {"idle", "blob", "select", "store", "evidence", "events",
                         "assertions", "truncate", "record"}]
    /\ cmd \in [Procs -> Commands]
    /\ at \in [Procs -> Nat \ {0}]
    /\ seen \in [Procs -> Seq(CustodyRecords)]
    /\ snap \in [Procs -> Manifests]
    /\ committed \in SUBSET Commands
    /\ stale \in BOOLEAN
    /\ \A p \in Procs : pc[p] \in {"select", "store"} => ~Exhausted(p)
    /\ \A p \in Procs : lock = p => pc[p] \in {"blob", "select", "store"}

\* Every evidence row, committed or about to be, has its blob, wherever a
\* command was cut short: blobs go first (pipeline.py, "Blob-write ordering").
EvidenceHasBlob ==
    \A l \in Lines : HasEvidence(db, l) \/ HasEvidence(image, l) => l \in blobs

\* Record c of the chain of custody of line l is of that line, and what its
\* source record says of it is in the tables.
Backed(tables, l, c) ==
    LET rec == Records[c[1]][c[2]]
    IN /\ rec.line = l
       /\ EventsOf(rec) \subseteq tables.events
       /\ AssertionsOf(rec) \subseteq tables.assertions

\* Whatever the chain of custody tells was ingested is there with everything
\* that was derived from it: no commit holds a part of a record.
CustodyHasDerived ==
    \A l \in Lines : \A c \in Range(db.evidence[l]) : Backed(db, l, c)

\* An evidence row has what it stands on and what stands on it.
EvidenceComplete == EvidenceHasBlob /\ CustodyHasDerived

\* A command that committed stays in the chain of custody of each of its lines
\* (put_evidence: only genuinely new custody records are appended, none lost).
CustodyRetained ==
    \A c \in committed : \A i \in DOMAIN Records[c.source] :
        Custody(c.source, i, c.at) \in Range(db.evidence[Records[c.source][i].line])

\* `after' has every row of `before', and the same first custody records.
Keeps(before, after) ==
    /\ \A l \in Lines : HasEvidence(before, l) =>
          /\ HasEvidence(after, l)
          /\ Head(after.evidence[l]) = Head(before.evidence[l])
    /\ before.events \subseteq after.events
    /\ before.assertions \subseteq after.assertions

\* The first-known source of a line is never overwritten, no row is ever
\* deleted, whoever ingests at the same time (put_evidence's docstring).
FirstSourceKept == [][Keeps(db, db')]_db

\* Every object of the one manifest is in the other.
Within(m, n) == /\ m.evidence \subseteq n.evidence
                /\ m.events \subseteq n.events
                /\ m.assertions \subseteq n.assertions

\* manifest.json never vouches for an object that is not committed, however
\* the reads of one process interleave with the commits of another.
ManifestNotAhead ==
    manifest # NoManifest => Within(manifest, Ids(db))

\* With no command running, the manifest is that of the case, unless a command
\* was cut short between its commit and the end of record_manifest; the next
\* command that ends mends it.
ManifestCurrent ==
    ~stale /\ (\A p \in Procs : pc[p] = "idle") => manifest = Ids(db)

\* One process at a time, ingest_source implements AtomicIngest: its rows
\* appear all at once and in the order of the source, or not at all.
Atomic == INSTANCE AtomicIngest
IngestIsAtomic == Atomic!Spec

\* The write lock is released again and again: no order of the processes, of
\* their failures and of their waits leaves the case locked.
LockReleased == []<>(lock = NoProc)
=============================================================================

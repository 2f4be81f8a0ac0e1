------------------------------ MODULE LiveCase ------------------------------
(***************************************************************************)
(* A case directory that is worked on while others read it: one command    *)
(* after another puts the bytes of its evidence into the blob store        *)
(* (store/sqlite_store.py), commits its rows in one transaction and        *)
(* records the manifest (store/case.py), and may be cut short anywhere.    *)
(*                                                                         *)
(* Modules Ingest and Casework have those commands statement by statement  *)
(* and side by side; this one keeps what somebody who takes no lock can    *)
(* see of them: the files of the case at every moment. SQLite keeps what a *)
(* page of case.db was in a journal, a file next to it, from the first     *)
(* statement that writes until the commit deletes it; in between it writes *)
(* the pages themselves (when the transaction commits or its cache is      *)
(* full), for which it locks readers of the tables out, but nobody who     *)
(* reads the file.                                                         *)
(***************************************************************************)
EXTENDS SequencesExt, FiniteSetsExt

CONSTANTS
    KindOf,         \* KindOf[o]: the kind of o, one of what may be stored
    Cites,          \* Cites[o]: the ids that o refers to
    RowOf,          \* RowOf[o]: o, or what was first in the row that o replaces
    Bytes,          \* Bytes[e]: the content of evidence e
    Batches,        \* what one command may commit
    Present,        \* what is stored at first
    MaxBatches,     \* bound on the number of writing commands
    MaxReaders      \* bound on the number of commands that read

Objects == DOMAIN KindOf
OfKind(kind, of) == {o \in of : KindOf[o] = kind}
CoveredKinds == {"evidence", "event", "entity", "relationship", "assertion", "hypothesis"}

\* `hypothesis support' and `contradict', `ack': what stays under its id and changes.
RevisedKinds == {"hypothesis", "finding", "contradiction"}

\* compute_manifest hashes these: entities and hypotheses as they are stored, of
\* evidence the bytes, and of the others the ids, which are hashes of content.
Covered(of) == {o \in of : KindOf[o] \in CoveredKinds}
Contents(of) == {Bytes[e] : e \in OfKind("evidence", of)}

ASSUME ObjectsAssumption ==
    /\ Cites \in [Objects -> SUBSET Objects]
    /\ DOMAIN Bytes = OfKind("evidence", Objects)
    /\ Batches \subseteq SUBSET Objects
    /\ Present \subseteq Objects
    /\ \A o \in Present : Cites[o] \subseteq Present
    /\ RowOf \in [Objects -> Objects]
    /\ \A o \in Objects : RowOf[o] # o => KindOf[o] \in RevisedKinds
    /\ \A o \in Objects : KindOf[RowOf[o]] = KindOf[o]
    /\ \A o \in Objects : \A p \in Cites[o] : KindOf[p] \notin RevisedKinds
    /\ \A b \in Batches \cup {Present} : \A o, p \in b : RowOf[o] = RowOf[p] => o = p

NoManifest == [state |-> "none", covers |-> {}]
CutShort == [state |-> "cut short", covers |-> {}]
Recorded(of) == [state |-> "whole", covers |-> Covered(of)]

VARIABLES
    rows,           \* the committed rows of case.db
    pages,          \* its file: "whole"; "journaled", there is a journal beside
                    \*   it; "torn", it has pages of a transaction not committed
    blobs,          \* the contents under blobs/
    staged,         \* the contents in a staging file <digest>.tmp
    manifest,       \* manifest.json
    writing,        \* what the writing command does next
    batch,          \* what it commits
    computed,       \* the rows its compute_manifest has read
    batches,        \* writing commands begun so far
    readers         \* commands begun so far that export, import or report

live == <<rows, pages, blobs, staged, manifest, writing, batch, computed, batches>>

InitLive ==
    /\ rows = Present
    /\ pages = "whole"
    /\ blobs = Contents(Present)
    /\ staged = {}
    /\ manifest \in {NoManifest, Recorded(Present)}
    /\ writing = "idle"
    /\ batch = {}
    /\ computed = {}
    /\ batches = 0
    /\ readers = 0

\* What INSERT OR REPLACE leaves of rows when some are put.
Replaced(some) == {o \in rows : RowOf[o] \notin {RowOf[p] : p \in some}}

\* A journal that no command is using is hot: its command was killed.
Hot == writing = "idle" /\ pages # "whole"

\* A SELECT, and opening the case, which reads its schema, wait for a lock
\* that no writer of pages leaves them, and roll back a hot journal first ...
Readable == ~Hot /\ pages # "torn"

\* ... as the first statement of whoever comes does.
RollBackHot ==
    /\ Hot
    /\ pages' = "whole"
    /\ UNCHANGED <<rows, blobs, staged, manifest, writing, batch, computed, batches>>

\* Somebody runs a command that adds b, all of whose citations will be there;
\* what it revises is.
BeginBatch ==
    /\ writing = "idle"
    /\ Readable
    /\ batches < MaxBatches
    /\ \E b \in Batches :
          /\ b \cap rows = {}
          /\ \A o \in b : Cites[o] \subseteq rows \cup b
          /\ \A o \in b : RowOf[o] # o <=> \E p \in rows : RowOf[p] = RowOf[o]
          /\ batch' = b
    /\ batches' = batches + 1
    /\ writing' = "put"
    /\ UNCHANGED <<rows, pages, blobs, staged, manifest, computed>>

\* FileBlobStore.put: the bytes go to a staging file, which is then renamed.
Stage ==
    /\ writing = "put"
    /\ \E c \in Contents(batch) \ (blobs \cup staged) : staged' = staged \cup {c}
    /\ UNCHANGED <<rows, pages, blobs, manifest, writing, batch, computed, batches>>

Publish ==
    /\ writing = "put"
    /\ \E c \in staged \cap Contents(batch) : /\ staged' = staged \ {c}
                                              /\ blobs' = blobs \cup {c}
    /\ UNCHANGED <<rows, pages, manifest, writing, batch, computed, batches>>

\* The first statement that writes begins the transaction, and the journal; of
\* what has bytes, those of one are stored by then.
Insert ==
    /\ writing = "put"
    /\ pages = "whole"
    /\ Contents(batch) = {} \/ Contents(batch) \cap blobs # {}
    /\ pages' = "journaled"
    /\ UNCHANGED <<rows, blobs, staged, manifest, writing, batch, computed, batches>>

\* The cache is full, or the commit has begun: the pages are written.
WritePages ==
    /\ writing = "put"
    /\ pages = "journaled"
    /\ pages' = "torn"
    /\ UNCHANGED <<rows, blobs, staged, manifest, writing, batch, computed, batches>>

\* Variant: the rows are committed before the bytes are stored.
CommitBeforePut ==
    /\ writing = "put"
    /\ rows' = Replaced(batch) \cup batch
    /\ pages' = "whole"
    /\ writing' = "compute"
    /\ UNCHANGED <<blobs, staged, manifest, batch, computed, batches>>

\* The transaction commits, every blob of it stored: the journal is deleted. A
\* command that tracks or acknowledges findings, which are not hashed, records
\* no manifest.
CommitBatch ==
    /\ writing = "put"
    /\ pages = "torn"
    /\ Contents(batch) \subseteq blobs
    /\ rows' = Replaced(batch) \cup batch
    /\ pages' = "whole"
    /\ writing' = IF Covered(batch) = {} THEN "idle" ELSE "compute"
    /\ UNCHANGED <<blobs, staged, manifest, batch, computed, batches>>

\* record_manifest: compute, and replace the text of manifest.json.
Compute ==
    /\ writing = "compute"
    /\ computed' = rows
    /\ writing' = "truncate"
    /\ UNCHANGED <<rows, pages, blobs, staged, manifest, batch, batches>>

Truncate ==
    /\ writing = "truncate"
    /\ manifest' = CutShort
    /\ writing' = "write"
    /\ UNCHANGED <<rows, pages, blobs, staged, batch, computed, batches>>

Write ==
    /\ writing = "write"
    /\ manifest' = Recorded(computed)
    /\ writing' = "idle"
    /\ UNCHANGED <<rows, pages, blobs, staged, batch, computed, batches>>

\* The command is cut short, by an exception, which rolls back, or killed; a
\* staging file stays where it is.
StopWriting ==
    /\ writing # "idle"
    /\ writing' = "idle"
    /\ pages' \in {"whole", pages}
    /\ UNCHANGED <<rows, blobs, staged, manifest, batch, computed, batches>>

WriterStep ==
    /\ \/ BeginBatch \/ Stage \/ Publish \/ Insert \/ WritePages \/ CommitBatch
       \/ Compute \/ Truncate \/ Write \/ StopWriting \/ RollBackHot
    /\ UNCHANGED readers

\* A command that reads opens the case.
BeginReader == Readable /\ readers < MaxReaders /\ readers' = readers + 1
=============================================================================

# Witnessgraph in TLA+

Witnessgraph keeps the evidence of an investigation in a *case*: a directory with one SQLite
file, a store of immutable blobs and a manifest of hashes. Command-line tools, a small HTTP
service and a web page read source files into a case, let analysts add entities, relationships,
time assertions and hypotheses, correlate what is there, and carry cases from one machine to
another. Several of these may work on one case at a time, as operating-system processes with no
coordination but SQLite's write lock and the file system; each may be killed at any point. These
modules model that: the protocols by which a case changes and is copied, the analyses that read
it, the page that shows it, and what each promises.

Every definition is translated from the source under `src/`; `PROJECT.json` maps each one to its
lines. Paths below are relative to `src/src/witnessgraph/`, those of the frontend to
`src/frontend/src/`.

## 1. The system

| Part | State | Operations | Modules |
|---|---|---|---|
| Blob store (`store/sqlite_store.py`, FileBlobStore) | files named by digest, one staging file per digest | `put`, `get`, `has` | BlobStore, WriteOnce |
| Metadata store (SqliteStore) | eight tables of (id, JSON), one write lock | `transaction`, `put_*`, `get_*`, `list_*` | Ingest, Tracking, Casework, PackageExchange |
| Source adapters (`ingest/adapters/`) | none | `ingest(file)`: a stream of records | Adapters, SourceRecords |
| Ingest (`ingest/pipeline.py`) | a transaction | `ingest_source` | Ingest, AtomicIngest |
| Case and manifest (`store/case.py`, `core/provenance.py`, `replay/`) | `manifest.json` | `create`, `record_manifest`, `verify`, `replay` | Ingest, Casework, LiveCase |
| Analysts' commands (`cli/main.py`, `core/hypothesis.py`, ...) | rows of five tables | `entities create`, `relationships create`, `time-assertions create`, `hypothesis propose / support / contradict` | Casework |
| Contradictions (`correlate/contradictions.py`) | none | `detect_time_contradictions` | Contradictions |
| Coverage gaps (`correlate/gaps.py`) | none | `find_gaps` | Gaps |
| Tracked findings (`correlate/tracking.py`, `contradiction_tracking.py`) | two tables | `--track`, `ack` | Tracking |
| Entity graph (`correlate/graph.py`) | none | `neighbors`, `path`, `paths`, `components`, evidence overlap | Relations, BreadthFirst, GraphQueries, GraphParts, GraphViews |
| Case packages (`casepkg/`) | a package file | `init`, `import`, `export`, validation | CasePackage, PackageExchange |
| Portable cases (`portable.py`) | a zip file, a destination directory | `export`, `import` | LiveCase, Portable |
| Report, timeline, overview (`report/`, `correlate/timeline.py`, `overview.py`) | an output file | `report`, `timeline`, overview | LiveCase, Report |
| Service and API (`service/`, `api/`) | none: each request opens and closes the case | the requests of the page | Api |
| Frontend (`src/frontend/`) | view, selection, overlay, focus, query cache, calls under way | clicks, fetches, mutations | QueryClient, AppShell, Explorer, Reviewing, Workbench |
| Benchmark and studies (`src/research/`) | none | fixtures around the library | not modelled |

How they interact. `ingest` drives an adapter record by record; for each it puts the blob first
and then writes evidence, event and time assertion inside one database transaction; after the
commit it records the manifest. The analysts' commands look up the ids they are given, one
statement each, write one row, and record the manifest. The analyses read some tables, one
statement each, and compute; with `--track` they write what they found, in one transaction. `verify`
reads everything again and compares with the manifest. A package import resolves a whole file in
memory, creates a case, and writes blobs and rows in one transaction; a package export reads the
tables one by one. `export` copies the files of a case under no lock, the database among them, which
it reads as a file; `import` extracts them one by one. The page fetches lists through the API, keeps them in a cache, and sends writes whose answers
tell it to fetch again. All of it meets in `case.db` (shared tables, one writer at a time), in the
blob directory and in `manifest.json` (no lock at all).

What is hard about it:

* *No transaction spans the read and the write of anything.* Python's `sqlite3` begins a
  transaction at the first INSERT or UPDATE. Each SELECT before that sees what is committed then,
  so every check-then-write is a race (`put_evidence`, `create_tracked_finding`, `annotate_*`,
  `support` and `contradict`, all look-ups).
* *Three stores, one commit.* Blobs, tables and manifest are written one after another; a crash
  between any two must leave a case that later commands set right.
* *A shared staging file.* Puts of the same bytes write the same `<digest>.tmp`.
* *Readers of a moving case.* `compute_manifest`, `find_gaps`, `find_all_shortest_paths`, both
  exports, the report and the timeline read in several statements and may see several states.
* *A database that is copied as a file.* SQLite keeps its own readers away from pages that are being
  written, and rolls back what a killed writer left; whoever copies `case.db` gets neither.
* *Names that become hashes.* A package cites by local ids, a case by content hashes; an export must
  give back a package that resolves to the same ids.
* *Intervals.* Claims of different precision overlap, touch and nest; an off-by-one in `find_gaps`
  reports covered time as a silence.
* *Search with bounds.* Depth and result limits in the graph, where cycles and ties abound.
* *Answers in another order.* The page has several fetches and calls under way, and components that
  come and go before their answers do.

What makes each part correct, in a sentence: a visible blob is whole and never changes; a row
never lacks its blob; an ingest is all or nothing and loses no custody record; the manifest never
vouches for what is not there and is current once a command has run by itself; a reference
resolves; a row once written stays; a review survives re-discovery; a reported gap is a silence of
the case, and every silence is reported; a reported path is a path, and the shortest; a package is
accepted exactly if it is well formed, and enters a case whole; an archive holds what its database
needs; a reader who is told MATCH is shown all that the manifest covers; the page highlights the last result and
settles on what the case holds.

## 2. Modules

Definitions keep the names of the source. Where a module contains `\* Variant:` definitions, they
are plausible bugs: no specification uses them, each is the subject of a mutant in
`PROJECT.json`, which shows that the property it names is able to fail.

### The store and the commands that write

**BlobStore** is `FileBlobStore.put`, one action per file-system call: `Check` (exists), `Open`
(O_TRUNC on the one staging name), `Write` (a chunk), `Close`, `Replace` (rename), `ReplaceFails`
(the staging file is gone), `Crash`; `PutStored` is the early return. Files are inodes, so that a
writer goes on writing to a file whose name has moved. **WriteOnce** is what it promises; `StoredOnce`
is the refinement, by the mapping `BlobView`.

**SourceRecords** says what a record of a source is to the store: the line, the schema its
event gets, and its reading (`raw`: no event; `plain`: an event without a time; `stamped`; `bad`:
the adapter raises). **Adapters** derives these from what a line is to the JSONL, syslog and CSV
adapters.

**Ingest** is the command, by any number of processes: `Begin`; per record `PutBlob`, `Select`
(the read of `put_evidence`), then `StoreRecord`, `SkipRecord` or `RejectRecord`; `AdapterRaises`;
`LockTimeout`; `Commit`; `ReadTable` for each statement of `compute_manifest`; `TruncateManifest` and
`WriteManifest`; `Interrupt` anywhere. `db` is what is committed, `image` what the holder of the
write lock sees. A blob put is one step here, as BlobStore shows it to be for puts that do not race.
**AtomicIngest** is the promise: a source enters in one step, in its order, or not at all.

**Casework** is what analysts do, by any number of processes: `Begin`; `GetHypothesis` or
`NoSuchHypothesis`; `LookUp` per cited id, or `Unknown`; `Invalid`; `Put`, whose `Write` has one
disjunct per command; `ReadTable`, `TruncateManifest` and `WriteManifest` as above; `Compare` ends a
`verify` or `replay`. Its ingest adds rows in one step: module Ingest has the rest. An insert
and its commit are one step, since nobody else sees what is between them and a lock timeout there
is an `Interrupt`.

### The analyses

**Observations** is the part of a case that the analyses read, and how it grows. **Contradictions**
is `detect_time_contradictions`; **Gaps** is `find_gaps` (grouping by source and attribute, running
end, corroboration, thresholds) and, for comparison, a definition of silence that knows nothing of
sorting or running ends; **Orders** is what `sorted()` makes of a set, for it and for the timeline.
**Tracking** is `gaps --track`, `contradictions --track` and the two `ack`
commands, by any number of processes, on a case that grows: `BeginTrack`, `ReadEvents`,
`ReadEvidence`, `Analyse`, then per finding `LookUp`, `LeaveTracked` or `Miss`, `Insert` or
`InsertRejected`, and `Commit`; `BeginAck`, `AckUnknown` or `AckKnown`, `Annotate`; `LockTimeout`,
`Interrupt`.

**Relations** is the graph and the steps a traversal can take in it, with the reference
definitions of walk and distance. **BreadthFirst** is the search loop (`Expand`, `Skip`, `Discover`,
`Deepen`). **GraphQueries** is `find_neighbors`, `find_path` and `find_all_shortest_paths` as one
process: the search forth, the trace back along the predecessors, or the second search from the
target, the pruning by both distances and the depth-first enumeration with its limit (`Descend`,
`Arrive`, `Retreat`), while others claim relationships. **GraphParts** is `find_components`;
**GraphViews** adds `analyze_paths_evidence_overlap` with the resolution of evidence through events,
and what both are compared with.

### Packages, archives, reports

**CasePackage** is a package: the sequence of its declarations, what each becomes (`Object`, whose
`Identity` keeps what is hashed), what the rows of a case are when merged (`Merged`), and what
`export_case_package` declares. `WellFormed` and `Everything` say what a package means, whatever the
order in which it is resolved; `Acceptable` has the limit of 50 MB for an evidence item
(`MaxContent`), which an import checks and neither an ingest nor an export. **PackageExchange** is the commands, by any number of processes on
shared directories and files: `Load`, which opens a file (`Opens`: the member of an archive is at most 200 MB,
`MaxMember`, which nobody checks who writes one; a plain JSON file has no such limit); `Refuse`, `Unresolved` or `Resolve` per declaration;
`Reject`, or `Accept` and `Create` (the check of emptiness and the creation are apart);
`PutEvidence` per blob and row, `Commit`, `RecordManifest`; for an export `ReadTable` per table,
`OpenFile`, `WriteFile`; `Interrupt` anywhere.

**LiveCase** is one case as those see it who take no lock: a writing command stages and publishes
blobs, begins a transaction (`Insert`: there is a journal beside `case.db` from now on), writes pages of the
file (`WritePages`: the commit, or the cache is full), commits (`CommitBatch`, which deletes the journal), truncates and
writes the manifest, and may stop anywhere. An exception rolls back; a process that is killed leaves the journal and
what pages it wrote, which the next statement of anybody rolls back (`RollBackHot`) before it reads (`Readable`).
A committed batch adds objects and replaces rows: `RowOf` says whose row an object takes, as a hypothesis that was
supported or contradicted and a review that was acknowledged do under their ids (`Replaced`). The manifest covers
objects, so that a hypothesis before a change and after it are two things to it, as the hash of their contents is.
Evidence that gets another record in its chain of custody stays the same here: the manifest hashes its bytes.

**Portable** is `export` (`Sign`, `ListFiles`, `CopyFile` or `SkipFile`, `FinishExport`) and `import` (`CreateFile`,
`FillFile`, `OpenImported`), which die or raise anywhere. The database is read from `OpenDatabase` to
`CopyDatabase`; if it has pages of an open transaction at the first or gets some before the last, the copy is `mixed`, and
what rows one may make of it is anything that `MixedReads` lists; so is a copy whose journal comes from a later
transaction than its pages. **Report** is the commands that only read: each is a
sequence of SELECTs (`Reads`), of which a report adds those that look for every tracked gap afresh; `Outdated` is what a
commit by somebody else does to a document that is being put together. **Readers** composes the three. Some
state is not in the files and says what the properties talk about: `unmoved`, `signed` and `mixed` of an archive, `origin`
and `imported` of a directory, `before` and `revised` of a report, `torn` of a package export. Of these `mixed`, and `unmoved` for a
journal, also say what may be made of a copied database; no other decides what happens.

### The page

**Api** is the server as the page sees it: one step per request. **QueryClient** is one entry of
the query cache. **AppShell** is `App.tsx`: which view is shown, which queries are in use (`Active`),
what a rendering begins to fetch and which components it mounts anew (`Render`), fetches and calls
with their failures. **Explorer** is the graph view (`GraphPanel`, `PathExplorer`, `ComponentsPanel`,
`CytoscapeGraph`); **Reviewing** is the gaps and findings views; **Workbench** composes both on one
cache. Three pieces of state are not in the code and say what the properties talk about: `owned` (the overlay
was set by the search on the screen), `mine` (the component that made a call is still mounted), and
`missed` (an invalidation that a fetch under way may not honour). That react-query also fetches when a
connection is back is not modelled. The page draws the entities of a path from its steps; the
model from the ends of the path's relationships, which are those of the steps, so that `DrawnClosed` says nothing more of that drawing.

Composition is by EXTENDS: BlobStore enters Ingest by its result, Ingest enters Casework, Observations,
LiveCase and PackageExchange likewise; Observations into Gaps and Contradictions, those into Tracking;
Relations into BreadthFirst, GraphQueries, GraphParts and GraphViews, and GraphParts into Api.

## 3. Runs

| Run | Question | Bounds |
|---|---|---|
| `blobstore` | Is a visible blob whole, for good? | 3 writers, 2 digests, 2 chunks, 4 inodes per digest, 1 crash |
| `ingest` | Is an ingest atomic, and the manifest current? | 1 process, 3 sources, 3 commands |
| `ingest_pair` | What survives two ingests at once? | 2 processes, 2 overlapping sources, 3 commands |
| `custody_lost` (violation) | Does every committed ingest stay in the chain of custody? | the same |
| `casework` | Do references resolve, rows stay, manifests come right? | 2 processes, 3 commands, a case of 1 line, 1 event, 2 entities, 1 hypothesis |
| `gaps` | Is `find_gaps` exact? | every case that 5 lines, 2 sources and 8 claims can make, 3 parameter sets |
| `tracking` | Do reviews survive, is tracking all or nothing? | 2 processes, 4 commands, 4 lines, 6 claims |
| `graph` | Are the answers about the graph exact? | 4 entities, 7 possible relationships, every case with 4 or more, 1 claimed meanwhile, depths 1 to 3, limits 1 and 2 |
| `packages` | Is what is accepted well formed, what is imported whole and closed, what is exported the same? | 2 processes, 2 commands, 3 directories, a plain file and an archive, every package of at most 4 of the declarations listed and one of 5, at most 4 accepted, one content too large for an item, text of at most 5 units in an archive |
| `readers` | What may somebody see of a case who takes no lock? | 2 writing and 2 reading commands, a case of 1 line and 1 hypothesis, 5 batches, 5 members |
| `explorer` | Does the graph view show what was answered last? | 3 entities, 4 relationships, 1 claim elsewhere, 2 calls under way |
| `reviewing` | Does the findings view settle on the case? | 1 gap, 1 status, 2 calls under way |

What each passing run checks.

* `blobstore`: `UncontendedSound` (a visible blob is whole unless two puts raced for it),
  `SettledIntact` (without a crash, races settle), `StoredOnce` (the refinement).
* `ingest`: `ManifestCurrent` (once a lone command has ended, the manifest is that of the tables),
  `IngestIsAtomic` (the refinement). `ingest_pair`: `EvidenceComplete` (no row without its blob, no custody
  record without the event and assertion written with it), `ManifestNotAhead`, `FirstSourceKept`,
  `LockReleased`.
* `casework`: `ReferencesResolve`, `RowsKept`, `ChangesKept` (a change of a hypothesis is lost only to an
  overlapping one), `ManifestCurrent`, `IntactCaseMatches` (`verify` agrees with an intact case).
* `gaps`: `FindingsExact`. `tracking`: `ReviewKept` (a finding has one row, and only an
  annotation changes it, in its review alone), `TrackIsWhole`, `ContradictionsStand` (a
  contradiction stays one as the case grows, so that a search that takes neighbours only is caught; one that always missed some pair would not be), `ThresholdsNeverMatter`.
* `graph`: `SearchExact` (what one search discovers), `NeighborsExact`, `ShortestExact`, `ChainsHold`
  (whatever is claimed between its reads), `ComponentsExact`, `OverlapExact`, `EveryQueryAnswered`.
* `packages`: `ResolutionExact` (one pass accepts exactly the well-formed packages and makes of them
  what they mean), `CasesClosed` (no committed row cites what is not there or lacks its bytes),
  `ImportIsWhole` (tables change by one whole package at a time), `IdsSurvive` (an export declares
  the rows of the case with their ids and can be imported, unless an event derives from a later
  id, an id is that of two rows, an evidence item is too large, there are too many rows, or too much text for
  an archive).
* `readers`: `ArchiveWhole` and `ImportsHold` (what an archive lacks only a commit meanwhile explains, or a
  database with pages of two states, and an import adds no loss of its own, even cut short),
  `MatchIsDisplayed` (a report that says MATCH displays all that the manifest covers, and as it covers it, but for
  hypotheses changed since the report began), `ClaimsAccounted` (a timeline drops no claim it read; an analysis drops none that was
  there when it was asked).
* `explorer`: `OverlayMatchesResult`, `DrawnClosed` (Cytoscape is never given an edge without its ends,
  except when the two lists were read on either side of a claim). `reviewing`: `SettledFresh`.

Why the bounds are enough. Races here are between two processes: one reads, the other writes. A third
writer is in `blobstore`, where the file of one writer can be truncated by a second and
renamed by a third. Three commands suffice for "done before, two at once" and for "cut
short, then mended by a later one"; `tracking` takes a fourth, to track, annotate, track again and
annotate at once. Two chunks tell cut from whole. The sources of `ingest` repeat a line within one
file, share a line between files under two schemas, contain a blank and an undecodable line, and break. The
claims of `gaps` contain a wide one that reaches past its successor, claims that touch, that nest and
that coincide, lines with and without the attribute and with no source or an ambiguous one. The graph
has parallel edges, ties of two lengths, a cycle and a direct edge; its evidence an event that
derives from an event and from itself, and an id that names nothing. The declarations of `packages`
are in and out of order, cite what is of another kind, take a taken or a blank id, declare one
line twice, one that cannot be decoded and one that is too large, and relate an entity to itself; one case holds an item that is
too large and another makes a text that is too large for an archive but not for a plain file; two commands at once are an import beside an import or an export, or
an export and the import of what it wrote. In `readers` the batches ingest a line, claim another
time, add an entity, support the hypothesis and track a finding; an archive may have 5 members, so that one with blobs, staging
file, database, journal and manifest is just accepted. In `explorer` the claim turns "no chain" into
two; two calls under way are two searches whose answers may cross.

Bounds in the modules: `MaxCrashes`, `MaxCommands`, `MaxClaims`, `MaxBatches`, `MaxReaders`, `MaxCalls`,
and, in the page, `Views` (which tabs are visited), `Origins` (whose neighbourhood is looked at), `Tabs`
and `Edges` (what can be opened and selected), `Unreliable` (which fetches may fail) and `Forgotten` (which
unused lists the cache may drop); each is a guard of an action, and none appears in a property.
`MaxDeclared`, `MaxContent`, `MaxMember`, `MaxMembers`, `WarnAbove` and `MaxDepth` are limits of the code itself, smaller. Neighbourhoods
in the page are one hop deep and path queries follow the arrows, its defaults.

`blobstore`, `tracking`, `casework` and `packages` use symmetry of processes (and of digests, inodes and
reviews), which is sound: no such constant is ever compared or ordered, and no liveness is checked
there. `tracking`, `packages` and `readers` identify states (VIEW) that differ only in what a
process without a command has left, which no guard and no property reads.

Deadlock is checked in every run but three, whose systems really may stop: in `readers` when the
commands that are allowed have ended; in `explorer` and `reviewing` when the first fetch of the overview has failed,
for then nothing but a reload helps (no retry is configured, `main.tsx`). Elsewhere a run may end only in
a step that says so (`Finished`, `Answered`).

### Fairness

`Ingest!FairSpec` has weak fairness of each process's `Step`: a process that is neither killed nor
finished goes on running, and a wait for the lock ends within five seconds, by getting it or by
`LockTimeout`, which is a `Step` itself. Nothing forces a `Begin` or an `Interrupt`. `LockReleased`
needs it. `GraphQueries!Spec` has weak fairness of the query, a loop in one process;
`EveryQueryAnswered` needs it, while nothing forces others to claim anything. No other module assumes
fairness: a fetch may never be answered, a command never finish. Safety of the file system, of SQLite's
locking and of SHA-256 is assumed: SQLite's write lock is `CanWrite`, marked external, and equal ids mean
equal contents. The query cache of react-query and React's rendering are external too, modelled from how
the page uses them.

## 4. Disagreements and surprises

`custody_lost` is a run that TLC finds violated: `put_evidence` reads the chain before its
transaction holds the lock and writes back an extension of what it read, so that of two concurrent ingests
one loses its custody record, which `core/evidence.py` says is retained.

The rest was met while modelling; the properties state what holds in spite of it.

* Two puts of one line at once share `<digest>.tmp`. If the process that truncated it last
  dies, the other has renamed a truncated file into place, and every later `put` returns early.
* Ingesting a source again is not quite the "safe no-op" of `put_evidence`: a custody record holds
  its `collected_at`, so that each line's chain grows.
* `newly_created` comes from a look-up outside the transaction; two processes can both report a
  finding new. There is one row of it all the same (`ReviewKept`).
* Of two overlapping changes of one hypothesis one is lost, status and evidence (`ChangesKept`).
* `find_all_shortest_paths` reads the relationships three times; with one claimed in between its pruned
  graph has dead ends and it may find nothing, although there is a path. What it reports are chains all
  the same (`ChainsHold`).
* `find_gaps` reads events, evidence and claims in that order, so that it passes over claims committed
  meanwhile; the timeline reads the other way round.
* The command `timeline` prints the first of an event's claims, in no particular order, though it sorts by the earliest.
* A case whose event derives from one with a later id exports a package that every import refuses, and one
  with more objects than an import accepts is exported without a word, against the exporter's "exact same
  logical case"; so does one in which an entity and a hypothesis have one id, as two imports into one
  directory at a time may leave it (met in the proof: three commands, where the run has two); of a line's sources an arbitrary one survives, so that the imported case may
  show gaps the original excludes.
* `Case.create` checks that the directory is empty and then creates: two imports can pass the check,
  and both packages end up in one case (closed all the same: `CasesClosed`).
* An interrupted export leaves a file that makes the next one raise `FileExistsError`; so does a report.
* An archive made while a command commits may hold rows without their blobs or a manifest of another
  state, although `export_case` says that the archive "always contains an up-to-date, verifiable manifest.json". The
  database in it may also be of no state at all: `zf.write` reads the file in chunks, without SQLite's locks, so that pages that a
  commit or a full cache writes meanwhile, or wrote before for a transaction not yet committed, or left by a process that was killed,
  get in beside older ones; and the journal that would undo them is copied later, when it may belong to another
  transaction or be gone. `ArchiveWhole` says what is left: without a commit since the listing and without such pages, the blob of every row;
  without either and with no other manifest since, the right manifest.
* An evidence item of more than 50 MB is ingested and exported without a word, in a package that every import refuses; a
  package of more than 200 MB in a `.witnessgraph-case` archive likewise (`IdsSurvive`). `docs/research/witnessgraph-case-format.md` has both limits.
* A report computes the manifest, then reads what it displays, one SELECT after another. A hypothesis supported in between is
  displayed as it is now, next to a MATCH that was computed of what it was; an entity added in between is displayed although no
  manifest covers it. The report says of its verdict that it covers "the full canonical content of every NormalizedEvent, Entity,
  Relationship, TimeAssertion, and Hypothesis" (`report/render.py`). What holds is `MatchIsDisplayed`, which names the exception.
* A manifest cut short makes `report`, `import` and the overview raise until some command records it anew.
* In the page: "no path" names the entities of the fields, not those asked about; "highlighted in the graph
  above" stays when the overlay is cleared; the late answer of a search that has been left overwrites overlay and focus;
  *Track* takes the thresholds of the fields, not those analysed; a component in focus is known by its
  index, which another fetch may give to another; an old error of a write stays shown; a list of findings that was
  already being fetched for the first time when a write was announced is kept (`missed`); an overview that cannot be
  fetched again replaces the whole page; a list that cannot be read leaves it loading for ever; and entities and
  relationships read on either side of a claim give Cytoscape an edge without its node.

## 5. Proofs

The proofs hold for every value of the constants: any processes, ids, sources, graphs, packages and bounds. They
assume what the modules' named ASSUMEs say, which TLC evaluates in the runs. Those that are there for the proofs
say that what a case holds is finite, which no case on a disk can fail (`DerivedAssumption`: an ingest makes
finitely many claims; `EarlierAssumption` of the packages; `ReportAssumption`; the graph's `Claimed` and
`EventSources`), that ids sort (`RankAssumption`), that contents have sizes and
the limits on them are numbers (`SizeAssumption`, `LimitsAssumption`), that of a row replaced the one that replaces it has the
kind, and one command puts a row once (`ObjectsAssumption`), and that what files declare and cases hold has the fields of its kind:
each citation in a role of it, a chain of custody for evidence alone, a hash for an id where the code hashes
(`Declarable`, `Storable`).

**BlobStoreProofs.** `BlobTypes`; `UncontendedPutsSound` by the invariant `Quiet`:
of two puts in flight on a digest, both have contended (Alone); an uncontended put found nothing (Absent) and
has the staging file to itself with what it has written in it (Staged). `SettledBlobsIntact` needs more, since
it allows races: without crashes, whichever inode carries the name, a writer that still holds it open
has the rest of its bytes to write. `BlobStoreImplementsWriteOnce` is the refinement: initial states
map to initial states, each step to a `Put`, a `Contend` or a stutter.

**IngestProofs.** `IngestTypes`; `FirstSourceIsKept` (what a process has read of a chain, and the image,
continue what is committed: Growing); `ManifestIsBehind` (so do snapshots, whenever they were taken);
`EvidenceIsComplete` (a process past `PutBlob` has its line's blob, and the holder's image, like the tables, has
rows with blobs only; a custody record in the image, or written back from a read, has its event and assertion
there: the three writes of a record are one `StoreRecord`).

Two theorems have a hypothesis, that there is one process, without which they are false. `ManifestIsCurrent`, by
ManifestInv: what compute_manifest has read so far is what is committed, and the case is stale until the manifest is
written (Calm); two processes can write their manifests in the order opposite to that of their commits.
`IngestImplementsAtomic` is the refinement of AtomicIngest, by AtomicInv: what the process sees is what was
committed when its command began and the records before the one it has reached (Reached), whichever of them it
wrote or found there, and what it has read of a chain of custody is what it sees; `Part` is that state as a function of the
number of records, one `StoreRecord` or `SkipRecord` is one more of them (`PartNext`), and a commit has all of them (`PartAll`).
Two processes do not implement it, see `custody_lost`.

**CaseworkProofs.** `CaseworkTypes`; `ReferencesAlwaysResolve` and `RowsAreKept`, which need each other: what
was looked up is still there because rows stay (Looked), and rows stay because a write that replaces a
row replaces none (ids are generated once: Fresh, Apart) or extends what began as the present one does
(Read). `ChangesAreKept` adds that an uncontended change knows the present row (Alone).
`RecordedManifestIsCurrent` and `VerifyAgrees` rest on Calm: while nobody else writes, the tables read so far
are as they are now.

**TrackingProofs.** `TrackingTypes`; `ReviewsAreKept` and `TrackingIsAllOrNothing` by an invariant that says
that a finding has one row at most, that the image of the lock holder is the committed rows plus fresh ones of
findings it has found and done with (Underway, Fresh, Recorded), and that an annotation writes over the row it
read, changed at most in its review (AckHolds). That it has one row at most is the first conjunct of `ReviewKept`: an
insert of what has a row is rejected (`InsertRejected`), and what an annotation writes takes the place of what it read. `TrackedContradictionsStand`: a contradiction is a pair of claims,
and claims stay. `ThresholdsDoNotMatter`: a finding carries its bounds and its corroborating claims, so tighter
thresholds select among the same findings.

`FindingsAreExact` is about the algorithm: the invariant of the growing case only says that its claims are finite
(GrowthInv), and the rest is what one pass finds of any finite set of claims. The claims of a group stand in the order of
their beginnings (`SortedOrdered`); the running end after k of them is the furthest end of the first k, that of the
earliest claim that reaches so far (`FurthestIs`, by induction); and a gap is reported between a claim and the
running end before it exactly if no claim of the group meets what is between them (`SilencesAre`), once
(`FoundAre`), and with the corroboration that the definition asks for (`ExpectedAre`).

**GraphProofs.** `QueryTypes`; `SearchesExact` (each discovery hangs on a chain of discoveries back to the
origin, one hop apart, and when the loop ends within its bound, every step out of what was reached leads to what was
reached) by SearchInv: the queue holds two adjacent layers (Layered), and a step out of
what was reached has been taken or is waiting (NoneLost). `ReportedChainsHold` by QueryInv: what the
trace has put together is a chain from where it stands to the target (Tracing), the pruned graph has steps of
the case that lead one hop on (Pruning, Onward), the enumeration's chain is a walk from the
source as long as its stack is deep (Walking), and the order of the steps tried keeps a chain from being
shown twice (NotAgain).

`NeighborsAreExact` and `ShortestAreExact` say that the answers are right: an ended search has measured every distance
within its bound (`EndedMeasures`: a walk of k steps reaches what is at most k away, by induction along the walk).
ExactInv adds to QueryInv what the answers rest on: that a query of one read works on what it read (Reading); that the trace is as long as
what it has walked back (TraceLength); for all shortest paths, that the first search measured the distances
(ForthMeasured), the second reads at least what the first did (BackReading), the pruned graph has every step of every tied
chain (DagComplete), and each of these chains has been reported or branches off the one being walked by a step still on the
stack (NoneMissed). The last two hold only while nothing is claimed between the reads, which is also all that `ShortestExact` claims.

`ComponentsAreExact` and `OverlapIsExact` are about loops that go on until nothing is added. The models give them as many rounds as there
are entities or objects; that these suffice is `Saturates`: a growing sequence of subsets of a finite set that has
n members has stood still after n rounds, and one that stands still once stays. What is then closed is exactly what is
connected (`SpreadIs`) or rests on the source (`RestsOn`, `OriginsAre`); and the components, listed by their smallest ids, are
each listed once (`Ranks`).

**PackageProofs.** `ExchangeTypes`; `CasesStayClosed` by IInv: until a package is put, every local id means
a row resolved before and the rows resolved so far are closed among themselves (Grounded); while it is put, the
rows already put, those of the case and those that wait are closed together, and what is put has its bytes
(Putting). Closedness of the case alone is not inductive: a row is put while the row it cites still waits, which
is safe only because nothing is committed before the last. That merging rows loses no key and makes no citation is
`MergedKeeps` and `MergedFrom`; that others may commit meanwhile is `UnionClosed`.

`ResolutionIsExact` and `ImportsAreWhole` are by WholeInv, which says of every import how far it is. While declarations are looked
at, either the package is not well formed, or those passed have become rows each of which stands on rows before it, the names are theirs, and what is
built is all of them (Progress). From then on the package is well formed and its rows are those it means (Accepted); and
what has been put and what waits make up that package, of which the image has what was put, merged into the rows of the case
(Put). `ImportIsWhole` alone is not inductive: the commit must know what the image holds. That
packages are sequences and that cases are finite is ListInv; it needs that an export declares finitely much.

`IdsAlwaysSurvive` is by ExportInv: every row is one that its kind can make and sits in a table of its own (Stored), and an export has
told, of each table it has read, exactly its rows, each as the declaration that becomes it again (Telling). What is left concerns
one package and the table it was read from. If the package is well formed, ids tell rows apart and no row cites a later one
(`SurvivorsApart`); if ids do and none may cite a later one, it is (`SurvivorsTogether`); and then each row comes
back with its id and citations, and nothing else does (`SurvivorsAgain`). That no evidence item is too large carries from the rows to the
declarations and back in the first two; the size of the text is a matter of the file alone (`Opens`). Rows whose ids rank equal may be exported either way,
and the statement leaves them so.

**ReadersProofs.** `ArchivesAreWhole` by Copying: unless rows have been committed since the files were listed,
what has been copied and what waits is enough for the rows as they are, and the database copied, if its pages are of one state,
is that; unless rows or manifest have changed since it was signed, the manifest is that of the rows (Signing). What a copy of pages of
two states holds is not known and nothing is claimed of it (`DatabaseKeeps`). `ImportsAlwaysHold` by Extracting: the
database is created when nothing waits but it, its journal and the manifest, which is why no prefix of an import
opens as a case that lacks a blob its archive has.

`MatchesAreDisplayed` and `ClaimsAreAccounted` are by ReportInv, over any order in which the remaining SELECTs may stand as
long as the manifest is read before what it is compared with and claims before their events (Listed). Everything the manifest
was computed from has been read again for display or will be, or has been replaced since by what is read in its stead (ManifestShown, `ShownAgain`),
which rests on what a commit does to rows: each stays or has a successor under its id, and then it is among the revised (RowsLast, `CommitLasts`).
An object is only there with what it cites, and nothing cites what can be replaced, so that the events of the claims
read are found by a later SELECT (CaseCited, TimelineRead); and a SELECT has found at least what was there when the
command began and cannot be replaced (NothingMissed).

**WorkbenchProofs.** `OverlaysMatch`: a rendering that mounts the path search anew disowns the overlay and
every call under way, so an owned overlay is that of the last answer delivered to the search on the screen.
`FindingsSettle` by `FreshIn`: unless a write is unannounced or was missed, the answer to a fetch under way is what
the case holds, and the list on the screen is that, or is being fetched.

`DrawsClosed` is by GraphInv: every list read, or being read, is that of a state the case was in (ReadingsOK), and a component in focus
has the entities of its relationships (Sound). The latter comes from `PartsClosed`: a component is what rounds of
`find_components` lead to, and as many rounds as there are entities leave nothing to be found (`SpreadStops`). In the full graph two lists
meet, and claims only grow: if the entities were not read before the relationships, they have their ends.

Induction. The library's theorems take an operator, which these provers do not instantiate; `SetInduction` is derived instead from the
fact that < is well founded on the naturals, for a set, and carries every induction above. A recursive function is known by a closed form of its
values (`FurthestIs`, `Becomes`) or by the sequence of its rounds (`Iterates`, `IsChain`).

What the proofs changed in the model. An attempt that failed showed, among others: CASEs that overlapped (`Overlap`, `Verdict`), where the code has an order; that
evidence of an event may name what the case does not hold (`RestsOn`); a declaration without a local id, which no
reference can mean (`Meant`); orders that were left to a fold or to an opaque sort where the source says by what it sorts
(`Components`, `Timeline`, `InOrder`, `Listings`); and a local id, a blank and an absent one, constants that nothing told apart, which now
are records that differ (`Named`, `Blank`, `NoId`), like roles that did not go with the kind that cites (`RolesOf`). `IdsSurvive` was no theorem as it stood:
it knew one exception too few, that two rows share an id. `ComponentsExact` now also says that the list is as long as there are components. Each was brought to
what the source does, and the runs pass as before.

Only model-checked: liveness (`LockReleased`, `EveryQueryAnswered`), which this prover does not handle. Every
other property of a passing run is a theorem.

## 6. What is left

1. Composition: Ingest in full beside Casework and PackageExchange on one write lock.
2. The evidence and timeline views, and contradictions in the page.

--------------------------- MODULE PackageExchange ---------------------------
(***************************************************************************)
(* The commands `case-package init', `import' and `export' of any number   *)
(* of processes: a package file is written, resolved declaration by        *)
(* declaration (casepkg/build.py), imported into a case directory          *)
(* (casepkg/importer.py), exported from one (casepkg/exporter.py) and      *)
(* imported again, each cut short anywhere.                                *)
(*                                                                         *)
(* Module Ingest has put_evidence, the write lock and record_manifest      *)
(* statement by statement; here they are a step each, and what may go      *)
(* wrong in them is an Interrupt.                                          *)
(***************************************************************************)
EXTENDS CasePackage, FiniteSets

CONSTANTS
    Procs, NoProc,
    Dirs,           \* directories for cases
    Files,          \* names of package files
    Archives,       \* those that end in .witnessgraph-case, and not in .json
    Given,          \* the file that is there at first
    Packages,       \* what a researcher may have written
    Demo,           \* the package that `init' writes
    Earlier,        \* Earlier[d]: the rows of a case that is there
    NoFile, Broken, NoManifest,
    MaxCommands     \* bound on the number of commands started

ASSUME NoProcAssumption == NoProc \notin Procs
ASSUME DirsAssumption == Dirs # {}
ASSUME MaxCommandsAssumption == MaxCommands \in Nat
ASSUME GivenAssumption == Given \in Files
ASSUME PackagesAssumption ==
    \A q \in Packages \cup {Demo} :
        q \in Seq(Range(q)) /\ \A n \in DOMAIN q : Declarable(q[n])
ASSUME EarlierAssumption ==
    \A d \in DOMAIN Earlier : /\ d \in Dirs
                                /\ IsFiniteSet(Earlier[d])
                                /\ (\A r \in Earlier[d] : Storable(r))
                                /\ Closed(Earlier[d], {r.content : r \in Earlier[d]})

VARIABLES
    files,          \* files[f]: the package in it, Broken, or NoFile
    made,           \* the directories that hold a case.db
    rows,           \* rows[d]: the committed rows of its tables
    blobs,          \* blobs[d]: the contents in its blob store
    manifest,       \* manifest[d]: the keys of the rows it records
    lock,           \* lock[d]: the process whose transaction has written
    image,          \* image[d]: the rows as that process sees them
    started,        \* commands started so far
    pc,             \* pc[p]: what p does next
    dir,            \* dir[p]: the directory p works on
    file,           \* file[p]: the file p works on
    package,        \* package[p]: the package p has read or put together
    at,             \* at[p]: the declaration, or the kind, that p has reached
    claimed,        \* claimed[p]: the local ids taken so far
    names,          \* names[p][l]: the row that local id l has resolved to
    built,          \* built[p]: the rows resolved and not yet put
    errors,         \* errors[p]: some declaration was refused
    torn            \* history: torn[p], a commit since p began to read its case

cases == <<made, rows, blobs, manifest, lock, image>>
locals == <<dir, file, package, at, claimed, names, built, errors, torn>>
resolution == <<claimed, names, built, errors>>
vars == <<files, cases, started, pc, locals>>

Init ==
    /\ \E q \in Packages : files = [f \in Files |-> IF f = Given THEN q ELSE NoFile]
    /\ made = DOMAIN Earlier
    /\ rows = [d \in Dirs |-> IF d \in DOMAIN Earlier THEN Earlier[d] ELSE {}]
    /\ blobs = [d \in Dirs |-> {r.content : r \in {q \in rows[d] : q.kind = "evidence"}}]
    /\ manifest = [d \in Dirs |-> IF d \in DOMAIN Earlier THEN Keys(rows[d]) ELSE NoManifest]
    /\ lock = [d \in Dirs |-> NoProc]
    /\ image = rows
    /\ started = 0
    /\ pc = [p \in Procs |-> "idle"]
    /\ dir = [p \in Procs |-> CHOOSE d \in Dirs : TRUE]
    /\ file = [p \in Procs |-> Given]
    /\ package = [p \in Procs |-> <<>>]
    /\ at = [p \in Procs |-> 1]
    /\ claimed = [p \in Procs |-> {}]
    /\ names = [p \in Procs |-> <<>>]
    /\ built = [p \in Procs |-> {}]
    /\ errors = [p \in Procs |-> FALSE]
    /\ torn = [p \in Procs |-> FALSE]

View(p) == IF lock[dir[p]] = p THEN image[dir[p]] ELSE rows[dir[p]]
CanWrite(p) == lock[dir[p]] \in {NoProc, p}

\* p's command ends, and a transaction that it has not committed with it.
End(p) ==
    /\ pc' = [pc EXCEPT ![p] = "idle"]
    /\ lock' = [lock EXCEPT ![dir[p]] = IF @ = p THEN NoProc ELSE @]
    /\ image' = [image EXCEPT ![dir[p]] = IF lock[dir[p]] = p THEN rows[dir[p]] ELSE @]
    /\ UNCHANGED <<files, made, rows, blobs, manifest, started, locals>>

\* A command starts at step `first', with package q and nothing resolved.
Begin(p, first, d, f, q) ==
    /\ pc[p] = "idle"
    /\ started < MaxCommands
    /\ started' = started + 1
    /\ pc' = [pc EXCEPT ![p] = first]
    /\ dir' = [dir EXCEPT ![p] = d]
    /\ file' = [file EXCEPT ![p] = f]
    /\ package' = [package EXCEPT ![p] = q]
    /\ at' = [at EXCEPT ![p] = 1]
    /\ claimed' = [claimed EXCEPT ![p] = {}]
    /\ names' = [names EXCEPT ![p] = <<>>]
    /\ built' = [built EXCEPT ![p] = {}]
    /\ errors' = [errors EXCEPT ![p] = FALSE]
    /\ torn' = [torn EXCEPT ![p] = FALSE]
    /\ UNCHANGED <<files, cases>>

BeginImport(p) == \E d \in Dirs, f \in Files : Begin(p, "load", d, f, <<>>)
BeginExport(p) == \E d \in made, f \in Files : Begin(p, "read", d, f, <<>>)

\* `init' has the demo package to write.
BeginInit(p) == \E f \in Files : Begin(p, "open", dir[p], f, Demo)

-----------------------------------------------------------------------------
\* read_case_package_archive: no member is too large, which nobody sees to who
\* writes one.
Opens(f, q) == f \in Archives => TextSize(q) <= MaxMember

\* _load_case_package_bytes and the schema: there is such a file, and it is a
\* package of no more declarations than are accepted.
Loadable(f) == /\ files[f] \notin {NoFile, Broken}
               /\ Opens(f, files[f])
               /\ Len(files[f]) <= MaxDeclared

Load(p) ==
    /\ pc[p] = "load"
    /\ Loadable(file[p])
    /\ package' = [package EXCEPT ![p] = files[file[p]]]
    /\ pc' = [pc EXCEPT ![p] = "resolve"]
    /\ UNCHANGED <<files, cases, started, dir, file, at, resolution, torn>>

LoadFails(p) == pc[p] = "load" /\ ~Loadable(file[p]) /\ End(p)

Declared(p) == package[p][at[p]]
LocalId(p) == {Declared(p).local} \ {NoId}

\* _claim_local_id succeeds.
Claimable(p) == \/ Declared(p).local = NoId
                \/ Declared(p).local # Blank /\ Declared(p).local \notin claimed[p]

\* Variant: what is cited may be of any kind.
KnownAnyKind(p, c) == c.local \in DOMAIN names[p]

\* The cited local id is in the dictionary that the role is looked up in.
Known(p, c) == /\ c.local \in DOMAIN names[p]
               /\ names[p][c.local].kind \in Permitted[c.role]

Resolves(p) == Acceptable(Declared(p)) /\ \A c \in Declared(p).cites : Known(p, c)

\* The row that p's declaration becomes.
Row(p) == Object(Declared(p),
                 {[role |-> c.role, id |-> names[p][c.local].id] : c \in Declared(p).cites},
                 at[p])

\* The declaration is refused: its local id is blank or taken ...
Refuse(p) ==
    /\ pc[p] = "resolve"
    /\ at[p] <= Len(package[p])
    /\ ~Claimable(p)
    /\ errors' = [errors EXCEPT ![p] = TRUE]
    /\ at' = [at EXCEPT ![p] = @ + 1]
    /\ UNCHANGED <<files, cases, started, pc, dir, file, package, claimed, names, built, torn>>

\* ... or something that it cites is not known, or its content is not acceptable:
\* its local id is taken, but means nothing.
Unresolved(p) ==
    /\ pc[p] = "resolve"
    /\ at[p] <= Len(package[p])
    /\ Claimable(p)
    /\ ~Resolves(p)
    /\ claimed' = [claimed EXCEPT ![p] = @ \cup LocalId(p)]
    /\ errors' = [errors EXCEPT ![p] = TRUE]
    /\ at' = [at EXCEPT ![p] = @ + 1]
    /\ UNCHANGED <<files, cases, started, pc, dir, file, package, names, built, torn>>

\* The declaration is resolved.
Resolve(p) ==
    /\ pc[p] = "resolve"
    /\ at[p] <= Len(package[p])
    /\ Claimable(p)
    /\ Resolves(p)
    /\ claimed' = [claimed EXCEPT ![p] = @ \cup LocalId(p)]
    /\ names' = [names EXCEPT ![p] = [l \in DOMAIN @ \cup LocalId(p) |->
                                        IF l \in LocalId(p) THEN Row(p) ELSE @[l]]]
    /\ built' = [built EXCEPT ![p] = @ \cup {Row(p)}]
    /\ at' = [at EXCEPT ![p] = @ + 1]
    /\ UNCHANGED <<files, cases, started, pc, dir, file, package, errors, torn>>

\* The whole package is looked at before anything is refused.
Resolved(p) == pc[p] = "resolve" /\ at[p] > Len(package[p])

Reject(p) == Resolved(p) /\ errors[p] /\ End(p)

\* Case.create finds nothing in the directory ...
Accept(p) ==
    /\ Resolved(p)
    /\ ~errors[p]
    /\ dir[p] \notin made /\ blobs[dir[p]] = {}
    /\ pc' = [pc EXCEPT ![p] = "create"]
    /\ UNCHANGED <<files, cases, started, locals>>

NotEmpty(p) ==
    /\ Resolved(p)
    /\ ~errors[p]
    /\ dir[p] \in made \/ blobs[dir[p]] # {}
    /\ End(p)

\* ... and makes a case of it, whoever has made one there meanwhile.
Create(p) ==
    /\ pc[p] = "create"
    /\ made' = made \cup {dir[p]}
    /\ pc' = [pc EXCEPT ![p] = "put"]
    /\ UNCHANGED <<files, rows, blobs, manifest, lock, image, started, locals>>

Evidence(objects) == {o \in objects : o.kind = "evidence"}

\* Variant: each row is committed by itself.
PutEvidenceAlone(p) ==
    /\ pc[p] = "put"
    /\ CanWrite(p)
    /\ \E o \in Evidence(built[p]) :
          /\ blobs' = [blobs EXCEPT ![dir[p]] = @ \cup {o.content}]
          /\ image' = [image EXCEPT ![dir[p]] = Merged(View(p), {o})]
          /\ rows' = [rows EXCEPT ![dir[p]] = Merged(View(p), {o})]
          /\ built' = [built EXCEPT ![p] = @ \ {o}]
    /\ UNCHANGED <<files, made, manifest, lock, started, pc, dir, file, package, at, claimed, names,
                   errors, torn>>

\* The blob of one evidence item, then its row; the first write of the
\* transaction takes the lock.
PutEvidence(p) ==
    /\ pc[p] = "put"
    /\ CanWrite(p)
    /\ \E o \in Evidence(built[p]) :
          /\ blobs' = [blobs EXCEPT ![dir[p]] = @ \cup {o.content}]
          /\ image' = [image EXCEPT ![dir[p]] = Merged(View(p), {o})]
          /\ built' = [built EXCEPT ![p] = @ \ {o}]
    /\ lock' = [lock EXCEPT ![dir[p]] = p]
    /\ UNCHANGED <<files, made, rows, manifest, started, pc, dir, file, package, at, claimed, names,
                   errors, torn>>

\* Who reads this case has read another state of it.
Disturb(d) ==
    torn' = [q \in Procs |-> torn[q] \/ (dir[q] = d /\ pc[q] \in {"read", "open"})]

\* Variant: the bytes of evidence are not put before the commit.
CommitBeforeBlobs(p) ==
    /\ pc[p] = "put"
    /\ CanWrite(p)
    /\ rows' = [rows EXCEPT ![dir[p]] = Merged(View(p), built[p])]
    /\ image' = [image EXCEPT ![dir[p]] = Merged(View(p), built[p])]
    /\ lock' = [lock EXCEPT ![dir[p]] = NoProc]
    /\ built' = [built EXCEPT ![p] = {}]
    /\ pc' = [pc EXCEPT ![p] = "manifest"]
    /\ Disturb(dir[p])
    /\ UNCHANGED <<files, made, blobs, manifest, started, dir, file, package, at, claimed, names,
                   errors>>

\* All else, and the commit.
Commit(p) ==
    /\ pc[p] = "put"
    /\ CanWrite(p)
    /\ Evidence(built[p]) = {}
    /\ rows' = [rows EXCEPT ![dir[p]] = Merged(View(p), built[p])]
    /\ image' = [image EXCEPT ![dir[p]] = Merged(View(p), built[p])]
    /\ lock' = [lock EXCEPT ![dir[p]] = NoProc]
    /\ built' = [built EXCEPT ![p] = {}]
    /\ pc' = [pc EXCEPT ![p] = "manifest"]
    /\ Disturb(dir[p])
    /\ UNCHANGED <<files, made, blobs, manifest, started, dir, file, package, at, claimed, names,
                   errors>>

\* Another process has held the write lock for five seconds.
LockTimeout(p) == pc[p] = "put" /\ ~CanWrite(p) /\ End(p)

\* record_manifest; the command records it once more.
RecordManifest(p) ==
    /\ pc[p] = "manifest"
    /\ manifest' = [manifest EXCEPT ![dir[p]] = Keys(rows[dir[p]])]
    /\ pc' = [pc EXCEPT ![p] = "idle"]
    /\ UNCHANGED <<files, made, rows, blobs, lock, image, started, locals>>

-----------------------------------------------------------------------------
\* export_case_package: one table, sorted by id; the bytes of evidence are
\* fetched from the blob store.
ReadTable(p) ==
    /\ pc[p] = "read"
    /\ at[p] <= Len(KindOrder)
    /\ \E q \in Declarations(rows[dir[p]], KindOrder[at[p]]) :
          package' = [package EXCEPT ![p] = @ \o q]
    /\ at' = [at EXCEPT ![p] = @ + 1]
    /\ UNCHANGED <<files, cases, started, pc, dir, file, resolution, torn>>

PutTogether(p) ==
    /\ pc[p] = "read"
    /\ at[p] > Len(KindOrder)
    /\ pc' = [pc EXCEPT ![p] = "open"]
    /\ UNCHANGED <<files, cases, started, locals>>

\* _write_case_package: a new file is opened ...
OpenFile(p) ==
    /\ pc[p] = "open"
    /\ files[file[p]] = NoFile
    /\ files' = [files EXCEPT ![file[p]] = Broken]
    /\ pc' = [pc EXCEPT ![p] = "write"]
    /\ UNCHANGED <<cases, started, locals>>

FileExists(p) == pc[p] = "open" /\ files[file[p]] # NoFile /\ End(p)

\* ... and written; cut short, it is no JSON, and no archive.
WriteFile(p) ==
    /\ pc[p] = "write"
    /\ files' = [files EXCEPT ![file[p]] = package[p]]
    /\ pc' = [pc EXCEPT ![p] = "idle"]
    /\ UNCHANGED <<cases, started, locals>>

\* The process dies, or an I/O error ends its command.
Interrupt(p) == pc[p] # "idle" /\ End(p)

Import(p) == \/ BeginImport(p) \/ Load(p) \/ LoadFails(p)
             \/ Refuse(p) \/ Unresolved(p) \/ Resolve(p) \/ Reject(p)
             \/ Accept(p) \/ NotEmpty(p) \/ Create(p)
             \/ PutEvidence(p) \/ Commit(p) \/ LockTimeout(p) \/ RecordManifest(p)

Export(p) == \/ BeginExport(p) \/ BeginInit(p) \/ ReadTable(p) \/ PutTogether(p)
             \/ OpenFile(p) \/ FileExists(p) \/ WriteFile(p)

Finished == /\ started = MaxCommands
            /\ \A p \in Procs : pc[p] = "idle"
            /\ UNCHANGED vars

Next == \/ \E p \in Procs : Import(p) \/ Export(p) \/ Interrupt(p)
        \/ Finished

Spec == Init /\ [][Next]_vars

-----------------------------------------------------------------------------
\* The types; only a process that puts rows holds a lock, that of its directory.
TypeOK ==
    /\ made \in SUBSET Dirs
    /\ DOMAIN rows = Dirs /\ DOMAIN blobs = Dirs /\ DOMAIN image = Dirs
    /\ lock \in [Dirs -> Procs \cup {NoProc}]
    /\ started \in 0 .. MaxCommands
    /\ pc \in [Procs -> {"idle", "load", "resolve", "create", "put", "manifest", "read", "open",
                         "write"}]
    /\ dir \in [Procs -> Dirs]
    /\ file \in [Procs -> Files]
    /\ at \in [Procs -> Nat \ {0}]
    /\ DOMAIN names = Procs /\ DOMAIN claimed = Procs /\ DOMAIN built = Procs
    /\ \A p \in Procs : DOMAIN names[p] \subseteq claimed[p]
    /\ errors \in [Procs -> BOOLEAN]
    /\ torn \in [Procs -> BOOLEAN]
    /\ \A d \in Dirs : lock[d] # NoProc => pc[lock[d]] = "put" /\ dir[lock[d]] = d

\* One pass over the declarations accepts a package exactly if it is well
\* formed, and makes of it what it means.
ResolutionExact ==
    \A p \in Procs : Resolved(p) =>
        /\ errors[p] <=> ~WellFormed(package[p])
        /\ ~errors[p] => built[p] = Everything(package[p])

\* Whatever is imported into a case, by whom and however far: what its rows
\* cite is there, and so are the bytes of its evidence.
CasesClosed == \A d \in Dirs : Closed(rows[d], blobs[d])

\* The tables of a case change by one whole well-formed package at a time: an
\* import succeeds entirely or leaves no row (importer.py).
ImportIsWhole ==
    [][\A d \in Dirs : rows'[d] # rows[d] =>
          \E p \in Procs : /\ pc[p] = "put" /\ dir[p] = d
                           /\ WellFormed(package[p])
                           /\ rows'[d] = Merged(rows[d], Everything(package[p]))]_vars

\* p has exported a case that has not changed meanwhile.
Exported(p) == pc[p] = "open" /\ at[p] > Len(KindOrder) /\ ~torn[p]

\* o is row r again, from no other source.
Again(r, o) == /\ o = [r EXCEPT !.sources = o.sources]
               /\ o.sources \subseteq r.sources
               /\ r.sources # {} => o.sources # {}

\* Row r cites a row of its own kind that is listed after it, or may be: the order
\* of ids, which are hashes, is not that of derivation.
CitesLater(r, table) ==
    \E c \in r.cites, o \in table :
        o.kind = r.kind /\ o.id = c.id /\ Rank[r.content] < Rank[o.content]
MayCiteLater(r, table) ==
    \E c \in r.cites, o \in table :
        o.kind = r.kind /\ o.id = c.id /\ Rank[r.content] <= Rank[o.content]

\* The ids survive: an export declares the rows of the case, with the ids and the
\* citations they have; and it can be imported, unless an event derives from one
\* with a later id, an id is that of two rows of different kinds, as two imports at
\* a time may leave it, or there is more than an import accepts: rows, bytes of an
\* item that was ingested, or text of an archive.  The docstring of the export
\* knows no exception: "Export a case, hand the package to another researcher, have
\* them import it, and get back the exact same logical case" (exporter.py).
IdsSurvive ==
    \A p \in Procs : Exported(p) =>
        LET table == rows[dir[p]]
            again == Everything(package[p])
            imports == Opens(file[p], package[p]) /\ WellFormed(package[p])
            accepted == /\ Len(package[p]) <= MaxDeclared
                        /\ Opens(file[p], package[p])
                        /\ \A r \in Evidence(table) : Size[r.content] <= MaxContent
                        /\ \A r, o \in table : r.id = o.id => r = o
        IN /\ imports => accepted /\ \A r \in table : ~CitesLater(r, table)
           /\ accepted /\ (\A r \in table : ~MayCiteLater(r, table)) => imports
           /\ WellFormed(package[p]) =>
                 /\ \A r \in table : \E o \in again : Again(r, o)
                 /\ \A o \in again : \E r \in table : Again(r, o)
=============================================================================

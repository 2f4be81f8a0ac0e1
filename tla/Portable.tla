------------------------------ MODULE Portable ------------------------------
(***************************************************************************)
(* `witnessgraph export' and `witnessgraph import' (portable.py): a case   *)
(* directory is zipped, file by file and under no lock, while commands go  *)
(* on writing to the case; the archive is extracted, file by file, into    *)
(* another directory. Either may be cut short anywhere and be run again.   *)
(* The database is copied as a file, a chunk at a time, and not by SQLite: *)
(* its pages may be written before and while it is.                        *)
(***************************************************************************)
EXTENDS LiveCase

CONSTANT MaxMembers  \* an archive of more or larger members is refused

VARIABLES
    porting,        \* what the command does next
    snapshot,       \* the rows that its compute_manifest has read
    pending,        \* the files that it has still to copy or to extract
    archive,        \* the file it writes or reads
    dest,           \* the directory imported into
    origin,         \* history: the archive as dest was imported from it
    imported        \* history: the last import into dest has succeeded

port == <<porting, snapshot, pending, archive, dest, origin, imported>>

Blob(c) == [what |-> "blob", content |-> c]
Staging(c) == [what |-> "tmp", content |-> c]
Database == [what |-> "case.db", content |-> "rows"]
Journal == [what |-> "case.db-journal", content |-> "pages"]
ManifestFile == [what |-> "manifest.json", content |-> "hashes"]

\* The files of the case, as rglob finds them.
FilesNow == {Blob(c) : c \in blobs} \cup {Staging(c) : c \in staged} \cup {Database}
            \cup (IF pages = "whole" THEN {} ELSE {Journal})
            \cup (IF manifest.state = "none" THEN {} ELSE {ManifestFile})

\* state: "none"; "open", a file that is no zip file yet; "closed". all: every
\* file listed is in it. names, db, manifest: its members, and what the two
\* that are not content-addressed hold. mixed: some pages of the database may be
\* of another state than others, or than its journal. unmoved, signed: history,
\* no commit since the files were listed, none and no other manifest since it
\* was signed.
NoArchive == [state |-> "none", all |-> FALSE, names |-> {}, db |-> {},
              mixed |-> FALSE, manifest |-> NoManifest, unmoved |-> TRUE, signed |-> TRUE]

\* there: the files created; whole: those whose bytes are written.
NoDirectory == [there |-> {}, whole |-> {}, db |-> {}, manifest |-> NoManifest]

InitPort ==
    /\ porting = "idle"
    /\ snapshot = {}
    /\ pending = {}
    /\ archive = NoArchive
    /\ dest = NoDirectory
    /\ origin = NoArchive
    /\ imported = FALSE

\* Variant: the members are in no particular order.
AnyPending == pending

\* sorted(): blobs/, case.db, case.db-journal, manifest.json.
FirstPending ==
    {n \in pending : \/ n.what \in {"blob", "tmp"}
                     \/ n = Database /\ pending \subseteq {Database, Journal, ManifestFile}
                     \/ n = Journal /\ pending \subseteq {Journal, ManifestFile}
                     \/ pending = {ManifestFile}}

-----------------------------------------------------------------------------
\* export_case: there is no such file yet; the manifest is recorded.
BeginExport ==
    /\ porting = "idle"
    /\ BeginReader
    /\ archive.state = "none"
    /\ porting' = "compute"
    /\ UNCHANGED <<snapshot, pending, archive, dest, origin, imported, live>>

Sign ==
    /\ porting = "compute"
    /\ Readable
    /\ snapshot' = rows
    /\ archive' = [archive EXCEPT !.signed = TRUE]
    /\ porting' = "truncate"
    /\ UNCHANGED <<pending, dest, origin, imported, readers, live>>

TruncateManifest ==
    /\ porting = "truncate"
    /\ manifest' = CutShort
    /\ porting' = "write"
    /\ UNCHANGED <<snapshot, pending, archive, dest, origin, imported, readers, rows, pages,
                   blobs, staged, writing, batch, computed, batches>>

WriteManifest ==
    /\ porting = "write"
    /\ manifest' = Recorded(snapshot)
    /\ porting' = "list"
    /\ UNCHANGED <<snapshot, pending, archive, dest, origin, imported, readers, rows, pages,
                   blobs, staged, writing, batch, computed, batches>>

\* ZipFile(output_path, "w"), and the list of the files that are there now.
ListFiles ==
    /\ porting = "list"
    /\ pending' = FilesNow
    /\ archive' = [archive EXCEPT !.state = "open", !.unmoved = TRUE]
    /\ porting' = "copy"
    /\ UNCHANGED <<snapshot, dest, origin, imported, readers, live>>

\* zf.write: the file as it is now. A journal is of no use to a database that
\* was copied before the last commit.
CopyFile ==
    /\ porting = "copy"
    /\ \E n \in (FirstPending \cap FilesNow) \ {Database} :
          /\ pending' = pending \ {n}
          /\ archive' = [archive EXCEPT !.names = @ \cup {n},
                                        !.mixed = @ \/ (n = Journal /\ ~archive.unmoved),
                                        !.manifest = IF n = ManifestFile THEN manifest ELSE @]
    /\ UNCHANGED <<porting, snapshot, dest, origin, imported, readers, live>>

\* The first chunk of the database is read ...
OpenDatabase ==
    /\ porting = "copy"
    /\ Database \in FirstPending
    /\ archive' = [archive EXCEPT !.db = rows, !.mixed = (pages = "torn")]
    /\ porting' = "copy db"
    /\ UNCHANGED <<snapshot, pending, dest, origin, imported, readers, live>>

\* ... and the last. Of pages of two states one may make nothing, or the rows of
\* either state, or of both.
MixedReads == {{}, archive.db, archive.db \cup batch, rows}

CopyDatabase ==
    /\ porting = "copy db"
    /\ \E db \in IF archive.mixed THEN MixedReads ELSE {archive.db} :
          archive' = [archive EXCEPT !.names = @ \cup {Database}, !.db = db]
    /\ pending' = pending \ {Database}
    /\ porting' = "copy"
    /\ UNCHANGED <<snapshot, dest, origin, imported, readers, live>>

\* path.is_file() is false of a staging file that has been renamed since.
SkipFile ==
    /\ porting = "copy"
    /\ \E n \in FirstPending \ FilesNow : pending' = pending \ {n}
    /\ UNCHANGED <<porting, snapshot, archive, dest, origin, imported, readers, live>>

FinishExport ==
    /\ porting = "copy"
    /\ pending = {}
    /\ archive' = [archive EXCEPT !.state = "closed", !.all = TRUE]
    /\ porting' = "idle"
    /\ UNCHANGED <<snapshot, pending, dest, origin, imported, readers, live>>

\* An exception, such as that of a staging file renamed after is_file(), leaves
\* the `with' blocks, which close the zip file with the members it has, and a
\* member with the chunks it has.
ExportRaises ==
    /\ \/ porting = "copy" /\ archive' = [archive EXCEPT !.state = "closed"]
       \/ /\ porting = "copy db"
          /\ archive' = [archive EXCEPT !.state = "closed", !.names = @ \cup {Database},
                                        !.db = {}, !.mixed = TRUE]
    /\ porting' = "idle"
    /\ UNCHANGED <<snapshot, pending, dest, origin, imported, readers, live>>

\* The process is gone; a zip file that was open has no directory.
Die ==
    /\ porting # "idle"
    /\ porting' = "idle"
    /\ UNCHANGED <<snapshot, pending, archive, dest, origin, imported, readers, live>>

\* What an unfinished command has left is removed by hand.
Discard ==
    /\ porting = "idle"
    /\ \/ archive # NoArchive /\ archive' = NoArchive /\ UNCHANGED <<dest, origin, imported>>
       \/ /\ dest # NoDirectory
          /\ dest' = NoDirectory
          /\ imported' = FALSE
          /\ origin' = NoArchive
          /\ UNCHANGED archive
    /\ UNCHANGED <<porting, snapshot, pending, readers, live>>

-----------------------------------------------------------------------------
\* import_case: the directory is empty, the archive a zip file, and every
\* member accepted before anything is created.
BeginImport ==
    /\ porting = "idle"
    /\ BeginReader
    /\ dest = NoDirectory
    /\ archive.state = "closed"
    /\ Cardinality(archive.names) <= MaxMembers
    /\ origin' = archive
    /\ pending' = archive.names
    /\ porting' = "extract"
    /\ UNCHANGED <<snapshot, archive, dest, imported, live>>

\* target.open("wb") makes an empty file, which dst.write then fills.
CreateFile ==
    /\ porting = "extract"
    /\ \E n \in FirstPending :
          dest' = [dest EXCEPT !.there = @ \cup {n},
                               !.manifest = IF n = ManifestFile THEN CutShort ELSE @]
    /\ porting' = "fill"
    /\ UNCHANGED <<snapshot, pending, archive, origin, imported, readers, live>>

FillFile ==
    /\ porting = "fill"
    /\ \E n \in dest.there \cap pending :
          /\ dest' = [dest EXCEPT !.whole = @ \cup {n},
                                  !.db = IF n = Database THEN archive.db ELSE @,
                                  !.manifest = IF n = ManifestFile THEN archive.manifest ELSE @]
          /\ pending' = pending \ {n}
    /\ porting' = "extract"
    /\ UNCHANGED <<snapshot, archive, origin, imported, readers, live>>

\* Case.open(dest_root), and the manifest that is printed. SQLite rolls back, and
\* deletes, a journal that came with its database; what it makes of pages that
\* do not belong together, or says of them, is its own affair.
OpenImported ==
    /\ porting = "extract"
    /\ pending = {}
    /\ dest' = [dest EXCEPT !.there = @ \ {Journal}, !.whole = @ \ {Journal}]
    /\ \/ imported' = (Database \in dest.there /\ dest.manifest.state # "cut short")
       \/ origin.mixed /\ imported' = FALSE
    /\ porting' = "idle"
    /\ UNCHANGED <<snapshot, pending, archive, origin, readers, live>>

PortStep ==
    \/ BeginExport \/ Sign \/ TruncateManifest \/ WriteManifest \/ ListFiles \/ CopyFile
    \/ OpenDatabase \/ CopyDatabase \/ SkipFile \/ FinishExport \/ ExportRaises
    \/ BeginImport \/ CreateFile \/ FillFile \/ OpenImported
    \/ Die \/ Discard

\* What a step of somebody else does to an archive that is being written.
Overtaken ==
    /\ archive' = IF porting \in {"idle", "extract", "fill"} THEN archive
                  ELSE [archive EXCEPT
                            !.mixed = @ \/ (porting = "copy db" /\ pages' = "torn"),
                            !.unmoved = @ /\ rows' = rows,
                            !.signed = @ /\ rows' = rows /\ manifest' = manifest]
    /\ UNCHANGED <<porting, snapshot, pending, dest, origin, imported>>

-----------------------------------------------------------------------------
Backed(of, names) == \A c \in Contents(of) : Blob(c) \in names

\* A finished archive holds a database and a manifest; unless pages of the
\* database were written while it was copied, or before and not committed, the
\* blob of every row of it, if no rows were committed since the files were
\* listed; and the manifest of it, if nobody changed either since the export
\* computed it (export_case lists, then copies, and takes no lock).
ArchiveWhole ==
    archive.all =>
        /\ {Database, ManifestFile} \subseteq archive.names
        /\ archive.unmoved /\ ~archive.mixed => Backed(archive.db, archive.names)
        /\ archive.signed /\ ~archive.mixed => archive.manifest = Recorded(archive.db)

\* A directory that import_case has filled, or has begun to fill, never opens
\* as a case that misses the blob of one of its rows, unless its archive did or
\* its database is of pages that do not belong together; and an import that
\* succeeds has made the case that was archived, less a journal, whose
\* recomputed manifest is the recorded one (DESIGN.md, principle 4).
ImportsHold ==
    /\ Database \in dest.there /\ Backed(origin.db, origin.names) /\ ~origin.mixed
           => Backed(dest.db, dest.whole)
    /\ imported /\ origin.all
           => /\ dest.whole = origin.names \ {Journal}
              /\ origin.mixed \/ dest.db = origin.db
              /\ origin.signed /\ ~origin.mixed => dest.manifest = Recorded(dest.db)
=============================================================================

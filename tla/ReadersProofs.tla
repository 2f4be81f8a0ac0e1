---------------------------- MODULE ReadersProofs ----------------------------
(***************************************************************************)
(* For any case, commands and bounds: what an archive of a case that is    *)
(* worked on meanwhile holds, what an import makes of any archive, however *)
(* far it gets, and what a report or a timeline shows.                     *)
(***************************************************************************)
EXTENDS Readers, FiniteSetTheorems, WellFoundedInduction, TLAPS

\* The fields of an archive and of the directory imported into.
ArchiveFields == {"state", "all", "names", "db", "mixed", "manifest", "unmoved",
                  "signed"}
DirectoryFields == {"there", "whole", "db", "manifest"}

PortOK ==
    /\ porting \in {"idle", "compute", "truncate", "write", "list", "copy", "copy db", "extract",
                   "fill"}
    /\ DOMAIN archive = ArchiveFields /\ DOMAIN dest = DirectoryFields
    /\ {archive.all, archive.mixed, archive.unmoved, archive.signed} \subseteq BOOLEAN

\* The bytes of every committed row are stored.
Stored == Contents(rows) \subseteq blobs

\* Until the files are listed nothing is archived; unless somebody has changed
\* them since, rows and manifest are those that the export has signed.
Signing ==
    /\ porting \in {"compute", "truncate", "write", "list"} => archive.state = "none"
    /\ archive.state = "none" => archive.names = {} /\ ~archive.all
    /\ porting \in {"truncate", "write"} /\ archive.signed => snapshot = rows
    /\ porting = "list" => /\ manifest.state # "none"
                           /\ archive.signed => manifest = Recorded(rows)

\* What has been listed is archived or waits; unless the rows have changed, that
\* is enough for them, and what has been archived, of pages that belong together,
\* is as it is in the case.
Copying ==
    porting \in {"copy", "copy db"} =>
        /\ archive.state = "open" /\ ~archive.all
        /\ manifest.state # "none"
        /\ {Database, ManifestFile} \subseteq pending \cup archive.names
        /\ archive.unmoved => Backed(rows, pending \cup archive.names)
        /\ (archive.unmoved \/ archive.signed) /\ ~archive.mixed
              /\ (Database \in archive.names \/ porting = "copy db") => archive.db = rows
        /\ archive.signed => manifest = Recorded(rows)
        /\ archive.signed /\ ManifestFile \in archive.names => archive.manifest = manifest

\* What is extracted is the archive's: its database after everything else but its
\* journal and the manifest.
Extracting ==
    /\ porting \in {"extract", "fill"} =>
          /\ origin = archive /\ archive.state = "closed"
          /\ dest.whole \cup pending = origin.names
          /\ dest.whole \cap pending = {}
          /\ ~imported
    /\ Database \in dest.there
          => origin.names \subseteq dest.whole \cup {Database, Journal, ManifestFile}
    /\ dest.db = IF Database \in dest.whole THEN origin.db ELSE {}
    /\ ManifestFile \in dest.whole => dest.manifest = origin.manifest

\* What was imported from was finished, or said that it was not.
Imported ==
    /\ origin.all => /\ {Database, ManifestFile} \subseteq origin.names
                     /\ origin.signed /\ ~origin.mixed => origin.manifest = Recorded(origin.db)
    /\ imported => /\ Database \in dest.there
                   /\ dest.whole = origin.names \ {Journal}

IInv == PortOK /\ Stored /\ Signing /\ Copying /\ ArchiveWhole /\ Extracting /\ Imported

-----------------------------------------------------------------------------
LEMMA NamesApart ==
    /\ Database # ManifestFile /\ Database # Journal /\ ManifestFile # Journal
    /\ \A c : Blob(c) \notin {Database, Journal, ManifestFile}
    /\ Database.what = "case.db" /\ ManifestFile.what = "manifest.json"
    /\ Journal.what = "case.db-journal"
    /\ \A c : Blob(c).what = "blob"
  BY DEF Database, Journal, ManifestFile, Blob

LEMMA ContentsTogether ==
    ASSUME NEW some, NEW others
    PROVE  Contents(some \cup others) = Contents(some) \cup Contents(others)
  BY DEF Contents, OfKind

LEMMA IInvInit == Init => IInv
  <1> SUFFICES ASSUME Init PROVE IInv
    OBVIOUS
  <1> USE DEF Init, InitLive, InitPort
  <1>1. PortOK
    BY DEF PortOK, ArchiveFields, DirectoryFields, NoArchive, NoDirectory
  <1>2. Stored
    BY DEF Stored
  <1>3. Signing /\ Copying /\ ArchiveWhole
    BY DEF Signing, Copying, ArchiveWhole, NoArchive
  <1>4. Extracting /\ Imported
    BY DEF Extracting, Imported, NoArchive, NoDirectory
  <1> QED BY <1>1, <1>2, <1>3, <1>4 DEF IInv

-----------------------------------------------------------------------------
\* A command that writes keeps the bytes of every row, and never removes the
\* manifest.
LEMMA WriterEffect ==
    ASSUME Stored, WriterStep
    PROVE  Stored' /\ (manifest.state # "none" => manifest'.state # "none")
  <1>1. CASE CommitBatch
    <2>1. /\ rows' \subseteq rows \cup batch /\ UNCHANGED <<blobs, manifest>>
          /\ Contents(batch) \subseteq blobs
      BY <1>1 DEF CommitBatch, Replaced
    <2>2. Contents(rows') \subseteq Contents(rows \cup batch)
      BY <2>1 DEF Contents, OfKind
    <2> QED BY <2>1, <2>2, ContentsTogether DEF Stored
  <1>2. CASE BeginBatch \/ Stage \/ Insert \/ WritePages \/ Compute \/ StopWriting \/ RollBackHot
    BY <1>2 DEF BeginBatch, Stage, Insert, WritePages, Compute, StopWriting, RollBackHot, Stored,
                Contents
  <1>3. CASE Publish
    BY <1>3 DEF Publish, Stored, Contents
  <1>4. CASE Truncate \/ Write
    <2>1. UNCHANGED <<rows, blobs>> /\ manifest' \in {CutShort, Recorded(computed)}
      BY <1>4 DEF Truncate, Write
    <2>2. CutShort.state # "none" /\ Recorded(computed).state # "none"
      <3>1. CutShort.state = "cut short"
        BY DEF CutShort
      <3>2. Recorded(computed).state = "whole"
        BY DEF Recorded
      <3>3. "cut short" # "none" /\ "whole" # "none"
        OBVIOUS
      <3> QED BY <3>1, <3>2, <3>3
    <2> QED BY <2>1, <2>2 DEF Stored
  <1>5. \/ BeginBatch \/ Stage \/ Publish \/ Insert \/ WritePages \/ CommitBatch
        \/ Compute \/ Truncate \/ Write \/ StopWriting \/ RollBackHot
    BY DEF WriterStep
  <1> QED BY <1>1, <1>2, <1>3, <1>4, <1>5, Zenon

LEMMA WriterKeeps ==
    ASSUME IInv, WriterStep, Overtaken
    PROVE  IInv'
  <1>1. Stored' /\ (manifest.state # "none" => manifest'.state # "none")
    BY WriterEffect DEF IInv
  <1>2. UNCHANGED <<porting, snapshot, pending, dest, origin, imported>>
    BY DEF Overtaken
  <1>3. CASE porting \in {"idle", "extract", "fill"}
    <2>1. archive' = archive
      BY <1>3 DEF Overtaken
    <2> QED BY <1>1, <1>2, <1>3, <2>1
            DEF IInv, PortOK, Signing, Copying, ArchiveWhole, Extracting, Imported, Backed
  <1>4. CASE porting \notin {"idle", "extract", "fill"}
    <2>1. archive' = [archive EXCEPT !.mixed = @ \/ (porting = "copy db" /\ pages' = "torn"),
                                     !.unmoved = @ /\ rows' = rows,
                                     !.signed = @ /\ rows' = rows /\ manifest' = manifest]
      BY <1>4 DEF Overtaken
    <2>2. /\ DOMAIN archive' = ArchiveFields
          /\ archive'.state = archive.state /\ archive'.all = archive.all
          /\ archive'.names = archive.names /\ archive'.db = archive.db
          /\ archive'.manifest = archive.manifest
          /\ archive'.mixed = (archive.mixed \/ (porting = "copy db" /\ pages' = "torn"))
          /\ archive'.unmoved = (archive.unmoved /\ rows' = rows)
          /\ archive'.signed = (archive.signed /\ rows' = rows /\ manifest' = manifest)
      BY <2>1 DEF IInv, PortOK, ArchiveFields
    <2>3. ~archive.all
      BY <1>4 DEF IInv, PortOK, Signing, Copying
    <2>4. PortOK'
      BY <1>2, <2>2 DEF IInv, PortOK
    <2>5. Signing'
      BY <1>1, <1>2, <2>2, <2>4 DEF IInv, PortOK, Signing
    <2>6. Copying'
      BY <1>1, <1>2, <2>2, <2>4 DEF IInv, PortOK, Copying, Backed
    <2>7. ArchiveWhole'
      BY <2>2, <2>3 DEF ArchiveWhole
    <2>8. Extracting' /\ Imported'
      BY <1>2, <1>4 DEF IInv, Extracting, Imported
    <2> QED BY <1>1, <2>4, <2>5, <2>6, <2>7, <2>8 DEF IInv
  <1> QED BY <1>3, <1>4

-----------------------------------------------------------------------------
\* The steps of an export, up to the list of its files ...
LEMMA SignKeeps ==
    ASSUME IInv, BeginExport \/ Sign \/ TruncateManifest \/ WriteManifest \/ ListFiles
    PROVE  IInv'
  <1>1. CASE BeginExport
    BY <1>1 DEF BeginExport, live, IInv, PortOK, Stored, Signing, Copying, ArchiveWhole, Backed,
                Extracting, Imported, Contents
  <1>2. CASE Sign
    <2>1. /\ porting = "compute" /\ porting' = "truncate" /\ snapshot' = rows
          /\ UNCHANGED <<pending, dest, origin, imported, rows, blobs, manifest>>
          /\ archive' = [archive EXCEPT !.signed = TRUE]
      BY <1>2 DEF Sign, live
    <2>2. /\ DOMAIN archive' = ArchiveFields
          /\ archive'.state = archive.state /\ archive'.all = archive.all
          /\ archive'.names = archive.names /\ archive'.unmoved = archive.unmoved
          /\ archive'.mixed = archive.mixed /\ archive'.signed = TRUE
      BY <2>1 DEF IInv, PortOK, ArchiveFields
    <2>3. PortOK' /\ Stored'
      BY <2>1, <2>2 DEF IInv, PortOK, Stored
    <2>4. Signing' /\ Copying' /\ ArchiveWhole'
      BY <2>1, <2>2 DEF IInv, Signing, Copying, ArchiveWhole
    <2>5. Extracting' /\ Imported'
      BY <2>1 DEF IInv, Extracting, Imported
    <2> QED BY <2>3, <2>4, <2>5 DEF IInv
  <1>3. CASE TruncateManifest
    BY <1>3 DEF TruncateManifest, IInv, PortOK, Stored, Signing, Copying, ArchiveWhole, Backed,
                Extracting, Imported, Contents
  <1>4. CASE WriteManifest
    BY <1>4 DEF WriteManifest, IInv, PortOK, Stored, Signing, Copying, ArchiveWhole, Backed,
                Extracting, Imported, Contents, Recorded
  <1>5. CASE ListFiles
    <2>1. /\ porting = "list" /\ porting' = "copy" /\ pending' = FilesNow
          /\ UNCHANGED <<snapshot, dest, origin, imported, rows, blobs, manifest>>
          /\ archive' = [archive EXCEPT !.state = "open", !.unmoved = TRUE]
      BY <1>5 DEF ListFiles, live
    <2>2. /\ DOMAIN archive' = ArchiveFields
          /\ archive'.state = "open" /\ archive'.all = archive.all
          /\ archive'.names = archive.names /\ archive'.unmoved = TRUE
          /\ archive'.mixed = archive.mixed /\ archive'.signed = archive.signed
      BY <2>1 DEF IInv, PortOK, ArchiveFields
    <2>3. archive.names = {} /\ ~archive.all
      BY <2>1 DEF IInv, Signing
    <2>4. {Database, ManifestFile} \subseteq FilesNow /\ Backed(rows, FilesNow)
      BY <2>1 DEF IInv, Signing, Stored, FilesNow, Backed
    <2>5. PortOK' /\ Stored' /\ Signing'
      BY <2>1, <2>2 DEF IInv, PortOK, Stored, Signing
    <2>6. Copying' /\ ArchiveWhole'
      BY <2>1, <2>2, <2>3, <2>4 DEF IInv, Signing, Copying, ArchiveWhole, Backed
    <2>7. Extracting' /\ Imported'
      BY <2>1 DEF IInv, Extracting, Imported
    <2> QED BY <2>5, <2>6, <2>7 DEF IInv
  <1> QED BY <1>1, <1>2, <1>3, <1>4, <1>5

\* ... and from there to its end.
LEMMA CopyKeeps ==
    ASSUME IInv, CopyFile
    PROVE  IInv'
  <1>1. PICK n \in (FirstPending \cap FilesNow) \ {Database} :
           /\ pending' = pending \ {n}
           /\ archive' = [archive EXCEPT !.names = @ \cup {n},
                                         !.mixed = @ \/ (n = Journal /\ ~archive.unmoved),
                                         !.manifest = IF n = ManifestFile THEN manifest ELSE @]
    BY DEF CopyFile
  <1>2. /\ porting = "copy" /\ n \in pending /\ n # Database
        /\ UNCHANGED <<porting, snapshot, dest, origin, imported, rows, blobs, manifest>>
    BY DEF CopyFile, FirstPending, live
  <1>3. /\ DOMAIN archive' = ArchiveFields
        /\ archive'.state = archive.state /\ archive'.all = archive.all
        /\ archive'.names = archive.names \cup {n} /\ archive'.db = archive.db
        /\ archive'.mixed = (archive.mixed \/ (n = Journal /\ ~archive.unmoved))
        /\ archive'.manifest = IF n = ManifestFile THEN manifest ELSE archive.manifest
        /\ archive'.unmoved = archive.unmoved /\ archive'.signed = archive.signed
    BY <1>1 DEF IInv, PortOK, ArchiveFields
  <1>4. pending' \cup archive'.names = pending \cup archive.names
    BY <1>1, <1>2, <1>3
  <1>5. PortOK' /\ Stored'
    BY <1>2, <1>3 DEF IInv, PortOK, Stored
  <1>6. Signing'
    BY <1>2, <1>3 DEF IInv, Signing, Copying
  <1>7. Copying'
    BY <1>2, <1>3, <1>4 DEF IInv, Copying, Backed
  <1>8. ArchiveWhole'
    BY <1>2, <1>3 DEF IInv, Copying, ArchiveWhole
  <1>9. Extracting' /\ Imported'
    BY <1>2 DEF IInv, Extracting, Imported
  <1> QED BY <1>5, <1>6, <1>7, <1>8, <1>9 DEF IInv

LEMMA DatabaseKeeps ==
    ASSUME IInv, OpenDatabase \/ CopyDatabase
    PROVE  IInv'
  <1>1. CASE OpenDatabase
    <2>1. /\ porting = "copy" /\ porting' = "copy db"
          /\ UNCHANGED <<snapshot, pending, dest, origin, imported, rows, blobs, manifest>>
          /\ archive' = [archive EXCEPT !.db = rows, !.mixed = (pages = "torn")]
      BY <1>1 DEF OpenDatabase, live
    <2>2. /\ DOMAIN archive' = ArchiveFields
          /\ archive'.state = archive.state /\ archive'.all = archive.all
          /\ archive'.names = archive.names /\ archive'.db = rows
          /\ archive'.mixed = (pages = "torn") /\ archive'.manifest = archive.manifest
          /\ archive'.unmoved = archive.unmoved /\ archive'.signed = archive.signed
      BY <2>1 DEF IInv, PortOK, ArchiveFields
    <2>3. PortOK' /\ Stored' /\ Signing'
      BY <2>1, <2>2 DEF IInv, PortOK, Stored, Signing, Copying
    <2>4. Copying' /\ ArchiveWhole'
      BY <2>1, <2>2 DEF IInv, Copying, ArchiveWhole, Backed
    <2>5. Extracting' /\ Imported'
      BY <2>1 DEF IInv, Extracting, Imported
    <2> QED BY <2>3, <2>4, <2>5 DEF IInv
  <1>2. CASE CopyDatabase
    <2>1. PICK db \in IF archive.mixed THEN MixedReads ELSE {archive.db} :
             archive' = [archive EXCEPT !.names = @ \cup {Database}, !.db = db]
      BY <1>2 DEF CopyDatabase
    <2>2. /\ porting = "copy db" /\ porting' = "copy" /\ pending' = pending \ {Database}
          /\ UNCHANGED <<snapshot, dest, origin, imported, rows, blobs, manifest>>
          /\ ~archive.mixed => db = archive.db
      BY <1>2 DEF CopyDatabase, live
    <2>3. /\ DOMAIN archive' = ArchiveFields
          /\ archive'.state = archive.state /\ archive'.all = archive.all
          /\ archive'.names = archive.names \cup {Database} /\ archive'.db = db
          /\ archive'.mixed = archive.mixed /\ archive'.manifest = archive.manifest
          /\ archive'.unmoved = archive.unmoved /\ archive'.signed = archive.signed
      BY <2>1 DEF IInv, PortOK, ArchiveFields
    <2>4. PortOK' /\ Stored' /\ Signing'
      BY <2>2, <2>3 DEF IInv, PortOK, Stored, Signing, Copying
    <2>5. Copying' /\ ArchiveWhole'
      BY <2>2, <2>3, NamesApart DEF IInv, Copying, ArchiveWhole, Backed
    <2>6. Extracting' /\ Imported'
      BY <2>2 DEF IInv, Extracting, Imported
    <2> QED BY <2>4, <2>5, <2>6 DEF IInv
  <1> QED BY <1>1, <1>2

LEMMA SkipKeeps ==
    ASSUME IInv, SkipFile
    PROVE  IInv'
  <1>1. PICK n \in FirstPending \ FilesNow : pending' = pending \ {n}
    BY DEF SkipFile
  <1>2. /\ porting = "copy"
        /\ UNCHANGED <<porting, snapshot, archive, dest, origin, imported, rows, blobs, manifest>>
    BY DEF SkipFile, live
  <1>3. /\ {Database, ManifestFile} \subseteq FilesNow
        /\ \A c \in Contents(rows) : Blob(c) \in FilesNow
    BY <1>2 DEF IInv, Copying, Stored, FilesNow
  <1>4. PortOK' /\ Stored' /\ Signing' /\ ArchiveWhole'
    BY <1>2 DEF IInv, PortOK, Stored, Signing, ArchiveWhole
  <1>5. Copying'
    BY <1>1, <1>2, <1>3 DEF IInv, Copying, Backed
  <1>6. Extracting' /\ Imported'
    BY <1>2 DEF IInv, Extracting, Imported
  <1> QED BY <1>4, <1>5, <1>6 DEF IInv

LEMMA FinishKeeps ==
    ASSUME IInv, FinishExport \/ ExportRaises
    PROVE  IInv'
  <1>1. /\ porting \in {"copy", "copy db"} /\ porting' = "idle"
        /\ UNCHANGED <<snapshot, pending, dest, origin, imported, rows, blobs, manifest>>
        /\ \/ /\ porting = "copy" /\ pending = {}
              /\ archive' = [archive EXCEPT !.state = "closed", !.all = TRUE]
           \/ archive' = [archive EXCEPT !.state = "closed"]
           \/ archive' = [archive EXCEPT !.state = "closed", !.names = @ \cup {Database},
                                         !.db = {}, !.mixed = TRUE]
    BY DEF FinishExport, ExportRaises, live
  <1> DEFINE Closed(all) == /\ DOMAIN archive' = ArchiveFields
                            /\ archive'.state = "closed"
                            /\ archive'.all = all
                            /\ all => /\ archive'.names = archive.names
                                      /\ archive'.db = archive.db
                                      /\ archive'.mixed = archive.mixed
                                      /\ archive'.manifest = archive.manifest
                            /\ archive'.mixed \in BOOLEAN
                            /\ archive'.unmoved = archive.unmoved
                            /\ archive'.signed = archive.signed
  <1>2. \/ porting = "copy" /\ pending = {} /\ Closed(TRUE)
        \/ Closed(FALSE)
    <2>1. CASE /\ porting = "copy" /\ pending = {}
               /\ archive' = [archive EXCEPT !.state = "closed", !.all = TRUE]
      BY <2>1 DEF IInv, PortOK, ArchiveFields
    <2>2. CASE archive' = [archive EXCEPT !.state = "closed"]
      BY <1>1, <2>2 DEF IInv, PortOK, Copying, ArchiveFields
    <2>3. CASE archive' = [archive EXCEPT !.state = "closed", !.names = @ \cup {Database},
                                          !.db = {}, !.mixed = TRUE]
      BY <1>1, <2>3 DEF IInv, PortOK, Copying, ArchiveFields
    <2> QED BY <1>1, <2>1, <2>2, <2>3
  <1>3. PortOK' /\ Stored'
    BY <1>1, <1>2 DEF IInv, PortOK, Stored
  <1>4. Signing' /\ Copying'
    BY <1>1, <1>2 DEF Signing, Copying
  <1>5. ArchiveWhole'
    BY <1>1, <1>2 DEF IInv, PortOK, Copying, ArchiveWhole, Backed
  <1>6. Extracting' /\ Imported'
    BY <1>1 DEF IInv, Extracting, Imported
  <1> QED BY <1>3, <1>4, <1>5, <1>6 DEF IInv

\* An import takes the archive as it is.
LEMMA ImportKeeps ==
    ASSUME IInv, BeginImport
    PROVE  IInv'
  <1>1. /\ porting = "idle" /\ porting' = "extract" /\ dest = NoDirectory
        /\ archive.state = "closed" /\ origin' = archive /\ pending' = archive.names
        /\ UNCHANGED <<snapshot, archive, dest, imported, rows, blobs, manifest>>
    BY DEF BeginImport, live
  <1>2. dest.there = {} /\ dest.whole = {} /\ dest.db = {} /\ ~imported
    BY <1>1 DEF IInv, Imported, NoDirectory
  <1>3. PortOK' /\ Stored' /\ Signing' /\ Copying' /\ ArchiveWhole'
    BY <1>1 DEF IInv, PortOK, Stored, Signing, Copying, ArchiveWhole
  <1>4. Extracting'
    BY <1>1, <1>2 DEF Extracting
  <1>5. Imported'
    BY <1>1, <1>2 DEF IInv, ArchiveWhole, Imported
  <1> QED BY <1>3, <1>4, <1>5 DEF IInv

LEMMA CreateKeeps ==
    ASSUME IInv, CreateFile
    PROVE  IInv'
  <1>1. PICK n \in FirstPending :
           dest' = [dest EXCEPT !.there = @ \cup {n},
                                !.manifest = IF n = ManifestFile THEN CutShort ELSE @]
    BY DEF CreateFile
  <1>2. /\ porting = "extract" /\ porting' = "fill" /\ n \in pending
        /\ n = Database => pending \subseteq {Database, Journal, ManifestFile}
        /\ UNCHANGED <<snapshot, pending, archive, origin, imported, rows, blobs, manifest>>
    BY NamesApart DEF CreateFile, FirstPending, live
  <1>3. /\ DOMAIN dest' = DirectoryFields
        /\ dest'.there = dest.there \cup {n}
        /\ dest'.whole = dest.whole /\ dest'.db = dest.db
        /\ n # ManifestFile => dest'.manifest = dest.manifest
    BY <1>1 DEF IInv, PortOK, DirectoryFields
  <1>4. PortOK' /\ Stored' /\ Signing' /\ Copying' /\ ArchiveWhole'
    BY <1>2, <1>3 DEF IInv, PortOK, Stored, Signing, Copying, ArchiveWhole
  <1>5. Extracting'
    BY <1>2, <1>3 DEF IInv, Extracting
  <1>6. Imported'
    BY <1>2, <1>3 DEF IInv, Imported
  <1> QED BY <1>4, <1>5, <1>6 DEF IInv

LEMMA FillKeeps ==
    ASSUME IInv, FillFile
    PROVE  IInv'
  <1>1. PICK n \in dest.there \cap pending :
           /\ dest' = [dest EXCEPT !.whole = @ \cup {n},
                                   !.db = IF n = Database THEN archive.db ELSE @,
                                   !.manifest = IF n = ManifestFile THEN archive.manifest ELSE @]
           /\ pending' = pending \ {n}
    BY DEF FillFile
  <1>2. /\ porting = "fill" /\ porting' = "extract"
        /\ UNCHANGED <<snapshot, archive, origin, imported, rows, blobs, manifest>>
    BY DEF FillFile, live
  <1>3. /\ DOMAIN dest' = DirectoryFields
        /\ dest'.there = dest.there
        /\ dest'.whole = dest.whole \cup {n}
        /\ dest'.db = IF n = Database THEN archive.db ELSE dest.db
        /\ dest'.manifest = IF n = ManifestFile THEN archive.manifest ELSE dest.manifest
    BY <1>1 DEF IInv, PortOK, DirectoryFields
  <1>4. PortOK' /\ Stored' /\ Signing' /\ Copying' /\ ArchiveWhole'
    BY <1>2, <1>3 DEF IInv, PortOK, Stored, Signing, Copying, ArchiveWhole
  <1>5. Extracting'
    BY <1>1, <1>2, <1>3 DEF IInv, Extracting
  <1>6. Imported'
    BY <1>2, <1>3 DEF IInv, Imported, Extracting
  <1> QED BY <1>4, <1>5, <1>6 DEF IInv

LEMMA OpenKeeps ==
    ASSUME IInv, OpenImported
    PROVE  IInv'
  <1>1. /\ porting = "extract" /\ porting' = "idle" /\ pending = {}
        /\ dest' = [dest EXCEPT !.there = @ \ {Journal}, !.whole = @ \ {Journal}]
        /\ imported' => Database \in dest.there
        /\ UNCHANGED <<snapshot, pending, archive, origin, rows, blobs, manifest>>
    BY DEF OpenImported, live
  <1>2. /\ DOMAIN dest' = DirectoryFields
        /\ dest'.there = dest.there \ {Journal} /\ dest'.whole = dest.whole \ {Journal}
        /\ dest'.db = dest.db /\ dest'.manifest = dest.manifest
    BY <1>1 DEF IInv, PortOK, DirectoryFields
  <1>3. PortOK' /\ Stored' /\ Signing' /\ Copying' /\ ArchiveWhole'
    BY <1>1, <1>2 DEF IInv, PortOK, Stored, Signing, Copying, ArchiveWhole
  <1>4. Extracting' /\ Imported'
    BY <1>1, <1>2, NamesApart DEF IInv, Extracting, Imported
  <1> QED BY <1>3, <1>4 DEF IInv

\* A command dies, or what one has left is removed.
LEMMA StopKeeps ==
    ASSUME IInv, Die \/ Discard
    PROVE  IInv'
  <1>1. CASE Die
    BY <1>1 DEF Die, live, IInv, PortOK, Stored, Signing, Copying, ArchiveWhole, Extracting,
                Imported
  <1>2. CASE Discard
    <2>1. /\ porting = "idle"
          /\ UNCHANGED <<porting, snapshot, pending, rows, blobs, manifest>>
      BY <1>2 DEF Discard, live
    <2>2. CASE archive' = NoArchive /\ UNCHANGED <<dest, origin, imported>>
      <3>1. PortOK' /\ Stored' /\ Signing' /\ Copying' /\ ArchiveWhole'
        BY <2>1, <2>2 DEF IInv, PortOK, Stored, Signing, Copying, ArchiveWhole, NoArchive,
                          ArchiveFields
      <3>2. Extracting' /\ Imported'
        BY <2>1, <2>2 DEF IInv, Extracting, Imported
      <3> QED BY <3>1, <3>2 DEF IInv
    <2>3. CASE dest' = NoDirectory /\ imported' = FALSE /\ origin' = NoArchive /\ archive' = archive
      <3>1. PortOK' /\ Stored' /\ Signing' /\ Copying' /\ ArchiveWhole'
        BY <2>1, <2>3 DEF IInv, PortOK, Stored, Signing, Copying, ArchiveWhole, NoDirectory,
                          DirectoryFields
      <3>2. Extracting' /\ Imported'
        BY <2>1, <2>3 DEF Extracting, Imported, NoDirectory, NoArchive
      <3> QED BY <3>1, <3>2 DEF IInv
    <2> QED BY <1>2, <2>2, <2>3 DEF Discard
  <1> QED BY <1>1, <1>2

\* Who only reads a case changes nothing of it.
LEMMA ReadersChangeNothing == ReadStep => UNCHANGED live
  BY DEF ReadStep, BeginReading, SelectTable, LoadRecorded, Show, WriteOutput, StopReading

LEMMA IInvNext == IInv /\ [Next]_vars => IInv'
  <1> SUFFICES ASSUME IInv, [Next]_vars PROVE IInv'
    OBVIOUS
  <1>1. CASE UNCHANGED <<live, port>>
    BY <1>1 DEF live, port, IInv, PortOK, Stored, Signing, Copying, ArchiveWhole, Extracting,
                Imported
  <1>2. CASE WriterStep /\ Overtaken
    BY <1>2, WriterKeeps
  <1>3. CASE PortStep
    BY <1>3, SignKeeps, CopyKeeps, DatabaseKeeps, SkipKeeps, FinishKeeps, ImportKeeps, CreateKeeps, FillKeeps,
       OpenKeeps, StopKeeps DEF PortStep
  <1>4. CASE ReadStep /\ UNCHANGED port
    BY <1>1, <1>4, ReadersChangeNothing
  <1> QED BY <1>1, <1>2, <1>3, <1>4 DEF Next, vars

-----------------------------------------------------------------------------
\* A finished archive holds a database and a manifest; the blob of every row of
\* its database, unless rows were committed since its files were listed; and the
\* manifest of its database, unless rows or manifest were changed since that was
\* computed (export_case).
THEOREM ArchivesAreWhole == Spec => []ArchiveWhole
  <1>1. IInv => ArchiveWhole
    BY DEF IInv
  <1> QED BY <1>1, IInvInit, IInvNext, PTL DEF Spec

\* However far an import gets, the directory opens as a case that misses a blob
\* only if its archive did; and an import that succeeds has made the case that was
\* archived (import_case).
THEOREM ImportsAlwaysHold == Spec => []ImportsHold
  <1>1. IInv => ImportsHold
    <2> SUFFICES ASSUME IInv PROVE ImportsHold
      OBVIOUS
    <2>1. ASSUME Database \in dest.there, Backed(origin.db, origin.names)
          PROVE  Backed(dest.db, dest.whole)
      <3>1. Contents({}) = {}
        BY DEF Contents, OfKind
      <3> QED BY <2>1, <3>1, NamesApart DEF IInv, Extracting, Backed
    <2>2. ASSUME imported, origin.all
          PROVE  /\ dest.whole = origin.names \ {Journal}
                 /\ dest.db = origin.db
                 /\ origin.signed /\ ~origin.mixed => dest.manifest = Recorded(dest.db)
      BY <2>2, NamesApart DEF IInv, Extracting, Imported
    <2> QED BY <2>1, <2>2 DEF ImportsHold
  <1> QED BY <1>1, IInvInit, IInvNext, PTL DEF Spec

-----------------------------------------------------------------------------
(***************************************************************************)
(* Induction, and the documents that commands make of a case.              *)
(***************************************************************************)

\* A set of numbers has a least one, ...
LEMMA LeastNat ==
  ASSUME NEW T, T \subseteq Nat, T # {}
  PROVE  \E m \in T : \A k \in T : m <= k
<1> DEFINE R == {ss \in Nat \X Nat : ss[1] < ss[2]}
<1>1. IsWellFoundedOn(R, Nat)
  BY NatLessThanWellFounded DEF OpToRel
<1>2. \E x \in T : \A y \in T : <<y, x>> \notin R
  <2> HIDE DEF R
  <2> QED BY <1>1, WFMin
<1>3. \A x, y \in Nat : y < x => <<y, x>> \in R
  OBVIOUS
<1>4. \A x, y \in Nat : ~(y < x) => x <= y
  OBVIOUS
<1> HIDE DEF R
<1> QED BY <1>2, <1>3, <1>4

\* ... hence a set that has 0 and, of each of its numbers, the next has them all.
LEMMA SetInduction ==
  ASSUME NEW S, 0 \in S, \A n \in Nat : n \in S => n + 1 \in S
  PROVE  \A n \in Nat : n \in S
<1> DEFINE T == Nat \ S
<1> SUFFICES ASSUME T # {} PROVE FALSE
  OBVIOUS
<1>1. PICK m \in T : \A k \in T : m <= k
  <2> HIDE DEF T
  <2>1. T \subseteq Nat BY DEF T
  <2> QED BY <2>1, LeastNat
<1>2. m # 0
  OBVIOUS
<1>3. m - 1 \in Nat /\ m - 1 \notin T
  BY <1>1, <1>2
<1> QED BY <1>3

-----------------------------------------------------------------------------
(***************************************************************************)
(* The lists of SELECTs.                                                   *)
(***************************************************************************)

\* The SELECTs that commands run, and those for one finding.
Steps == [section : Sections \cup Objects, table : Tables]
GapSteps == [section : Objects, table : Tables \ {"manifest.json"}]

Step(section, table) == [section |-> section, table |-> table]
Wanted(s) == {s[n] : n \in DOMAIN s}

\* Nothing comes before a SELECT for the manifest but others of its, and events
\* come after the claims about them.
ManifestFirst(s) ==
    \A m, n \in DOMAIN s :
        m < n /\ s[n].section = "manifest" => s[m].section = "manifest" /\ s[m].table # "finding"
ClaimsFirst(s) ==
    \A m, n \in DOMAIN s :
        m < n /\ s[m] = Step("timeline", "event") => s[n] # Step("timeline", "assertion")

LEMMA StepsApart ==
    \A x, y, u, v : Step(x, y) = Step(u, v) => x = u /\ y = v
<1> TAKE x, y, u, v
<1>1. /\ Step(x, y).section = x /\ Step(x, y).table = y
      /\ Step(u, v).section = u /\ Step(u, v).table = v
  BY DEF Step
<1> QED BY <1>1

LEMMA Joined ==
    ASSUME NEW S, NEW a \in Seq(S), NEW b \in Seq(S)
    PROVE  /\ a \o b \in Seq(S)
           /\ Len(a \o b) = Len(a) + Len(b)
           /\ \A n \in DOMAIN (a \o b) : \/ n \in DOMAIN a /\ (a \o b)[n] = a[n]
                                         \/ n - Len(a) \in DOMAIN b /\ n > Len(a)
                                            /\ (a \o b)[n] = b[n - Len(a)]
           /\ Wanted(a \o b) = Wanted(a) \cup Wanted(b)
<1>1. /\ a \o b \in Seq(S) /\ Len(a \o b) = Len(a) + Len(b)
      /\ DOMAIN a = 1 .. Len(a) /\ DOMAIN b = 1 .. Len(b)
      /\ DOMAIN (a \o b) = 1 .. Len(a) + Len(b)
      /\ Len(a) \in Nat /\ Len(b) \in Nat
      /\ \A n \in 1 .. Len(a) + Len(b) :
            (a \o b)[n] = IF n <= Len(a) THEN a[n] ELSE b[n - Len(a)]
  OBVIOUS
<1>2. \A n \in DOMAIN (a \o b) : \/ n \in DOMAIN a /\ (a \o b)[n] = a[n]
                                 \/ n - Len(a) \in DOMAIN b /\ n > Len(a)
                                    /\ (a \o b)[n] = b[n - Len(a)]
  BY <1>1
<1>3. \A n \in DOMAIN a : n \in DOMAIN (a \o b) /\ (a \o b)[n] = a[n]
  BY <1>1
<1>4. \A n \in DOMAIN b : n + Len(a) \in DOMAIN (a \o b) /\ (a \o b)[n + Len(a)] = b[n]
  BY <1>1
<1>5. Wanted(a \o b) = Wanted(a) \cup Wanted(b)
  <2> DEFINE c == a \o b
  <2>1. /\ \A n \in DOMAIN c : (n \in DOMAIN a /\ c[n] = a[n])
                               \/ (n - Len(a) \in DOMAIN b /\ c[n] = b[n - Len(a)])
        /\ \A n \in DOMAIN a : n \in DOMAIN c /\ c[n] = a[n]
        /\ \A n \in DOMAIN b : n + Len(a) \in DOMAIN c /\ c[n + Len(a)] = b[n]
    BY <1>2, <1>3, <1>4
  <2> HIDE DEF c
  <2>2. Wanted(c) \subseteq Wanted(a) \cup Wanted(b)
    BY <2>1 DEF Wanted
  <2>3. Wanted(a) \subseteq Wanted(c) /\ Wanted(b) \subseteq Wanted(c)
    BY <2>1 DEF Wanted
  <2>4. Wanted(c) = Wanted(a) \cup Wanted(b)
    BY <2>2, <2>3
  <2> QED BY <2>4 DEF c
<1> QED BY <1>1, <1>2, <1>5

LEMMA HeadAndTail ==
    ASSUME NEW S, NEW s \in Seq(S), s # <<>>
    PROVE  /\ Head(s) \in S /\ 1 \in DOMAIN s /\ Head(s) = s[1]
           /\ Tail(s) \in Seq(S)
           /\ \A n \in DOMAIN Tail(s) : n + 1 \in DOMAIN s /\ Tail(s)[n] = s[n + 1] /\ n >= 1
                                        /\ n \in Nat
           /\ Wanted(Tail(s)) \cup {Head(s)} = Wanted(s)
<1>1. /\ Head(s) \in S /\ 1 \in DOMAIN s /\ Head(s) = s[1]
      /\ Tail(s) \in Seq(S)
      /\ DOMAIN s = 1 .. Len(s) /\ Len(s) \in Nat
      /\ DOMAIN Tail(s) = 1 .. Len(s) - 1
      /\ \A n \in 1 .. Len(s) - 1 : Tail(s)[n] = s[n + 1]
  OBVIOUS
<1>2. \A n \in DOMAIN Tail(s) : n + 1 \in DOMAIN s /\ Tail(s)[n] = s[n + 1] /\ n >= 1
                                /\ n \in Nat
  BY <1>1
<1>3. \A n \in DOMAIN s : n = 1 \/ (n - 1 \in DOMAIN Tail(s) /\ Tail(s)[n - 1] = s[n])
  BY <1>1
<1>4. Wanted(Tail(s)) \cup {Head(s)} = Wanted(s)
  BY <1>1, <1>2, <1>3 DEF Wanted
<1> QED BY <1>1, <1>2, <1>4

\* The first SELECT is run; those for findings, if it found any, come next.
LEMMA Popped ==
    ASSUME NEW s \in Seq(Steps), s # <<>>, NEW a \in Seq(GapSteps),
           a = <<>> \/ Head(s).table = "finding",
           ManifestFirst(s), ClaimsFirst(s)
    PROVE  /\ a \o Tail(s) \in Seq(Steps)
           /\ Wanted(s) \subseteq Wanted(a \o Tail(s)) \cup {Head(s)}
           /\ Wanted(a \o Tail(s)) \subseteq Wanted(s) \cup GapSteps
           /\ ManifestFirst(a \o Tail(s)) /\ ClaimsFirst(a \o Tail(s))
           /\ Head(s).section # "manifest" =>
                 \A q \in Wanted(a \o Tail(s)) : q.section # "manifest"
           /\ Head(s) = Step("timeline", "event") =>
                 Step("timeline", "assertion") \notin Wanted(a \o Tail(s))
<1> DEFINE t == Tail(s)
           r == a \o t
<1>1. /\ Head(s) \in Steps /\ 1 \in DOMAIN s /\ Head(s) = s[1]
      /\ t \in Seq(Steps)
      /\ \A n \in DOMAIN t : n + 1 \in DOMAIN s /\ t[n] = s[n + 1] /\ n >= 1 /\ n \in Nat
      /\ Wanted(t) \cup {Head(s)} = Wanted(s)
  BY HeadAndTail
<1>2. a \in Seq(Steps)
  <2>1. GapSteps \subseteq Steps
    BY DEF GapSteps, Steps
  <2> QED BY <2>1
<1> HIDE DEF t
<1>3. /\ r \in Seq(Steps)
      /\ \A n \in DOMAIN r : \/ n \in DOMAIN a /\ r[n] = a[n]
                             \/ n - Len(a) \in DOMAIN t /\ n > Len(a) /\ r[n] = t[n - Len(a)]
      /\ Wanted(r) = Wanted(a) \cup Wanted(t)
  BY <1>1, <1>2, Joined
<1>4. Wanted(a) \subseteq GapSteps
  <2>1. \A n \in DOMAIN a : a[n] \in GapSteps
    OBVIOUS
  <2> QED BY <2>1 DEF Wanted
<1>5. \A q \in GapSteps : q.section \notin Sections
  BY ReportAssumption DEF GapSteps
<1>6. \A q \in GapSteps : q.section # "manifest" /\ q.section # "timeline"
  BY <1>5 DEF Sections
<1>7. \A x : Step("timeline", x).section = "timeline"
  BY DEF Step
<1>8. /\ Len(a) \in Nat
      /\ \A n \in DOMAIN r : n \in Nat
      /\ DOMAIN a = 1 .. Len(a)
  BY <1>3
<1> HIDE DEF r
<1>9. ASSUME NEW q \in Wanted(t)
      PROVE  \E n \in DOMAIN s : n > 1 /\ s[n] = q
  <2>1. PICK n \in DOMAIN t : t[n] = q
    BY DEF Wanted
  <2>2. n + 1 \in DOMAIN s /\ s[n + 1] = q /\ n + 1 > 1
    BY <1>1, <2>1
  <2> QED BY <2>2
<1>10. Head(s).section # "manifest" => \A q \in Wanted(r) : q.section # "manifest"
  <2> SUFFICES ASSUME Head(s).section # "manifest", NEW q \in Wanted(r), q.section = "manifest"
               PROVE  FALSE
    OBVIOUS
  <2>1. q \in Wanted(t)
    BY <1>3, <1>4, <1>6
  <2>2. PICK n \in DOMAIN s : n > 1 /\ s[n] = q
    BY <1>9, <2>1
  <2> QED BY <1>1, <2>2 DEF ManifestFirst
<1>11. Head(s) = Step("timeline", "event") => Step("timeline", "assertion") \notin Wanted(r)
  <2> SUFFICES ASSUME Head(s) = Step("timeline", "event"),
                      Step("timeline", "assertion") \in Wanted(r)
               PROVE  FALSE
    OBVIOUS
  <2>1. Step("timeline", "assertion") \in Wanted(t)
    BY <1>3, <1>4, <1>6, <1>7
  <2>2. PICK n \in DOMAIN s : n > 1 /\ s[n] = Step("timeline", "assertion")
    BY <1>9, <2>1
  <2> QED BY <1>1, <2>2 DEF ClaimsFirst
<1>12. ManifestFirst(r)
  <2> SUFFICES ASSUME NEW m \in DOMAIN r, NEW n \in DOMAIN r, m < n, r[n].section = "manifest"
               PROVE  r[m].section = "manifest" /\ r[m].table # "finding"
    BY DEF ManifestFirst
  <2>1. r[n] \in Wanted(r)
    BY DEF Wanted
  <2>2. n \notin DOMAIN a \/ r[n] # a[n]
    BY <1>4, <1>6 DEF Wanted
  <2>3. n - Len(a) \in DOMAIN t /\ r[n] = t[n - Len(a)] /\ n > Len(a)
    BY <1>3, <2>2
  <2>4. n - Len(a) + 1 \in DOMAIN s /\ s[n - Len(a) + 1] = r[n] /\ n - Len(a) + 1 > 1
        /\ n - Len(a) + 1 \in Nat
    BY <1>1, <2>3
  <2>5. s[1].section = "manifest" /\ s[1].table # "finding"
    BY <1>1, <2>4 DEF ManifestFirst
  <2>6. a = <<>>
    BY <1>1, <2>5
  <2>7. Len(a) = 0 /\ DOMAIN a = {}
    BY <2>6
  <2>8. m - Len(a) \in DOMAIN t /\ r[m] = t[m - Len(a)] /\ m > Len(a)
    BY <1>3, <2>7
  <2>9. m - Len(a) + 1 \in DOMAIN s /\ s[m - Len(a) + 1] = r[m]
    BY <1>1, <2>8
  <2>10. m - Len(a) + 1 < n - Len(a) + 1
    BY <1>8
  <2> QED BY <2>4, <2>9, <2>10 DEF ManifestFirst
<1>13. ClaimsFirst(r)
  <2> SUFFICES ASSUME NEW m \in DOMAIN r, NEW n \in DOMAIN r, m < n,
                      r[m] = Step("timeline", "event"), r[n] = Step("timeline", "assertion")
               PROVE  FALSE
    BY DEF ClaimsFirst
  <2>1. \A k \in DOMAIN a : a[k].section # "timeline"
    BY <1>4, <1>6 DEF Wanted
  <2>2. /\ m - Len(a) \in DOMAIN t /\ r[m] = t[m - Len(a)]
        /\ n - Len(a) \in DOMAIN t /\ r[n] = t[n - Len(a)]
    BY <1>3, <1>7, <2>1
  <2>3. /\ m - Len(a) + 1 \in DOMAIN s /\ s[m - Len(a) + 1] = r[m]
        /\ n - Len(a) + 1 \in DOMAIN s /\ s[n - Len(a) + 1] = r[n]
    BY <1>1, <2>2
  <2>4. m - Len(a) + 1 < n - Len(a) + 1
    BY <1>8
  <2> QED BY <2>3, <2>4 DEF ClaimsFirst
<1>14. /\ Wanted(s) \subseteq Wanted(r) \cup {Head(s)}
       /\ Wanted(r) \subseteq Wanted(s) \cup GapSteps
  BY <1>1, <1>3, <1>4
<1> QED BY <1>3, <1>10, <1>11, <1>12, <1>13, <1>14 DEF r, t

\* What can be listed.
LEMMA SelectIs ==
    ASSUME NEW section \in Sections \cup Objects, NEW tables \in Seq(Tables)
    PROVE  /\ Select(section, tables) \in Seq(Steps)
           /\ DOMAIN Select(section, tables) = DOMAIN tables
           /\ \A n \in DOMAIN tables : Select(section, tables)[n] = Step(section, tables[n])
           /\ Wanted(Select(section, tables)) = {Step(section, t) : t \in Wanted(tables)}
<1> DEFINE s == Select(section, tables)
<1>1. DOMAIN tables = 1 .. Len(tables) /\ Len(tables) \in Nat
  OBVIOUS
<1>2. DOMAIN s = DOMAIN tables /\ \A n \in DOMAIN tables : s[n] = Step(section, tables[n])
  BY DEF Select, Step
<1>3. \A n \in DOMAIN tables : tables[n] \in Tables
  OBVIOUS
<1>4. \A t \in Tables : Step(section, t) \in Steps
  BY DEF Step, Steps
<1>5. s \in Seq(Steps)
  <2>1. s = [n \in 1 .. Len(tables) |-> s[n]]
    BY <1>1 DEF Select
  <2>2. \A n \in 1 .. Len(tables) : s[n] \in Steps
    BY <1>1, <1>2, <1>3, <1>4
  <2> HIDE DEF s
  <2> QED BY <1>1, <2>1, <2>2
<1>6. Wanted(s) = {Step(section, t) : t \in Wanted(tables)}
  <2> HIDE DEF s
  <2> QED BY <1>2 DEF Wanted
<1> QED BY <1>2, <1>5, <1>6

\* find_gaps for one finding after the other.
LEMMA GapReadsIs ==
    ASSUME NEW g \in Objects
    PROVE  GapReads(g) \in Seq(GapSteps)
<1> DEFINE s == GapReads(g)
<1>1. /\ DOMAIN s = 1 .. 3
      /\ s[1] = Step(g, "event") /\ s[2] = Step(g, "evidence") /\ s[3] = Step(g, "assertion")
      /\ s = [n \in 1 .. 3 |-> s[n]]
  BY DEF GapReads, Select, Step
<1>2. \A t \in {"event", "evidence", "assertion"} : Step(g, t) \in GapSteps
  BY DEF Step, GapSteps, Tables
<1> HIDE DEF s
<1>3. \A n \in 1 .. 3 : s[n] \in GapSteps
  BY <1>1, <1>2
<1>4. s \in Seq(GapSteps)
  BY <1>1, <1>3
<1> QED BY <1>4 DEF s

\* A list of lists made one.
IsFlattened(f, s, n) == f = [i \in 1 .. n |-> IF i = 1 THEN s[i] ELSE f[i - 1] \o s[i]]

LEMMA Flattens ==
    ASSUME NEW S, NEW n \in Nat, NEW s \in [1 .. n -> Seq(S)]
    PROVE  \E f : IsFlattened(f, s, n) /\ \A i \in 1 .. n : f[i] \in Seq(S)
<1> DEFINE Holds(k, f) == /\ f = [i \in 1 .. k |-> IF i = 1 THEN s[i] ELSE f[i - 1] \o s[i]]
                          /\ \A i \in 1 .. k : f[i] \in Seq(S)
           P == {k \in Nat : k <= n => \E f : Holds(k, f)}
<1>1. 0 \in P
  <2>1. Holds(0, [i \in 1 .. 0 |-> <<>>])
    OBVIOUS
  <2> QED BY <2>1
<1>2. ASSUME NEW k \in Nat, k \in P, k + 1 <= n PROVE \E f : Holds(k + 1, f)
  <2>1. PICK f : Holds(k, f)
    <3>1. k <= n
      BY <1>2
    <3> HIDE DEF Holds
    <3> QED BY <1>2, <3>1
  <2> DEFINE next == IF k = 0 THEN s[1] ELSE f[k] \o s[k + 1]
             g == [i \in 1 .. k + 1 |-> IF i = k + 1 THEN next ELSE f[i]]
  <2>2. next \in Seq(S)
    <3>1. CASE k = 0
      <4>1. 1 \in 1 .. n
        BY <1>2
      <4> QED BY <3>1, <4>1
    <3>2. CASE k # 0
      <4>1. k \in 1 .. k /\ k + 1 \in 1 .. n
        BY <1>2, <3>2
      <4>2. f[k] \in Seq(S) /\ s[k + 1] \in Seq(S)
        BY <2>1, <4>1
      <4> QED BY <3>2, <4>2
    <3> QED BY <3>1, <3>2
  <2>3. \A i \in 1 .. k : i # k + 1 /\ i \in 1 .. k + 1 /\ (i # 1 => i - 1 \in 1 .. k)
    OBVIOUS
  <2>4. \A i \in 1 .. k : f[i] = IF i = 1 THEN s[i] ELSE f[i - 1] \o s[i]
    BY <2>1
  <2>5. \A i \in 1 .. k + 1 : g[i] = IF i = 1 THEN s[i] ELSE g[i - 1] \o s[i]
    <3> SUFFICES ASSUME NEW i \in 1 .. k + 1
                 PROVE  g[i] = IF i = 1 THEN s[i] ELSE g[i - 1] \o s[i]
      OBVIOUS
    <3>1. CASE i \in 1 .. k
      <4>1. g[i] = f[i] /\ (i # 1 => g[i - 1] = f[i - 1])
        BY <2>3, <3>1
      <4> QED BY <2>4, <3>1, <4>1
    <3>2. CASE i = k + 1
      <4>1. k # 0 => g[k] = f[k]
        BY <2>3
      <4>2. (i = 1) = (k = 0) /\ i - 1 = k
        BY <3>2
      <4>3. g[i] = next
        BY <3>2
      <4> HIDE DEF g
      <4> QED BY <3>2, <4>1, <4>2, <4>3
    <3> QED BY <3>1, <3>2
  <2>6. \A i \in 1 .. k + 1 : g[i] \in Seq(S)
    <3> HIDE DEF next
    <3> QED BY <2>1, <2>2
  <2>7. Holds(k + 1, g)
    <3>1. g = [i \in 1 .. k + 1 |-> g[i]]
      OBVIOUS
    <3> HIDE DEF g, next
    <3>2. [i \in 1 .. k + 1 |-> g[i]]
            = [i \in 1 .. k + 1 |-> IF i = 1 THEN s[i] ELSE g[i - 1] \o s[i]]
      BY <2>5
    <3> QED BY <2>6, <3>1, <3>2
  <2> QED BY <2>7
<1> HIDE DEF Holds
<1>3. \A k \in Nat : k \in P => k + 1 \in P
  BY <1>2
<1> HIDE DEF P
<1>4. n \in P
  BY <1>1, <1>3, SetInduction
<1>5. PICK f : Holds(n, f)
  BY <1>4 DEF P
<1> QED BY <1>5 DEF Holds, IsFlattened

LEMMA Flattened ==
    ASSUME NEW S, NEW n \in Nat, NEW s \in [1 .. n -> Seq(S)]
    PROVE  FlattenSeq(s) \in Seq(S)
<1>1. Len(s) = n
  OBVIOUS
<1>2. CASE n = 0
  BY <1>1, <1>2 DEF FlattenSeq
<1>3. CASE n # 0
  <2> DEFINE f == CHOOSE g : IsFlattened(g, s, n)
  <2>1. IsFlattened(f, s, n)
    BY Flattens
  <2>2. FlattenSeq(s) = f[n]
    BY <1>1, <1>3 DEF FlattenSeq, IsFlattened
  <2> HIDE DEF f
  <2> DEFINE P == {k \in Nat : k + 1 \in 1 .. n => f[k + 1] \in Seq(S)}
  <2>3. \A i \in 1 .. n : f[i] = IF i = 1 THEN s[i] ELSE f[i - 1] \o s[i]
    BY <2>1 DEF IsFlattened
  <2>4. 0 \in P
    <3>1. 0 + 1 = 1
      OBVIOUS
    <3> QED BY <2>3, <3>1
  <2>5. ASSUME NEW k \in Nat, k \in P PROVE k + 1 \in P
    <3> SUFFICES ASSUME k + 1 + 1 \in 1 .. n PROVE f[k + 1 + 1] \in Seq(S)
      OBVIOUS
    <3>1. k + 1 \in 1 .. n /\ k + 1 + 1 # 1 /\ k + 1 + 1 - 1 = k + 1
      OBVIOUS
    <3>2. f[k + 1] \in Seq(S) /\ s[k + 1 + 1] \in Seq(S)
      BY <2>5, <3>1
    <3>3. PICK i : i = k + 1 + 1
      OBVIOUS
    <3>4. i \in 1 .. n /\ i # 1 /\ i - 1 = k + 1
      BY <3>1, <3>3
    <3>5. f[i] = f[k + 1] \o s[i]
      BY <2>3, <3>4
    <3> QED BY <3>2, <3>3, <3>5
  <2> HIDE DEF P
  <2>6. \A k \in Nat : k \in P
    BY <2>4, <2>5, SetInduction
  <2>7. n - 1 \in Nat /\ n - 1 + 1 = n /\ n \in 1 .. n
    BY <1>3
  <2>8. f[n] \in Seq(S)
    BY <2>6, <2>7 DEF P
  <2> QED BY <2>2, <2>8
<1> QED BY <1>2, <1>3

\* The findings, and find_gaps for each.
Afresh(got) == FlattenSeq([n \in DOMAIN SetToSeq(got) |-> GapReads(SetToSeq(got)[n])])

LEMMA AfreshIs ==
    ASSUME NEW got, got \subseteq Objects
    PROVE  Afresh(got) \in Seq(GapSteps)
<1> DEFINE n == Cardinality(got)
           q == SetToSeq(got)
<1>1. IsFiniteSet(got) /\ n \in Nat
  BY ReportAssumption, FS_Subset, FS_CardinalityType
<1>2. q \in [1 .. n -> got]
  <2>1. \E f \in [1 .. n -> got] : IsInjective(f)
    <3>1. PICK k \in Nat : ExistsBijection(1 .. k, got)
      BY <1>1, FS_NatBijection
    <3>2. k = n
      BY <3>1, <1>1, FS_CountingElements
    <3>3. PICK f \in Bijection(1 .. n, got) : TRUE
      BY <3>1, <3>2 DEF ExistsBijection
    <3>4. f \in [1 .. n -> got] /\ IsInjective(f)
      BY <3>3 DEF Bijection, Injection
    <3> QED BY <3>4
  <2> QED BY <2>1 DEF SetToSeq
<1> HIDE DEF q
<1>3. DOMAIN q = 1 .. n
  BY <1>2
<1>4. \A k \in 1 .. n : GapReads(q[k]) \in Seq(GapSteps)
  <2> TAKE k \in 1 .. n
  <2>1. q[k] \in Objects
    BY <1>2
  <2> QED BY <2>1, GapReadsIs
<1>5. [k \in DOMAIN q |-> GapReads(q[k])] \in [1 .. n -> Seq(GapSteps)]
  BY <1>3, <1>4
<1>6. FlattenSeq([k \in DOMAIN q |-> GapReads(q[k])]) \in Seq(GapSteps)
  BY <1>1, <1>5, Flattened
<1> QED BY <1>6 DEF Afresh, q

LEMMA JoinedInOrder ==
    ASSUME NEW a \in Seq(Steps), NEW b \in Seq(Steps)
    PROVE  /\ ManifestFirst(a) /\ (\A q \in Wanted(b) : q.section # "manifest")
                 => ManifestFirst(a \o b)
           /\ ClaimsFirst(a) /\ ClaimsFirst(b)
              /\ (\/ Step("timeline", "event") \notin Wanted(a)
                  \/ Step("timeline", "assertion") \notin Wanted(b))
                 => ClaimsFirst(a \o b)
<1> DEFINE r == a \o b
<1>1. /\ \A n \in DOMAIN r : \/ n \in DOMAIN a /\ r[n] = a[n]
                             \/ n - Len(a) \in DOMAIN b /\ n > Len(a) /\ r[n] = b[n - Len(a)]
      /\ DOMAIN a = 1 .. Len(a) /\ Len(a) \in Nat
      /\ \A n \in DOMAIN r : n \in Nat
  <2>1. r \in Seq(Steps)
    BY Joined
  <2> QED BY <2>1, Joined
<1> HIDE DEF r
<1>2. ASSUME ManifestFirst(a), \A q \in Wanted(b) : q.section # "manifest"
      PROVE  ManifestFirst(r)
  <2> SUFFICES ASSUME NEW m \in DOMAIN r, NEW n \in DOMAIN r, m < n, r[n].section = "manifest"
               PROVE  r[m].section = "manifest" /\ r[m].table # "finding"
    BY DEF ManifestFirst
  <2>1. n \in DOMAIN a /\ r[n] = a[n]
    BY <1>1, <1>2 DEF Wanted
  <2>2. m \in DOMAIN a /\ r[m] = a[m]
    BY <1>1, <2>1
  <2> QED BY <1>2, <2>1, <2>2 DEF ManifestFirst
<1>3. ASSUME ClaimsFirst(a), ClaimsFirst(b),
             \/ Step("timeline", "event") \notin Wanted(a)
             \/ Step("timeline", "assertion") \notin Wanted(b)
      PROVE  ClaimsFirst(r)
  <2> DEFINE e == Step("timeline", "event")
             c == Step("timeline", "assertion")
  <2> HIDE DEF e, c
  <2> SUFFICES ASSUME NEW m \in DOMAIN r, NEW n \in DOMAIN r, m < n, r[m] = e, r[n] = c
               PROVE  FALSE
    BY DEF ClaimsFirst, e, c
  <2>1. CASE n \in DOMAIN a /\ r[n] = a[n]
    <3>1. m \in DOMAIN a /\ r[m] = a[m]
      BY <1>1, <2>1
    <3> QED BY <1>3, <2>1, <3>1 DEF ClaimsFirst, e, c
  <2>2. CASE n - Len(a) \in DOMAIN b /\ n > Len(a) /\ r[n] = b[n - Len(a)]
    <3>1. c \in Wanted(b)
      BY <2>2 DEF Wanted
    <3>2. ~(m \in DOMAIN a /\ r[m] = a[m])
      BY <1>3, <3>1 DEF Wanted, e, c
    <3>3. m - Len(a) \in DOMAIN b /\ r[m] = b[m - Len(a)]
      BY <1>1, <3>2
    <3>4. m - Len(a) < n - Len(a)
      BY <1>1
    <3> QED BY <1>3, <2>2, <3>3, <3>4 DEF ClaimsFirst, e, c
  <2> QED BY <1>1, <2>1, <2>2
<1> QED BY <1>2, <1>3 DEF r

\* The sections read the events only after the claims about them.
Later(s, wanted) ==
    s \in Seq(Steps) /\ Wanted(s) = wanted /\ ClaimsFirst(s)
    /\ \A q \in wanted : q.section # "manifest"

LEMMA OneTable ==
    ASSUME NEW section \in Sections \ {"manifest", "timeline"}, NEW table \in Tables
    PROVE  Later(Select(section, <<table>>), {Step(section, table)})
<1> DEFINE s == Select(section, <<table>>)
<1>1. <<table>> \in Seq(Tables) /\ Wanted(<<table>>) = {table}
  BY DEF Wanted
<1>2. s \in Seq(Steps) /\ Wanted(s) = {Step(section, t) : t \in {table}}
  <2> DEFINE t == <<table>>
  <2>1. t \in Seq(Tables) /\ Wanted(t) = {table}
    BY <1>1
  <2> HIDE DEF t
  <2>2. /\ Select(section, t) \in Seq(Steps)
        /\ Wanted(Select(section, t)) = {Step(section, u) : u \in Wanted(t)}
    BY <2>1, SelectIs
  <2> QED BY <2>1, <2>2 DEF t
<1>3. Wanted(s) = {Step(section, table)} /\ Step(section, table).section = section
  BY <1>2 DEF Step
<1>4. Step("timeline", "event") \notin Wanted(s)
  BY <1>3, StepsApart
<1> HIDE DEF s
<1> QED BY <1>2, <1>3, <1>4 DEF Later, ClaimsFirst, Wanted, s

LEMMA LaterJoined ==
    ASSUME NEW a, NEW b, NEW v, NEW w, Later(a, v), Later(b, w),
           Step("timeline", "assertion") \notin w
    PROVE  Later(a \o b, v \cup w)
<1>1. a \in Seq(Steps) /\ b \in Seq(Steps) /\ Wanted(a) = v /\ Wanted(b) = w
  BY DEF Later
<1>2. a \o b \in Seq(Steps) /\ Wanted(a \o b) = v \cup w
  BY <1>1, Joined
<1>3. ClaimsFirst(a \o b)
  BY <1>1, JoinedInOrder DEF Later
<1> QED BY <1>1, <1>2, <1>3 DEF Later

TimelineSteps == {Step("timeline", "assertion"), Step("timeline", "event")}

LEMMA TimelineReadsAre == Later(TimelineReads, TimelineSteps)
<1> DEFINE t == <<"assertion", "event">>
           s == Select("timeline", t)
<1>1. t \in Seq(Tables) /\ Wanted(t) = {"assertion", "event"} /\ DOMAIN t = 1 .. 2
      /\ t[1] = "assertion" /\ t[2] = "event"
  BY DEF Wanted, Tables
<1> HIDE DEF t
<1>2. /\ s \in Seq(Steps) /\ DOMAIN s = 1 .. 2
      /\ s[1] = Step("timeline", "assertion") /\ s[2] = Step("timeline", "event")
      /\ Wanted(s) = {Step("timeline", u) : u \in Wanted(t)}
  <2>1. "timeline" \in Sections \cup Objects
    BY DEF Sections
  <2> QED BY <1>1, <2>1, SelectIs
<1>3. Wanted(s) = TimelineSteps
  BY <1>1, <1>2 DEF TimelineSteps
<1>4. \A q \in TimelineSteps : q.section = "timeline"
  BY DEF TimelineSteps, Step
<1>5. Step("timeline", "assertion") # Step("timeline", "event")
  BY StepsApart
<1> HIDE DEF s
<1>6. ClaimsFirst(s)
  BY <1>2, <1>5 DEF ClaimsFirst
<1>7. \A q \in TimelineSteps : q.section # "manifest"
  BY <1>4
<1> QED BY <1>2, <1>3, <1>6, <1>7 DEF Later, s, t, TimelineReads

\* The section that shows the rows of a table that the manifest covers.
ShownIn == [evidence |-> "evidence", event |-> "timeline", assertion |-> "timeline",
            entity |-> "entities", relationship |-> "relationships",
            hypothesis |-> "hypotheses"]

\* What a command reads, from its beginning.
ReadsOK(c, s) ==
    /\ s \in Seq(Steps) /\ ManifestFirst(s) /\ ClaimsFirst(s)
    /\ Step("timeline", "assertion") \in Wanted(s) => Step("timeline", "event") \in Wanted(s)
    /\ Step("timeline", "event") \in Wanted(s) => Step("timeline", "assertion") \in Wanted(s)
    /\ \A q \in Wanted(s) : q.section = "timeline" => q \in TimelineSteps
    /\ c = "report" => \A t \in CoveredKinds :
          Step("manifest", t) \in Wanted(s) /\ Step(ShownIn[t], t) \in Wanted(s)

LEMMA LaterIs ==
    ASSUME NEW s, NEW w, Later(s, w)
    PROVE  s \in Seq(Steps) /\ Wanted(s) = w /\ ManifestFirst(s) /\ ClaimsFirst(s)
<1>1. \A n \in DOMAIN s : s[n].section # "manifest"
  BY DEF Later, Wanted
<1> QED BY <1>1 DEF Later, ManifestFirst

\* The SELECTs of the sections of a report.
SectionSteps ==
    {Step("evidence", "evidence")} \cup TimelineSteps \cup {Step("entities", "entity")}
    \cup {Step("relationships", "relationship")} \cup {Step("hypotheses", "hypothesis")}
    \cup {Step("contradictions", "assertion")} \cup {Step("tracked findings", "finding")}
    \cup {Step("tracked contradictions", "contradiction")}

LEMMA SectionReadsAre == Later(SectionReads, SectionSteps)
<1> DEFINE c == Step("timeline", "assertion")
<1>1. \A x, y : x # "timeline" => c \notin {Step(x, y)}
  BY StepsApart
<1> HIDE DEF c
<1>2. /\ "evidence" \in Sections \ {"manifest", "timeline"}
      /\ "entities" \in Sections \ {"manifest", "timeline"}
      /\ "relationships" \in Sections \ {"manifest", "timeline"}
      /\ "hypotheses" \in Sections \ {"manifest", "timeline"}
      /\ "contradictions" \in Sections \ {"manifest", "timeline"}
      /\ "tracked findings" \in Sections \ {"manifest", "timeline"}
      /\ "tracked contradictions" \in Sections \ {"manifest", "timeline"}
      /\ {"evidence", "entity", "relationship", "hypothesis", "assertion", "finding",
          "contradiction"} \subseteq Tables
  BY DEF Sections, Tables
<1> DEFINE S(x, y) == Select(x, <<y>>)
<1>3. /\ Later(S("evidence", "evidence"), {Step("evidence", "evidence")})
      /\ Later(S("entities", "entity"), {Step("entities", "entity")})
      /\ Later(S("relationships", "relationship"), {Step("relationships", "relationship")})
      /\ Later(S("hypotheses", "hypothesis"), {Step("hypotheses", "hypothesis")})
      /\ Later(S("contradictions", "assertion"), {Step("contradictions", "assertion")})
      /\ Later(S("tracked findings", "finding"), {Step("tracked findings", "finding")})
      /\ Later(S("tracked contradictions", "contradiction"),
               {Step("tracked contradictions", "contradiction")})
  BY <1>2, OneTable
<1> HIDE DEF S
<1> DEFINE s1 == S("evidence", "evidence") \o TimelineReads
           s2 == s1 \o S("entities", "entity")
           s3 == s2 \o S("relationships", "relationship")
           s4 == s3 \o S("hypotheses", "hypothesis")
           s5 == s4 \o S("contradictions", "assertion")
           s6 == s5 \o S("tracked findings", "finding")
           s7 == s6 \o S("tracked contradictions", "contradiction")
           w1 == {Step("evidence", "evidence")} \cup TimelineSteps
           w2 == w1 \cup {Step("entities", "entity")}
           w3 == w2 \cup {Step("relationships", "relationship")}
           w4 == w3 \cup {Step("hypotheses", "hypothesis")}
           w5 == w4 \cup {Step("contradictions", "assertion")}
           w6 == w5 \cup {Step("tracked findings", "finding")}
           w7 == w6 \cup {Step("tracked contradictions", "contradiction")}
<1>4. Later(s1, w1)
  <2> DEFINE a == S("evidence", "evidence")
             v == {Step("evidence", "evidence")}
  <2>1. Later(a, v) /\ Later(TimelineReads, TimelineSteps)
    BY <1>3, TimelineReadsAre
  <2>2. Step("timeline", "event") \notin v
    BY StepsApart
  <2> HIDE DEF a, v
  <2>3. a \in Seq(Steps) /\ TimelineReads \in Seq(Steps) /\ Wanted(a) = v
        /\ Wanted(TimelineReads) = TimelineSteps
    BY <2>1 DEF Later
  <2>4. a \o TimelineReads \in Seq(Steps) /\ Wanted(a \o TimelineReads) = v \cup TimelineSteps
    BY <2>3, Joined
  <2>5. ClaimsFirst(a \o TimelineReads)
    BY <2>1, <2>2, <2>3, JoinedInOrder DEF Later
  <2>6. Later(a \o TimelineReads, v \cup TimelineSteps)
    BY <2>1, <2>4, <2>5 DEF Later
  <2> QED BY <2>6 DEF a, v
<1> HIDE DEF s1, w1
<1>5. Later(s2, w2)
  BY <1>1, <1>3, <1>4, LaterJoined DEF c
<1> HIDE DEF s2, w2
<1>6. Later(s3, w3)
  BY <1>1, <1>3, <1>5, LaterJoined DEF c
<1> HIDE DEF s3, w3
<1>7. Later(s4, w4)
  BY <1>1, <1>3, <1>6, LaterJoined DEF c
<1> HIDE DEF s4, w4
<1>8. Later(s5, w5)
  BY <1>1, <1>3, <1>7, LaterJoined DEF c
<1> HIDE DEF s5, w5
<1>9. Later(s6, w6)
  BY <1>1, <1>3, <1>8, LaterJoined DEF c
<1> HIDE DEF s6, w6
<1>10. Later(s7, w7)
  BY <1>1, <1>3, <1>9, LaterJoined DEF c
<1>11. s7 = SectionReads /\ w7 = SectionSteps
  BY DEF s7, s6, s5, s4, s3, s2, s1, w7, w6, w5, w4, w3, w2, w1, S, SectionReads, SectionSteps
<1> QED BY <1>10, <1>11

LEMMA SelectInOrder ==
    ASSUME NEW section \in Sections \ {"timeline"}, NEW tables \in Seq(Tables),
           section # "manifest" \/ "finding" \notin Wanted(tables)
    PROVE  /\ Select(section, tables) \in Seq(Steps)
           /\ Wanted(Select(section, tables)) = {Step(section, t) : t \in Wanted(tables)}
           /\ \A q \in Wanted(Select(section, tables)) : q.section = section
           /\ ManifestFirst(Select(section, tables)) /\ ClaimsFirst(Select(section, tables))
<1> DEFINE s == Select(section, tables)
<1>1. /\ s \in Seq(Steps)
      /\ DOMAIN s = DOMAIN tables
      /\ \A n \in DOMAIN tables : s[n] = Step(section, tables[n])
      /\ Wanted(s) = {Step(section, t) : t \in Wanted(tables)}
  BY SelectIs
<1> HIDE DEF s
<1>2. \A t : Step(section, t).section = section /\ Step(section, t).table = t
  BY DEF Step
<1>3. \A n \in DOMAIN s : s[n].section = section /\ s[n].table \in Wanted(tables)
  BY <1>1, <1>2 DEF Wanted
<1>4. \A q \in Wanted(s) : q.section = section
  BY <1>3 DEF Wanted
<1>5. ManifestFirst(s)
  BY <1>3 DEF ManifestFirst
<1>6. ClaimsFirst(s)
  <2>1. Step("timeline", "event").section = "timeline"
    BY DEF Step
  <2>2. \A n \in DOMAIN s : s[n] # Step("timeline", "event")
    BY <1>3, <2>1
  <2> QED BY <2>2 DEF ClaimsFirst
<1> QED BY <1>1, <1>4, <1>5, <1>6 DEF s

\* What is in order, with neither claims nor events of a timeline.
LEMMA NoTimeline ==
    ASSUME NEW s \in Seq(Steps), ManifestFirst(s), ClaimsFirst(s), NEW c, c # "report",
           \A q \in Wanted(s) : q.section # "timeline"
    PROVE  ReadsOK(c, s)
<1>1. \A t : Step("timeline", t).section = "timeline"
  BY DEF Step
<1>2. \A t : Step("timeline", t) \notin Wanted(s)
  BY <1>1
<1> QED BY <1>2 DEF ReadsOK

ManifestTables == <<"evidence", "event", "entity", "relationship", "assertion",
                    "hypothesis", "manifest.json">>

LEMMA ManifestReadsAre ==
    /\ ManifestReads \in Seq(Steps) /\ ManifestFirst(ManifestReads) /\ ClaimsFirst(ManifestReads)
    /\ \A q \in Wanted(ManifestReads) : q.section = "manifest"
    /\ \A t \in CoveredKinds : Step("manifest", t) \in Wanted(ManifestReads)
<1> DEFINE k == ManifestTables
<1>1. k \in Seq(Tables)
  BY DEF Tables, ManifestTables
<1>2. DOMAIN k = 1 .. 7
  BY DEF ManifestTables
<1>3. /\ k[1] = "evidence" /\ k[2] = "event" /\ k[3] = "entity" /\ k[4] = "relationship"
      /\ k[5] = "assertion" /\ k[6] = "hypothesis" /\ k[7] = "manifest.json"
  BY DEF ManifestTables
<1> HIDE DEF k
<1>4. \A n \in 1 .. 7 : n = 1 \/ n = 2 \/ n = 3 \/ n = 4 \/ n = 5 \/ n = 6 \/ n = 7
  OBVIOUS
<1>5. "finding" \notin Wanted(k)
  BY <1>2, <1>3, <1>4 DEF Wanted
<1>6. CoveredKinds \subseteq Wanted(k)
  BY <1>2, <1>3 DEF Wanted, CoveredKinds
<1>7. "manifest" \in Sections \ {"timeline"}
  BY DEF Sections
<1>8. Select("manifest", k) = ManifestReads
  BY DEF k, ManifestTables, ManifestReads
<1> QED BY <1>1, <1>5, <1>6, <1>7, <1>8, SelectInOrder

LEMMA ReportReadsAre == ReadsOK("report", ReportReads)
<1> DEFINE a == ManifestReads
           b == SectionReads
           r == a \o b
<1>1. /\ a \in Seq(Steps) /\ ManifestFirst(a) /\ ClaimsFirst(a)
      /\ \A q \in Wanted(a) : q.section = "manifest"
      /\ \A t \in CoveredKinds : Step("manifest", t) \in Wanted(a)
  BY ManifestReadsAre
<1>2. /\ b \in Seq(Steps) /\ Wanted(b) = SectionSteps /\ ClaimsFirst(b)
      /\ \A q \in Wanted(b) : q.section # "manifest"
  BY SectionReadsAre, LaterIs DEF Later
<1> HIDE DEF a, b
<1>3. r \in Seq(Steps) /\ Wanted(r) = Wanted(a) \cup SectionSteps
  BY <1>1, <1>2, Joined
<1>4. \A t : Step("timeline", t).section = "timeline"
  BY DEF Step
<1>5. \A t : Step("timeline", t) \notin Wanted(a)
  BY <1>1, <1>4
<1>6. ManifestFirst(r) /\ ClaimsFirst(r)
  BY <1>1, <1>2, <1>5, JoinedInOrder
<1>7. Step("timeline", "assertion") \in SectionSteps /\ Step("timeline", "event") \in SectionSteps
  BY DEF SectionSteps, TimelineSteps
<1>8. \A q \in SectionSteps : q.section = "timeline" => q \in TimelineSteps
  <2>1. /\ Step("evidence", "evidence").section = "evidence"
        /\ Step("entities", "entity").section = "entities"
        /\ Step("relationships", "relationship").section = "relationships"
        /\ Step("hypotheses", "hypothesis").section = "hypotheses"
        /\ Step("contradictions", "assertion").section = "contradictions"
        /\ Step("tracked findings", "finding").section = "tracked findings"
        /\ Step("tracked contradictions", "contradiction").section = "tracked contradictions"
    BY DEF Step
  <2> SUFFICES ASSUME NEW q \in SectionSteps, q \notin TimelineSteps PROVE q.section # "timeline"
    OBVIOUS
  <2>2. \/ q = Step("evidence", "evidence") \/ q = Step("entities", "entity")
        \/ q = Step("relationships", "relationship") \/ q = Step("hypotheses", "hypothesis")
        \/ q = Step("contradictions", "assertion") \/ q = Step("tracked findings", "finding")
        \/ q = Step("tracked contradictions", "contradiction")
    BY Zenon DEF SectionSteps
  <2> QED BY <2>1, <2>2
<1>9. \A q \in Wanted(r) : q.section = "timeline" => q \in TimelineSteps
  BY <1>1, <1>3, <1>8
<1>10. \A t \in CoveredKinds : Step(ShownIn[t], t) \in SectionSteps
  <2>1. /\ ShownIn["evidence"] = "evidence" /\ ShownIn["event"] = "timeline"
        /\ ShownIn["assertion"] = "timeline" /\ ShownIn["entity"] = "entities"
        /\ ShownIn["relationship"] = "relationships" /\ ShownIn["hypothesis"] = "hypotheses"
    BY DEF ShownIn
  <2>2. /\ Step("evidence", "evidence") \in SectionSteps
        /\ Step("timeline", "event") \in SectionSteps
        /\ Step("timeline", "assertion") \in SectionSteps
        /\ Step("entities", "entity") \in SectionSteps
        /\ Step("relationships", "relationship") \in SectionSteps
        /\ Step("hypotheses", "hypothesis") \in SectionSteps
    BY Zenon DEF SectionSteps, TimelineSteps
  <2> QED BY <2>1, <2>2 DEF CoveredKinds
<1> HIDE DEF r
<1>11. ReadsOK("report", r)
  BY <1>1, <1>3, <1>6, <1>7, <1>9, <1>10 DEF ReadsOK
<1> QED BY <1>11 DEF r, a, b, ReportReads

LEMMA OverviewReadsAre == ReadsOK("overview", OverviewReads)
<1> DEFINE k == <<"evidence", "event", "entity", "relationship", "hypothesis", "finding",
                  "contradiction">>
           a == ManifestReads
           b == Select("counts", k)
           r == a \o b
<1>1. k \in Seq(Tables)
  BY DEF Tables
<1> HIDE DEF k
<1>2. "counts" \in Sections \ {"timeline"} /\ "counts" # "manifest"
  BY DEF Sections
<1>3. /\ b \in Seq(Steps) /\ ClaimsFirst(b)
      /\ \A q \in Wanted(b) : q.section = "counts"
  BY <1>1, <1>2, SelectInOrder
<1>4. /\ a \in Seq(Steps) /\ ManifestFirst(a) /\ ClaimsFirst(a)
      /\ \A q \in Wanted(a) : q.section = "manifest"
  BY ManifestReadsAre
<1> HIDE DEF a, b
<1>5. r \in Seq(Steps) /\ Wanted(r) = Wanted(a) \cup Wanted(b)
  BY <1>3, <1>4, Joined
<1>6. Step("timeline", "event").section = "timeline"
  BY DEF Step
<1>7. Step("timeline", "event") \notin Wanted(a)
  BY <1>4, <1>6
<1>8. \A q \in Wanted(b) : q.section # "manifest"
  BY <1>3
<1>9. ManifestFirst(r) /\ ClaimsFirst(r)
  BY <1>3, <1>4, <1>7, <1>8, JoinedInOrder
<1>10. \A q \in Wanted(r) : q.section # "timeline"
  BY <1>3, <1>4, <1>5
<1> HIDE DEF r
<1>11. ReadsOK("overview", r)
  BY <1>5, <1>9, <1>10, NoTimeline
<1> QED BY <1>11 DEF r, a, b, k, OverviewReads

LEMMA ReadsAre == \A c \in DOMAIN Reads : ReadsOK(c, Reads[c])
<1>1. ReadsOK("timeline", TimelineReads)
  <2>1. /\ TimelineReads \in Seq(Steps) /\ Wanted(TimelineReads) = TimelineSteps
        /\ ManifestFirst(TimelineReads) /\ ClaimsFirst(TimelineReads)
    BY TimelineReadsAre, LaterIs
  <2> QED BY <2>1 DEF ReadsOK, TimelineSteps
<1>2. ReadsOK("gaps", GapReads("gaps"))
  <2> DEFINE k == <<"event", "evidence", "assertion">>
             b == Select("gaps", k)
  <2>1. k \in Seq(Tables)
    BY DEF Tables
  <2> HIDE DEF k
  <2>2. "gaps" \in Sections \ {"timeline"} /\ "gaps" # "manifest"
    BY DEF Sections
  <2>3. /\ b \in Seq(Steps) /\ ManifestFirst(b) /\ ClaimsFirst(b)
        /\ \A q \in Wanted(b) : q.section = "gaps"
    BY <2>1, <2>2, SelectInOrder
  <2> HIDE DEF b
  <2>4. ReadsOK("gaps", b)
    BY <2>3, NoTimeline
  <2> QED BY <2>4 DEF b, k, GapReads
<1> QED BY <1>1, <1>2, ReportReadsAre, OverviewReadsAre DEF Reads

-----------------------------------------------------------------------------
(***************************************************************************)
(* What has been read, and what is still to be.                            *)
(***************************************************************************)

\* What a case holds is cited together with all that it cites.
AllCited(of) == of \subseteq Objects /\ \A o \in of : Cites[o] \subseteq of

CaseCited == /\ AllCited(rows) /\ AllCited(before)
             /\ \A o \in before : KindOf[o] \notin RevisedKinds => o \in rows
             /\ writing = "put" => AllCited(rows \cup batch)

HasTable(r, section, table) == section \in DOMAIN r /\ table \in DOMAIN r[section]

\* A command is at work, or has shown what it read.
AtWork == reading # "idle"

Listed ==
    /\ reading # "reading" => todo = <<>>
    /\ todo \in Seq(Steps) /\ ManifestFirst(todo) /\ ClaimsFirst(todo)

\* Each SELECT has got what was there when the command began, if not more.
NothingMissed ==
    \A s \in DOMAIN read : \A t \in DOMAIN read[s] \ ({"manifest.json"} \cup RevisedKinds) :
        OfKind(t, before) \subseteq read[s][t]

\* What the manifest was computed from has been read again, or what has replaced
\* it since; or it will be.
ShownAgain(t) ==
    /\ Step("manifest", t) \in Wanted(todo) => Step(ShownIn[t], t) \in Wanted(todo)
    /\ Step("manifest", t) \notin Wanted(todo) => HasTable(read, "manifest", t)
    /\ Step("manifest", t) \notin Wanted(todo) /\ Step(ShownIn[t], t) \in Wanted(todo) =>
          \A o \in read["manifest"][t] : ShownFor(o, OfKind(t, rows))
    /\ Step(ShownIn[t], t) \notin Wanted(todo) =>
          /\ HasTable(read, ShownIn[t], t)
          /\ \A o \in read["manifest"][t] : ShownFor(o, read[ShownIn[t]][t])

ManifestShown == AtWork /\ command = "report" => \A t \in CoveredKinds : ShownAgain(t)

\* The events of the claims that a timeline has read are read after them.
TimelineRead ==
    LET claims == Step("timeline", "assertion")
        events == Step("timeline", "event")
    IN /\ \A q \in Wanted(todo) : q.section = "timeline" => q \in TimelineSteps
       /\ claims \in Wanted(todo) => events \in Wanted(todo)
       /\ events \in Wanted(todo) => claims \in Wanted(todo) \/ HasTable(read, "timeline", "assertion")
       /\ "timeline" \in DOMAIN read => HasTable(read, "timeline", "assertion")
       /\ HasTable(read, "timeline", "assertion") =>
             /\ read["timeline"]["assertion"] \subseteq OfKind("assertion", rows)
             /\ events \notin Wanted(todo) =>
                   /\ HasTable(read, "timeline", "event")
                   /\ read["timeline"]["event"] \subseteq OfKind("event", rows)
                   /\ {EventOf[c] : c \in read["timeline"]["assertion"]}
                         \subseteq read["timeline"]["event"]

ReportInv == CaseCited /\ Listed /\ NothingMissed /\ ManifestShown /\ TimelineRead

\* A step of somebody else replaces what is revised, by what is in its row, and
\* keeps the rest.
RowsLast ==
    \A o \in rows : \/ o \in rows'
                    \/ /\ KindOf[o] \in RevisedKinds
                       /\ \E p \in rows' : RowOf[p] = RowOf[o] /\ KindOf[p] = KindOf[o]

LEMMA CommitLasts ==
    ASSUME rows \subseteq Objects, batch \subseteq Objects, rows' = Replaced(batch) \cup batch
    PROVE  RowsLast
<1> SUFFICES ASSUME NEW o \in rows, o \notin rows'
             PROVE  /\ KindOf[o] \in RevisedKinds
                    /\ \E p \in rows' : RowOf[p] = RowOf[o] /\ KindOf[p] = KindOf[o]
  BY DEF RowsLast
<1>1. PICK p \in batch : RowOf[p] = RowOf[o] /\ p \in rows' /\ p # o
  BY DEF Replaced
<1>2. p \in Objects /\ o \in Objects
  BY <1>1
<1>3. KindOf[p] = KindOf[RowOf[p]] /\ KindOf[o] = KindOf[RowOf[o]]
  BY <1>2, ObjectsAssumption
<1>4. KindOf[o] \in RevisedKinds
  <2>1. RowOf[o] # o \/ RowOf[p] # p
    BY <1>1
  <2>2. KindOf[o] = KindOf[p]
    BY <1>1, <1>3
  <2> QED BY <1>2, <2>1, <2>2, ObjectsAssumption
<1> QED BY <1>1, <1>3, <1>4

LEMMA WriterCites ==
    ASSUME CaseCited, WriterStep, before' = before
    PROVE  CaseCited' /\ RowsLast
<1>1. CASE BeginBatch
  <2>1. /\ rows' = rows
        /\ batch' \in Batches /\ \A o \in batch' : Cites[o] \subseteq rows \cup batch'
    BY <1>1 DEF BeginBatch
  <2>2. batch' \subseteq Objects
    BY <2>1, ObjectsAssumption
  <2> QED BY <2>1, <2>2 DEF CaseCited, AllCited, RowsLast
<1>2. CASE CommitBatch
  <2>1. /\ rows' = Replaced(batch) \cup batch /\ writing' # "put" /\ AllCited(rows \cup batch)
    BY <1>2 DEF CommitBatch, CaseCited
  <2>2. RowsLast
    BY <2>1, CommitLasts DEF AllCited
  <2>3. AllCited(rows')
    <3>1. rows' \subseteq rows \cup batch
      BY <2>1 DEF Replaced
    <3>2. \A o \in rows' : Cites[o] \subseteq rows \cup batch
      BY <2>1, <3>1 DEF AllCited
    <3>3. ASSUME NEW o \in rows', NEW p \in Cites[o] PROVE p \in rows'
      <4>1. KindOf[p] \notin RevisedKinds
        BY <2>1, <3>1, ObjectsAssumption DEF AllCited
      <4> QED BY <2>1, <2>2, <3>2, <3>3, <4>1 DEF RowsLast
    <3> QED BY <2>1, <3>1, <3>3 DEF AllCited
  <2>4. \A o \in before' : KindOf[o] \notin RevisedKinds => o \in rows'
    BY <2>2 DEF CaseCited, RowsLast
  <2>5. AllCited(before')
    BY DEF CaseCited
  <2> QED BY <2>1, <2>2, <2>3, <2>4, <2>5 DEF CaseCited
<1>3. CASE \/ Stage \/ Publish \/ Insert \/ WritePages \/ Compute \/ Truncate \/ Write
           \/ StopWriting \/ RollBackHot
  <2>1. rows' = rows /\ (writing' = "put" => writing = "put" /\ batch' = batch)
    BY <1>3 DEF Stage, Publish, Insert, WritePages, Compute, Truncate, Write, StopWriting,
                RollBackHot
  <2> QED BY <2>1 DEF CaseCited, AllCited, RowsLast
<1> QED BY <1>1, <1>2, <1>3 DEF WriterStep

LEMMA ReportInvInit == Init => ReportInv
<1> SUFFICES ASSUME Init PROVE ReportInv
  OBVIOUS
<1>1. /\ rows = Present /\ writing = "idle"
      /\ reading = "idle" /\ todo = <<>> /\ read = <<>> /\ before = {}
  BY DEF Init, InitLive, InitReport
<1>2. Wanted(todo) = {} /\ DOMAIN todo = {} /\ DOMAIN read = {} /\ todo \in Seq(Steps)
  BY <1>1 DEF Wanted
<1>3. CaseCited
  BY <1>1, ObjectsAssumption DEF CaseCited, AllCited
<1>4. Listed
  BY <1>1, <1>2 DEF Listed, ManifestFirst, ClaimsFirst
<1>5. NothingMissed /\ ManifestShown /\ TimelineRead
  BY <1>1, <1>2 DEF NothingMissed, ManifestShown, AtWork, TimelineRead, HasTable
<1> QED BY <1>3, <1>4, <1>5 DEF ReportInv

\* While a report waits, rows are added, and what is replaced is revised.
LEMMA RowsMayChange ==
    ASSUME ReportInv, CaseCited', RowsLast, Outdated
    PROVE  ReportInv'
<1>1. /\ UNCHANGED <<reading, command, todo, read, before>>
      /\ reading = "reading" => revised' = revised \cup {RowOf[o] : o \in rows \ rows'}
      /\ revised \subseteq revised'
  BY DEF Outdated
<1>2. \A t : t \notin RevisedKinds => OfKind(t, rows) \subseteq OfKind(t, rows')
  BY DEF OfKind, RowsLast
<1>3. Listed' /\ NothingMissed'
  BY <1>1 DEF ReportInv, Listed, NothingMissed
<1>4. ManifestShown'
  <2> SUFFICES ASSUME AtWork, command = "report", NEW t \in CoveredKinds PROVE ShownAgain(t)'
    BY <1>1 DEF ManifestShown, AtWork
  <2>1. ShownAgain(t)
    BY DEF ReportInv, ManifestShown
  <2>2. ASSUME NEW o, NEW of, ShownFor(o, of) PROVE ShownFor(o, of)'
    BY <1>1, <2>2 DEF ShownFor
  <2>3. ASSUME NEW o, ShownFor(o, OfKind(t, rows)), reading = "reading"
        PROVE  ShownFor(o, OfKind(t, rows))'
    <3>1. PICK p \in OfKind(t, rows) : RowOf[p] = RowOf[o] /\ (p = o \/ RowOf[o] \in revised)
      BY <2>3 DEF ShownFor
    <3>2. CASE p \in rows'
      BY <1>1, <3>1, <3>2 DEF ShownFor, OfKind
    <3>3. CASE p \notin rows'
      <4>1. PICK q \in rows' : RowOf[q] = RowOf[p] /\ KindOf[q] = KindOf[p]
        BY <3>1, <3>3 DEF RowsLast, OfKind
      <4>2. RowOf[o] \in revised'
        BY <1>1, <2>3, <3>1, <3>3 DEF OfKind
      <4> QED BY <3>1, <4>1, <4>2 DEF ShownFor, OfKind
    <3> QED BY <3>2, <3>3
  <2>4. Wanted(todo) # {} => reading = "reading"
    BY DEF ReportInv, Listed, Wanted
  <2> DEFINE m == Step("manifest", t)
             d == Step(ShownIn[t], t)
  <2>5. /\ m \in Wanted(todo) => d \in Wanted(todo)
        /\ m \notin Wanted(todo) => HasTable(read, "manifest", t)
        /\ m \notin Wanted(todo) /\ d \in Wanted(todo) =>
              \A o \in read["manifest"][t] : ShownFor(o, OfKind(t, rows))
        /\ d \notin Wanted(todo) =>
              /\ HasTable(read, ShownIn[t], t)
              /\ \A o \in read["manifest"][t] : ShownFor(o, read[ShownIn[t]][t])
    BY <2>1 DEF ShownAgain
  <2>6. UNCHANGED <<Wanted(todo), m, d, read>>
    BY <1>1 DEF Wanted
  <2>7. m \notin Wanted(todo) /\ d \in Wanted(todo) =>
           \A o \in read["manifest"][t] : ShownFor(o, OfKind(t, rows))'
    BY <2>3, <2>4, <2>5
  <2>8. d \notin Wanted(todo) => \A o \in read["manifest"][t] : ShownFor(o, read[ShownIn[t]][t])'
    BY <1>1, <2>2, <2>5
  <2> QED BY <1>1, <2>5, <2>6, <2>7, <2>8 DEF ShownAgain, HasTable
<1>5. TimelineRead'
  <2>1. OfKind("assertion", rows) \subseteq OfKind("assertion", rows')
        /\ OfKind("event", rows) \subseteq OfKind("event", rows')
    BY <1>2 DEF RevisedKinds
  <2> QED BY <1>1, <2>1 DEF ReportInv, TimelineRead, HasTable
<1> QED BY <1>3, <1>4, <1>5 DEF ReportInv

\* Neither an export nor an import adds rows.
LEMMA PortsCommitNothing ==
    ASSUME PortStep
    PROVE  UNCHANGED <<rows, writing, batch>>
  BY DEF PortStep, BeginExport, Sign, TruncateManifest, WriteManifest, ListFiles, CopyFile,
         OpenDatabase, CopyDatabase, SkipFile, FinishExport, ExportRaises, BeginImport, CreateFile, FillFile, OpenImported,
         Die, Discard, live

LEMMA BeginReadingKeeps ==
    ASSUME ReportInv, BeginReading
    PROVE  ReportInv'
<1>1. PICK c \in DOMAIN Reads : command' = c /\ todo' = Reads[c]
  BY DEF BeginReading
<1>2. /\ read' = <<>> /\ before' = rows /\ reading' = "reading"
      /\ rows' = rows /\ writing' = writing /\ batch' = batch
  BY DEF BeginReading, live
<1>3. ReadsOK(c, todo')
  BY <1>1, ReadsAre
<1>4. CaseCited'
  BY <1>2 DEF ReportInv, CaseCited
<1>5. Listed'
  BY <1>2, <1>3 DEF Listed, ReadsOK
<1>6. DOMAIN read' = {}
  BY <1>2
<1>7. NothingMissed'
  BY <1>6 DEF NothingMissed
<1>8. ManifestShown'
  <2> SUFFICES ASSUME command' = "report", NEW t \in CoveredKinds PROVE ShownAgain(t)'
    BY DEF ManifestShown
  <2>1. Step("manifest", t) \in Wanted(todo') /\ Step(ShownIn[t], t) \in Wanted(todo')
    BY <1>1, <1>3 DEF ReadsOK
  <2> QED BY <2>1 DEF ShownAgain
<1>9. TimelineRead'
  BY <1>3, <1>6 DEF TimelineRead, HasTable, ReadsOK
<1> QED BY <1>4, <1>5, <1>7, <1>8, <1>9 DEF ReportInv

\* What a SELECT adds to what has been read.
Adds(section, table, what) ==
    /\ DOMAIN read' = DOMAIN read \cup {section}
    /\ HasTable(read', section, table) /\ read'[section][table] = what
    /\ \A s, t : HasTable(read, s, t) => HasTable(read', s, t)
    /\ \A s, t : HasTable(read', s, t) => HasTable(read, s, t) \/ (s = section /\ t = table)
    /\ \A s, t : HasTable(read, s, t) /\ ~(s = section /\ t = table) => read'[s][t] = read[s][t]

LEMMA GotIs ==
    ASSUME NEW section, NEW table, NEW what, read' = Got(section, table, what)
    PROVE  Adds(section, table, what)
<1> DEFINE so_far == IF section \in DOMAIN read THEN read[section] ELSE <<>>
           now == [t \in {table} \cup DOMAIN so_far |-> IF t = table THEN what ELSE so_far[t]]
<1>1. read' = [s \in {section} \cup DOMAIN read |-> IF s = section THEN now ELSE read[s]]
  BY DEF Got
<1>2. /\ DOMAIN now = {table} \cup DOMAIN so_far /\ now[table] = what
      /\ \A t \in DOMAIN so_far : t # table => now[t] = so_far[t]
  OBVIOUS
<1> HIDE DEF now
<1>3. /\ DOMAIN read' = DOMAIN read \cup {section} /\ read'[section] = now
      /\ \A s \in DOMAIN read : s # section => read'[s] = read[s]
  BY <1>1
<1>4. section \in DOMAIN read => so_far = read[section]
  OBVIOUS
<1>5. section \notin DOMAIN read => DOMAIN so_far = {}
  OBVIOUS
<1> HIDE DEF so_far
<1>6. HasTable(read', section, table) /\ read'[section][table] = what
  BY <1>2, <1>3 DEF HasTable
<1>7. ASSUME NEW s, NEW t, HasTable(read, s, t)
      PROVE  /\ HasTable(read', s, t)
             /\ ~(s = section /\ t = table) => read'[s][t] = read[s][t]
  <2>1. CASE s = section
    BY <1>2, <1>3, <1>4, <1>7, <2>1 DEF HasTable
  <2>2. CASE s # section
    BY <1>3, <1>7, <2>2 DEF HasTable
  <2> QED BY <2>1, <2>2
<1>8. ASSUME NEW s, NEW t, HasTable(read', s, t)
      PROVE  HasTable(read, s, t) \/ (s = section /\ t = table)
  <2>1. CASE s = section
    BY <1>2, <1>3, <1>4, <1>5, <1>8, <2>1 DEF HasTable
  <2>2. CASE s # section
    BY <1>3, <1>8, <2>2 DEF HasTable
  <2> QED BY <2>1, <2>2
<1> QED BY <1>3, <1>6, <1>7, <1>8 DEF Adds

LEMMA StepIs ==
    ASSUME NEW q \in Steps
    PROVE  q = Step(q.section, q.table) /\ q.section \in Sections \cup Objects /\ q.table \in Tables
  BY DEF Steps, Step

\* The names of the sections that matter here.
LEMMA SectionNames ==
    /\ \A t \in CoveredKinds : ShownIn[t] \in Sections /\ ShownIn[t] # "manifest"
    /\ "manifest" \in Sections /\ "timeline" \in Sections
    /\ "manifest.json" \notin CoveredKinds /\ CoveredKinds \subseteq Tables
    /\ \A x, y : Step(x, y) \in GapSteps => x \notin Sections
<1>1. /\ ShownIn["evidence"] = "evidence" /\ ShownIn["event"] = "timeline"
      /\ ShownIn["assertion"] = "timeline" /\ ShownIn["entity"] = "entities"
      /\ ShownIn["relationship"] = "relationships" /\ ShownIn["hypothesis"] = "hypotheses"
  BY DEF ShownIn
<1>2. \A t \in CoveredKinds : ShownIn[t] \in Sections /\ ShownIn[t] # "manifest"
  BY <1>1 DEF CoveredKinds, Sections
<1>3. ASSUME NEW x, NEW y, Step(x, y) \in GapSteps PROVE x \notin Sections
  <2>1. Step(x, y).section = x
    BY DEF Step
  <2>2. \A q \in GapSteps : q.section \in Objects
    BY DEF GapSteps
  <2> QED BY <1>3, <2>1, <2>2, ReportAssumption
<1> QED BY <1>2, <1>3 DEF CoveredKinds, Sections, Tables

\* The list after a SELECT.
LEMMA SelectPops ==
    ASSUME CaseCited, Listed, SelectTable
    PROVE  /\ Head(todo) \in Steps /\ Head(todo).table # "manifest.json"
           /\ read' = Got(Head(todo).section, Head(todo).table, OfKind(Head(todo).table, rows))
           /\ UNCHANGED <<reading, command, before, revised, rows, writing, batch>>
           /\ reading = "reading"
           /\ Listed'
           /\ Wanted(todo) \subseteq Wanted(todo') \cup {Head(todo)}
           /\ Wanted(todo') \subseteq Wanted(todo) \cup GapSteps
           /\ Head(todo) \in Wanted(todo)
           /\ Head(todo).section # "manifest" => \A q \in Wanted(todo') : q.section # "manifest"
           /\ Head(todo) = Step("timeline", "event") =>
                 Step("timeline", "assertion") \notin Wanted(todo')
<1> DEFINE got == OfKind(Head(todo).table, rows)
           a == IF Head(todo).table = "finding" /\ command = "report"
                THEN Afresh(got) ELSE <<>>
<1>1. /\ reading = "reading" /\ todo # <<>> /\ Head(todo).table # "manifest.json"
      /\ read' = Got(Head(todo).section, Head(todo).table, got)
      /\ todo' = a \o Tail(todo)
      /\ UNCHANGED <<reading, command, before, revised, rows, writing, batch>>
  BY DEF SelectTable, Afresh, live
<1>2. got \subseteq Objects
  BY DEF CaseCited, AllCited, OfKind
<1> HIDE DEF got
<1>3. a \in Seq(GapSteps) /\ (a = <<>> \/ Head(todo).table = "finding")
  BY <1>2, AfreshIs
<1>4. todo \in Seq(Steps) /\ ManifestFirst(todo) /\ ClaimsFirst(todo)
  BY DEF Listed
<1>5. Head(todo) \in Steps /\ Head(todo) \in Wanted(todo)
  BY <1>1, <1>4, HeadAndTail
<1> HIDE DEF a
<1>6. /\ todo' \in Seq(Steps)
      /\ Wanted(todo) \subseteq Wanted(todo') \cup {Head(todo)}
      /\ Wanted(todo') \subseteq Wanted(todo) \cup GapSteps
      /\ ManifestFirst(todo') /\ ClaimsFirst(todo')
      /\ Head(todo).section # "manifest" => \A q \in Wanted(todo') : q.section # "manifest"
      /\ Head(todo) = Step("timeline", "event") =>
            Step("timeline", "assertion") \notin Wanted(todo')
  BY <1>1, <1>3, <1>4, Popped
<1>7. Listed'
  BY <1>1, <1>6 DEF Listed
<1> QED BY <1>1, <1>5, <1>6, <1>7 DEF got

LEMMA SelectKeeps ==
    ASSUME ReportInv, SelectTable
    PROVE  ReportInv'
<1> DEFINE q == Head(todo)
           s == q.section
           k == q.table
<1>1. /\ q \in Steps /\ k # "manifest.json"
      /\ read' = Got(s, k, OfKind(k, rows))
      /\ UNCHANGED <<reading, command, before, revised, rows, writing, batch>>
      /\ reading = "reading"
      /\ Listed'
      /\ Wanted(todo) \subseteq Wanted(todo') \cup {q}
      /\ Wanted(todo') \subseteq Wanted(todo) \cup GapSteps
      /\ q \in Wanted(todo)
      /\ s # "manifest" => \A r \in Wanted(todo') : r.section # "manifest"
      /\ q = Step("timeline", "event") =>
            Step("timeline", "assertion") \notin Wanted(todo')
  BY SelectPops DEF ReportInv
<1>2. q = Step(s, k) /\ s \in Sections \cup Objects
  BY <1>1, StepIs
<1> HIDE DEF q
<1>3. /\ DOMAIN read' = DOMAIN read \cup {s}
      /\ HasTable(read', s, k) /\ read'[s][k] = OfKind(k, rows)
      /\ \A x, t : HasTable(read, x, t) => HasTable(read', x, t)
      /\ \A x, t : HasTable(read', x, t) => HasTable(read, x, t) \/ (x = s /\ t = k)
      /\ \A x, t : HasTable(read, x, t) /\ ~(x = s /\ t = k) => read'[x][t] = read[x][t]
  <2>1. Adds(s, k, OfKind(k, rows))
    BY <1>1, GotIs
  <2> QED BY <2>1 DEF Adds
<1>4. \A x, t : Step(x, t) = q <=> x = s /\ t = k
  BY <1>2, StepsApart
<1>5. \A x \in Sections, t \in Tables :
         /\ Step(x, t) \in Wanted(todo') => Step(x, t) \in Wanted(todo)
         /\ Step(x, t) \in Wanted(todo) => Step(x, t) \in Wanted(todo') \/ (x = s /\ t = k)
  BY <1>1, <1>4, SectionNames
<1>6. CaseCited'
  BY <1>1 DEF ReportInv, CaseCited
<1>7. NothingMissed'
  <2> SUFFICES ASSUME NEW x \in DOMAIN read', NEW t \in DOMAIN read'[x],
                      t \notin {"manifest.json"} \cup RevisedKinds
               PROVE  OfKind(t, before) \subseteq read'[x][t]
    BY <1>1 DEF NothingMissed
  <2>1. CASE x = s /\ t = k
    <3>1. OfKind(k, before) \subseteq OfKind(k, rows)
      BY <2>1 DEF ReportInv, CaseCited, OfKind
    <3> QED BY <1>3, <2>1, <3>1
  <2>2. CASE ~(x = s /\ t = k)
    <3>1. HasTable(read', x, t)
      BY DEF HasTable
    <3>2. HasTable(read, x, t) /\ read'[x][t] = read[x][t]
      BY <1>3, <2>2, <3>1
    <3> QED BY <3>2 DEF ReportInv, NothingMissed, HasTable
  <2> QED BY <2>1, <2>2
<1>8. ManifestShown'
  <2> SUFFICES ASSUME command = "report", NEW t \in CoveredKinds PROVE ShownAgain(t)'
    BY <1>1 DEF ManifestShown
  <2>1. ShownAgain(t)
    BY <1>1 DEF ReportInv, ManifestShown, AtWork
  <2> DEFINE x == ShownIn[t]
             m == Step("manifest", t)
             d == Step(x, t)
  <2>2. x \in Sections /\ x # "manifest" /\ "manifest" \in Sections /\ t \in Tables
    BY SectionNames
  <2> HIDE DEF x
  <2>3. /\ m \in Wanted(todo') => m \in Wanted(todo)
        /\ d \in Wanted(todo') => d \in Wanted(todo)
        /\ m \in Wanted(todo) => m \in Wanted(todo') \/ ("manifest" = s /\ t = k)
        /\ d \in Wanted(todo) => d \in Wanted(todo') \/ (x = s /\ t = k)
    BY <1>5, <2>2
  <2>4. m.section = "manifest"
    BY DEF Step
  <2> HIDE DEF m, d
  <2>5. /\ m \in Wanted(todo) => d \in Wanted(todo)
        /\ m \notin Wanted(todo) => HasTable(read, "manifest", t)
        /\ m \notin Wanted(todo) /\ d \in Wanted(todo) =>
              \A o \in read["manifest"][t] : ShownFor(o, OfKind(t, rows))
        /\ d \notin Wanted(todo) =>
              HasTable(read, x, t) /\ \A o \in read["manifest"][t] : ShownFor(o, read[x][t])
    BY <2>1 DEF ShownAgain, x, m, d
  <2>6. CASE s = "manifest" /\ k = t
    <3>1. d \in Wanted(todo) => d \in Wanted(todo')
      BY <2>2, <2>3, <2>6
    <3>2. m \in Wanted(todo)
      BY <1>1, <1>4, <2>6 DEF m
    <3>3. d \in Wanted(todo')
      BY <2>5, <3>1, <3>2
    <3>4. HasTable(read', "manifest", t) /\ read'["manifest"][t] = OfKind(t, rows)
      BY <1>3, <2>6
    <3>5. \A o \in OfKind(t, rows) : ShownFor(o, OfKind(t, rows))'
      BY <1>1 DEF ShownFor
    <3> QED BY <1>1, <3>3, <3>4, <3>5 DEF ShownAgain, m, d, x
  <2>7. CASE s = x /\ k = t
    <3>1. m \notin Wanted(todo')
      BY <1>1, <2>2, <2>4, <2>7
    <3>2. m \notin Wanted(todo)
      BY <2>2, <2>3, <2>7, <3>1
    <3>3. /\ HasTable(read, "manifest", t)
          /\ HasTable(read', "manifest", t) /\ read'["manifest"][t] = read["manifest"][t]
      BY <1>3, <2>2, <2>5, <2>7, <3>2
    <3>4. HasTable(read', x, t) /\ read'[x][t] = OfKind(t, rows)
      BY <1>3, <2>7
    <3>5. d \in Wanted(todo)
      BY <1>1, <1>4, <2>7 DEF d
    <3>6. \A o \in read["manifest"][t] : ShownFor(o, OfKind(t, rows))'
      BY <1>1, <2>5, <3>2, <3>5 DEF ShownFor, OfKind
    <3>7. \A o \in read["manifest"][t] : ShownFor(o, read[x][t])'
      BY <1>1, <3>4, <3>6 DEF ShownFor, OfKind, x
    <3> QED BY <1>1, <3>1, <3>3, <3>4, <3>6, <3>7 DEF ShownAgain, m, d, x
  <2>8. CASE ~(s = "manifest" /\ k = t) /\ ~(s = x /\ k = t)
    <3>1. /\ m \in Wanted(todo') <=> m \in Wanted(todo)
          /\ d \in Wanted(todo') <=> d \in Wanted(todo)
      BY <2>3, <2>8
    <3>2. HasTable(read, "manifest", t) => HasTable(read', "manifest", t) /\ read'["manifest"][t] = read["manifest"][t]
      BY <1>3, <2>8
    <3>3. HasTable(read, x, t) => HasTable(read', x, t) /\ read'[x][t] = read[x][t]
      BY <1>3, <2>8
    <3>4. d \notin Wanted(todo) => m \notin Wanted(todo)
      BY <2>5
    <3>5. m \notin Wanted(todo) /\ d \in Wanted(todo) =>
             \A o \in read'["manifest"][t] : ShownFor(o, OfKind(t, rows))'
      BY <1>1, <2>5, <3>2 DEF ShownFor, OfKind
    <3>6. d \notin Wanted(todo) => \A o \in read'["manifest"][t] : ShownFor(o, read[x][t])'
      BY <1>1, <2>5, <3>2, <3>3, <3>4 DEF ShownFor
    <3> QED BY <1>1, <2>5, <3>1, <3>2, <3>3, <3>4, <3>5, <3>6 DEF ShownAgain, m, d, x
  <2> QED BY <2>6, <2>7, <2>8
<1>9. TimelineRead'
  <2> DEFINE c == Step("timeline", "assertion")
             e == Step("timeline", "event")
             Taken == HasTable(read, "timeline", "assertion")
  <2>1. /\ \A r \in Wanted(todo) : r.section = "timeline" => r \in TimelineSteps
        /\ c \in Wanted(todo) => e \in Wanted(todo)
        /\ e \in Wanted(todo) => c \in Wanted(todo) \/ Taken
        /\ "timeline" \in DOMAIN read => Taken
        /\ Taken =>
             /\ read["timeline"]["assertion"] \subseteq OfKind("assertion", rows)
             /\ e \notin Wanted(todo) =>
                   /\ HasTable(read, "timeline", "event")
                   /\ read["timeline"]["event"] \subseteq OfKind("event", rows)
                   /\ {EventOf[z] : z \in read["timeline"]["assertion"]}
                         \subseteq read["timeline"]["event"]
    BY DEF ReportInv, TimelineRead
  <2>2. /\ c \in Wanted(todo') => c \in Wanted(todo)
        /\ e \in Wanted(todo') => e \in Wanted(todo)
        /\ c \in Wanted(todo) => c \in Wanted(todo') \/ ("timeline" = s /\ "assertion" = k)
        /\ e \in Wanted(todo) => e \in Wanted(todo') \/ ("timeline" = s /\ "event" = k)
    BY <1>5 DEF Sections, Tables
  <2>3. \A r \in Wanted(todo') : r.section = "timeline" => r \in TimelineSteps
    <3>1. \A r \in GapSteps : r.section # "timeline"
      BY ReportAssumption DEF GapSteps, Sections
    <3> QED BY <1>1, <2>1, <3>1
  <2>4. s = "timeline" => k \in {"assertion", "event"}
    <3>1. s = "timeline" => q \in {c, e}
      BY <1>1, <2>1 DEF TimelineSteps
    <3> QED BY <1>2, <3>1, StepsApart
  <2> HIDE DEF c, e
  <2>5. CASE s = "timeline" /\ k = "assertion"
    <3>1. e \in Wanted(todo')
      BY <1>1, <1>2, <2>1, <2>2, <2>5 DEF c
    <3>2. Taken' /\ read'["timeline"]["assertion"] = OfKind("assertion", rows)
      BY <1>3, <2>5
    <3> QED BY <1>1, <2>3, <3>1, <3>2 DEF TimelineRead, c, e
  <2>6. CASE s = "timeline" /\ k = "event"
    <3>1. c \notin Wanted(todo')
      BY <1>1, <1>2, <2>6 DEF c, e
    <3>2. Taken
      BY <1>1, <1>2, <2>1, <2>2, <2>6, <3>1 DEF e
    <3>3. /\ Taken' /\ read'["timeline"]["assertion"] = read["timeline"]["assertion"]
          /\ HasTable(read', "timeline", "event") /\ read'["timeline"]["event"] = OfKind("event", rows)
      BY <1>3, <2>6, <3>2
    <3>4. \A z \in OfKind("assertion", rows) : EventOf[z] \in OfKind("event", rows)
      <4> SUFFICES ASSUME NEW z \in OfKind("assertion", rows)
                   PROVE  EventOf[z] \in OfKind("event", rows)
        OBVIOUS
      <4>1. rows \subseteq Objects /\ Cites[z] \subseteq rows
        BY DEF ReportInv, CaseCited, AllCited, OfKind
      <4>2. z \in OfKind("assertion", Objects)
        BY <4>1 DEF OfKind
      <4>3. EventOf[z] \in OfKind("event", Cites[z])
        BY <4>2, ReportAssumption
      <4> QED BY <4>1, <4>3 DEF OfKind
    <3>5. {EventOf[z] : z \in read["timeline"]["assertion"]} \subseteq OfKind("event", rows)
      BY <2>1, <3>2, <3>4
    <3> QED BY <1>1, <2>1, <2>3, <3>1, <3>2, <3>3, <3>5 DEF TimelineRead, c, e
  <2>7. CASE s # "timeline"
    <3>1. /\ c \in Wanted(todo') <=> c \in Wanted(todo)
          /\ e \in Wanted(todo') <=> e \in Wanted(todo)
      BY <2>2, <2>7
    <3>2. /\ Taken' <=> Taken
          /\ Taken => read'["timeline"]["assertion"] = read["timeline"]["assertion"]
          /\ HasTable(read, "timeline", "event") =>
                HasTable(read', "timeline", "event") /\ read'["timeline"]["event"] = read["timeline"]["event"]
      BY <1>3, <2>7
    <3>3. "timeline" \in DOMAIN read' => "timeline" \in DOMAIN read
      BY <1>3, <2>7
    <3> QED BY <1>1, <2>1, <2>3, <3>1, <3>2, <3>3 DEF TimelineRead, c, e
  <2> QED BY <2>4, <2>5, <2>6, <2>7
<1> QED BY <1>1, <1>6, <1>7, <1>8, <1>9 DEF ReportInv

LEMMA LoadKeeps ==
    ASSUME ReportInv, LoadRecorded
    PROVE  ReportInv'
<1> DEFINE q == Head(todo)
<1>1. /\ reading = "reading" /\ todo # <<>> /\ q.table = "manifest.json"
      /\ read' = Got("manifest", "manifest.json", manifest)
      /\ todo' = Tail(todo)
      /\ UNCHANGED <<reading, command, before, revised, rows, writing, batch>>
  BY DEF LoadRecorded, live
<1>2. todo \in Seq(Steps) /\ ManifestFirst(todo) /\ ClaimsFirst(todo)
  BY DEF ReportInv, Listed
<1>3. q \in Steps
  BY <1>1, <1>2, HeadAndTail
<1>4. <<>> \in Seq(GapSteps) /\ <<>> \o Tail(todo) = Tail(todo)
  <2>1. Tail(todo) \in Seq(Steps)
    BY <1>1, <1>2, HeadAndTail
  <2> QED BY <2>1
<1>5. /\ todo' \in Seq(Steps)
      /\ Wanted(todo) \subseteq Wanted(todo') \cup {q}
      /\ Wanted(todo') \subseteq Wanted(todo) \cup GapSteps
      /\ ManifestFirst(todo') /\ ClaimsFirst(todo')
  <2> DEFINE a == <<>>
  <2>1. a \in Seq(GapSteps) /\ a = <<>> /\ a \o Tail(todo) = todo'
    BY <1>1, <1>4
  <2> HIDE DEF a
  <2>2. /\ a \o Tail(todo) \in Seq(Steps)
        /\ Wanted(todo) \subseteq Wanted(a \o Tail(todo)) \cup {q}
        /\ Wanted(a \o Tail(todo)) \subseteq Wanted(todo) \cup GapSteps
        /\ ManifestFirst(a \o Tail(todo)) /\ ClaimsFirst(a \o Tail(todo))
    BY <1>1, <1>2, <2>1, Popped
  <2> QED BY <2>1, <2>2
<1>6. Adds("manifest", "manifest.json", manifest)
  BY <1>1, GotIs
<1>7. \A x, t : Step(x, t) = q => t = "manifest.json"
  <2>1. \A x, t : Step(x, t).table = t
    BY DEF Step
  <2> QED BY <1>1, <2>1
<1> HIDE DEF q
<1>8. \A x \in Sections, t \in Tables \ {"manifest.json"} :
         Step(x, t) \in Wanted(todo') <=> Step(x, t) \in Wanted(todo)
  BY <1>5, <1>7, SectionNames
<1>9. \A x, t : HasTable(read, x, t) /\ t # "manifest.json" =>
                   HasTable(read', x, t) /\ read'[x][t] = read[x][t]
  BY <1>6 DEF Adds
<1>10. \A x, t : HasTable(read', x, t) /\ t # "manifest.json" => HasTable(read, x, t)
  BY <1>6 DEF Adds
<1>11. CaseCited' /\ Listed'
  BY <1>1, <1>5 DEF ReportInv, CaseCited, Listed
<1>12. NothingMissed'
  <2> SUFFICES ASSUME NEW x \in DOMAIN read', NEW t \in DOMAIN read'[x],
                      t \notin {"manifest.json"} \cup RevisedKinds
               PROVE  OfKind(t, before) \subseteq read'[x][t]
    BY <1>1 DEF NothingMissed
  <2>1. HasTable(read', x, t)
    BY DEF HasTable
  <2>2. HasTable(read, x, t) /\ read'[x][t] = read[x][t]
    BY <1>9, <1>10, <2>1
  <2> QED BY <2>2 DEF ReportInv, NothingMissed, HasTable
<1>13. ManifestShown'
  <2> SUFFICES ASSUME command = "report", NEW t \in CoveredKinds PROVE ShownAgain(t)'
    BY <1>1 DEF ManifestShown
  <2>1. ShownAgain(t)
    BY <1>1 DEF ReportInv, ManifestShown, AtWork
  <2>2. /\ t \in Tables \ {"manifest.json"} /\ ShownIn[t] \in Sections /\ "manifest" \in Sections
    BY SectionNames
  <2>3. /\ Step("manifest", t) \in Wanted(todo') <=> Step("manifest", t) \in Wanted(todo)
        /\ Step(ShownIn[t], t) \in Wanted(todo') <=> Step(ShownIn[t], t) \in Wanted(todo)
    BY <1>8, <2>2
  <2>4. /\ HasTable(read, "manifest", t) => HasTable(read', "manifest", t)
                                           /\ read'["manifest"][t] = read["manifest"][t]
        /\ HasTable(read, ShownIn[t], t) => HasTable(read', ShownIn[t], t)
                                           /\ read'[ShownIn[t]][t] = read[ShownIn[t]][t]
    BY <1>9, <2>2
  <2> DEFINE m == Step("manifest", t)
             x == ShownIn[t]
             d == Step(x, t)
  <2> HIDE DEF x
  <2>5. /\ m \in Wanted(todo) => d \in Wanted(todo)
        /\ m \notin Wanted(todo) => HasTable(read, "manifest", t)
        /\ m \notin Wanted(todo) /\ d \in Wanted(todo) =>
              \A o \in read["manifest"][t] : ShownFor(o, OfKind(t, rows))
        /\ d \notin Wanted(todo) =>
              HasTable(read, x, t) /\ \A o \in read["manifest"][t] : ShownFor(o, read[x][t])
    BY <2>1 DEF ShownAgain, x
  <2>6. m \notin Wanted(todo) /\ d \in Wanted(todo) =>
           \A o \in read'["manifest"][t] : ShownFor(o, OfKind(t, rows))'
    BY <1>1, <2>4, <2>5 DEF ShownFor, OfKind
  <2>7. d \notin Wanted(todo) => \A o \in read'["manifest"][t] : ShownFor(o, read[x][t])'
    BY <1>1, <2>4, <2>5 DEF ShownFor, x
  <2> QED BY <1>1, <2>3, <2>4, <2>5, <2>6, <2>7 DEF ShownAgain, x
<1>14. TimelineRead'
  <2> DEFINE c == Step("timeline", "assertion")
             e == Step("timeline", "event")
  <2>1. /\ c \in Wanted(todo') <=> c \in Wanted(todo)
        /\ e \in Wanted(todo') <=> e \in Wanted(todo)
    BY <1>8 DEF Sections, Tables
  <2>2. \A r \in Wanted(todo') : r.section = "timeline" => r \in TimelineSteps
    <3>1. \A r \in GapSteps : r.section # "timeline"
      BY ReportAssumption DEF GapSteps, Sections
    <3> QED BY <1>5, <3>1 DEF ReportInv, TimelineRead
  <2>3. /\ HasTable(read, "timeline", "assertion") =>
              HasTable(read', "timeline", "assertion")
              /\ read'["timeline"]["assertion"] = read["timeline"]["assertion"]
        /\ HasTable(read, "timeline", "event") =>
              HasTable(read', "timeline", "event")
              /\ read'["timeline"]["event"] = read["timeline"]["event"]
        /\ HasTable(read', "timeline", "assertion") => HasTable(read, "timeline", "assertion")
    BY <1>9, <1>10
  <2>4. "timeline" \in DOMAIN read' => "timeline" \in DOMAIN read
    BY <1>6 DEF Adds
  <2> HIDE DEF c, e
  <2> QED BY <1>1, <2>1, <2>2, <2>3, <2>4 DEF ReportInv, TimelineRead, c, e
<1> QED BY <1>11, <1>12, <1>13, <1>14 DEF ReportInv

LEMMA ShowKeeps ==
    ASSUME ReportInv, Show \/ WriteOutput
    PROVE  ReportInv'
<1>1. /\ reading # "idle" /\ todo = <<>>
      /\ UNCHANGED <<command, todo, read, before, revised, rows, writing, batch>>
      /\ reading' # "idle"
  BY DEF Show, WriteOutput, live, ReportInv, Listed
<1>2. CaseCited' /\ NothingMissed' /\ TimelineRead'
  BY <1>1 DEF ReportInv, CaseCited, NothingMissed, TimelineRead
<1>3. Listed'
  BY <1>1 DEF ReportInv, Listed
<1>4. ManifestShown'
  BY <1>1 DEF ReportInv, ManifestShown, AtWork, ShownAgain, ShownFor, OfKind
<1> QED BY <1>2, <1>3, <1>4 DEF ReportInv

LEMMA StopKeepsReport ==
    ASSUME ReportInv, StopReading
    PROVE  ReportInv'
<1>1. /\ reading' = "idle" /\ todo' = <<>> /\ read' = <<>>
      /\ UNCHANGED <<before, rows, writing, batch>>
  BY DEF StopReading, live
<1>2. Wanted(todo') = {} /\ DOMAIN todo' = {} /\ DOMAIN read' = {} /\ todo' \in Seq(Steps)
  BY <1>1 DEF Wanted
<1>3. CaseCited'
  BY <1>1 DEF ReportInv, CaseCited
<1>4. Listed'
  BY <1>1, <1>2 DEF Listed, ManifestFirst, ClaimsFirst
<1>5. NothingMissed' /\ ManifestShown' /\ TimelineRead'
  BY <1>1, <1>2 DEF NothingMissed, ManifestShown, AtWork, TimelineRead, HasTable
<1> QED BY <1>3, <1>4, <1>5 DEF ReportInv

LEMMA ReportInvNext == ReportInv /\ [Next]_vars => ReportInv'
<1> SUFFICES ASSUME ReportInv, [Next]_vars PROVE ReportInv'
  OBVIOUS
<1>1. CASE UNCHANGED <<live, report>>
  <2>1. CaseCited' /\ RowsLast /\ Outdated
    BY <1>1 DEF live, report, ReportInv, CaseCited, RowsLast, Outdated
  <2> QED BY <2>1, RowsMayChange
<1>2. CASE WriterStep /\ Outdated
  BY <1>2, WriterCites, RowsMayChange DEF ReportInv, Outdated
<1>3. CASE PortStep /\ UNCHANGED report
  <2>1. CaseCited' /\ RowsLast /\ Outdated
    BY <1>3, PortsCommitNothing DEF report, ReportInv, CaseCited, RowsLast, Outdated
  <2> QED BY <2>1, RowsMayChange
<1>4. CASE ReadStep
  BY <1>4, BeginReadingKeeps, SelectKeeps, LoadKeeps, ShowKeeps, StopKeepsReport DEF ReadStep
<1> QED BY <1>1, <1>2, <1>3, <1>4 DEF Next, vars

LEMMA ReportInvariant == Spec => []ReportInv
  BY ReportInvInit, ReportInvNext, PTL DEF Spec

\* Whatever is committed while a report is put together, a verdict MATCH is about
\* rows that it displays, as the manifest covers them or as what has replaced them
\* since the report began (render_report, compute_manifest, put_hypothesis).
THEOREM MatchesAreDisplayed == Spec => []MatchIsDisplayed
<1>1. ReportInv => MatchIsDisplayed
  <2> SUFFICES ASSUME ReportInv, reading = "shown", command = "report", Verdict = "MATCH",
                      NEW o \in read["manifest"]["manifest.json"].covers
               PROVE  ShownFor(o, Displayed)
    BY DEF MatchIsDisplayed
  <2>1. todo = <<>> /\ Wanted(todo) = {}
    BY DEF ReportInv, Listed, Wanted
  <2>2. read["manifest"]["manifest.json"].covers
           = UNION {read["manifest"][t] : t \in CoveredKinds}
    BY DEF Verdict
  <2>3. PICK t \in CoveredKinds : o \in read["manifest"][t]
    BY <2>2
  <2> DEFINE s == ShownIn[t]
  <2>4. HasTable(read, s, t) /\ ShownFor(o, read[s][t])
    BY <2>1, <2>3 DEF ReportInv, ManifestShown, AtWork, ShownAgain
  <2>5. s \in DOMAIN read \ {"manifest"} /\ t \in DOMAIN read[s]
    BY <2>4, SectionNames DEF HasTable
  <2> HIDE DEF s
  <2>6. read[s][t] \subseteq Shown(s)
    BY <2>5 DEF Shown, Range
  <2>7. Shown(s) \subseteq Displayed
    BY <2>5 DEF Displayed
  <2> QED BY <2>4, <2>6, <2>7 DEF ShownFor
<1> QED BY <1>1, ReportInvariant, PTL

\* A finite set of numbers has a least one.
LEMMA LeastOf ==
    ASSUME NEW S \in SUBSET Int, IsFiniteSet(S), S # {}
    PROVE  Min(S) \in S /\ \A y \in S : Min(S) <= y
<1> DEFINE HasLeast(T) == \E m \in T : \A y \in T : m <= y
           P == {k \in Nat : \A T \in SUBSET S : Cardinality(T) = k + 1 => HasLeast(T)}
<1>1. \A T \in SUBSET S : IsFiniteSet(T) /\ Cardinality(T) \in Nat
  BY FS_Subset, FS_CardinalityType
<1>2. 0 \in P
  <2> SUFFICES ASSUME NEW T \in SUBSET S, Cardinality(T) = 0 + 1 PROVE HasLeast(T)
    OBVIOUS
  <2>1. PICK x : T = {x}
    <3>1. Cardinality(T) = 1
      OBVIOUS
    <3> QED BY <1>1, <3>1, FS_Singleton
  <2>2. x \in Int
    BY <2>1
  <2> QED BY <2>1, <2>2
<1>3. ASSUME NEW k \in Nat, k \in P PROVE k + 1 \in P
  <2> SUFFICES ASSUME NEW T \in SUBSET S, Cardinality(T) = (k + 1) + 1 PROVE HasLeast(T)
    OBVIOUS
  <2>1. IsFiniteSet(T) /\ T # {}
    <3>1. IsFiniteSet(T) /\ Cardinality(T) # 0
      BY <1>1
    <3> QED BY <3>1, FS_EmptySet
  <2>2. PICK x \in T : TRUE
    BY <2>1
  <2>3. Cardinality(T \ {x}) = Cardinality(T) - 1
    BY <2>1, FS_RemoveElement
  <2>4. T \ {x} \in SUBSET S /\ Cardinality(T \ {x}) = k + 1
    BY <2>3
  <2>5. PICK m \in T \ {x} : \A y \in T \ {x} : m <= y
    BY <1>3, <2>4
  <2>6. x \in Int /\ m \in Int /\ \A y \in T : y \in Int
    OBVIOUS
  <2>7. CASE x <= m
    <3>1. \A y \in T : x <= y
      BY <2>5, <2>6, <2>7
    <3> QED BY <3>1
  <2>8. CASE m <= x
    <3>1. \A y \in T : m <= y
      BY <2>5, <2>6, <2>8
    <3> QED BY <3>1
  <2> QED BY <2>6, <2>7, <2>8
<1> HIDE DEF P
<1>4. \A k \in Nat : k \in P
  BY <1>2, <1>3, SetInduction
<1>5. Cardinality(S) - 1 \in Nat /\ (Cardinality(S) - 1) + 1 = Cardinality(S)
  <2>1. Cardinality(S) \in Nat /\ Cardinality(S) # 0
    BY <1>1, FS_EmptySet
  <2> QED BY <2>1
<1>6. HasLeast(S)
  BY <1>4, <1>5 DEF P
<1> QED BY <1>6 DEF Min

\* R orders any two members of S one way.
IsOrder(R, S) ==
    /\ \A x \in S : <<x, x>> \notin R
    /\ \A x, y \in S : x # y => <<x, y>> \in R \/ <<y, x>> \in R
    /\ \A x, y, z \in S : <<x, y>> \in R /\ <<y, z>> \in R => <<x, z>> \in R

\* The members of a finite set, numbered in that order.
RankIn(S, R, x) == Cardinality({y \in S : <<y, x>> \in R}) + 1

LEMMA Ranks ==
    ASSUME NEW S, IsFiniteSet(S), NEW R, IsOrder(R, S)
    PROVE  /\ \A x \in S : RankIn(S, R, x) \in 1 .. Cardinality(S)
           /\ \A i \in 1 .. Cardinality(S) : \E x \in S : RankIn(S, R, x) = i
           /\ \A x, y \in S : RankIn(S, R, x) = RankIn(S, R, y) => x = y
           /\ \A x, y \in S : RankIn(S, R, x) < RankIn(S, R, y) => <<x, y>> \in R
<1> DEFINE below(x) == {y \in S : <<y, x>> \in R}
           n == Cardinality(S)
           f == [x \in S |-> RankIn(S, R, x)]
           I == {f[x] : x \in S}
<1>1. n \in Nat
  BY FS_CardinalityType
<1>2. ASSUME NEW T \in SUBSET S PROVE IsFiniteSet(T) /\ Cardinality(T) \in Nat
  BY FS_Subset, FS_CardinalityType
<1>3. ASSUME NEW x \in S
      PROVE  /\ below(x) \in SUBSET S /\ x \notin below(x)
             /\ Cardinality(below(x) \cup {x}) = Cardinality(below(x)) + 1
             /\ RankIn(S, R, x) = Cardinality(below(x) \cup {x})
             /\ RankIn(S, R, x) \in 1 .. n
  <2>1. below(x) \in SUBSET S /\ x \notin below(x) /\ below(x) \cup {x} \in SUBSET S
    BY DEF IsOrder
  <2>2. RankIn(S, R, x) = Cardinality(below(x)) + 1
    BY DEF RankIn
  <2> HIDE DEF below
  <2>3. IsFiniteSet(below(x)) /\ Cardinality(below(x)) \in Nat
    BY <1>2, <2>1
  <2>4. Cardinality(below(x) \cup {x}) = Cardinality(below(x)) + 1
    BY <2>1, <2>3, FS_AddElement
  <2>5. Cardinality(below(x) \cup {x}) <= n
    BY <2>1, FS_Subset
  <2> QED BY <1>1, <2>1, <2>2, <2>3, <2>4, <2>5
<1>4. ASSUME NEW x \in S, NEW y \in S, <<x, y>> \in R
      PROVE  RankIn(S, R, x) < RankIn(S, R, y)
  <2>1. below(x) \cup {x} \in SUBSET below(y)
    BY <1>4 DEF IsOrder
  <2>2. RankIn(S, R, y) = Cardinality(below(y)) + 1
    BY DEF RankIn
  <2> HIDE DEF below
  <2>3. IsFiniteSet(below(y)) /\ Cardinality(below(y)) \in Nat
    BY <1>2, <1>3
  <2>4. Cardinality(below(x) \cup {x}) <= Cardinality(below(y))
    BY <2>1, <2>3, FS_Subset
  <2>5. RankIn(S, R, x) \in Nat /\ RankIn(S, R, x) = Cardinality(below(x) \cup {x})
    BY <1>1, <1>3
  <2> QED BY <2>2, <2>3, <2>4, <2>5
<1>5. ASSUME NEW x \in S, NEW y \in S
      PROVE  /\ RankIn(S, R, x) = RankIn(S, R, y) => x = y
             /\ RankIn(S, R, x) < RankIn(S, R, y) => <<x, y>> \in R
  <2>1. RankIn(S, R, x) \in Nat /\ RankIn(S, R, y) \in Nat
    <3>1. \A i \in 1 .. n : i \in Nat
      BY <1>1
    <3>2. RankIn(S, R, x) \in 1 .. n /\ RankIn(S, R, y) \in 1 .. n
      BY <1>3
    <3> QED BY <3>1, <3>2
  <2>2. x = y \/ <<x, y>> \in R \/ <<y, x>> \in R
    BY DEF IsOrder
  <2>3. /\ <<x, y>> \in R => RankIn(S, R, x) < RankIn(S, R, y)
        /\ <<y, x>> \in R => RankIn(S, R, y) < RankIn(S, R, x)
    BY <1>4
  <2> QED BY <2>1, <2>2, <2>3
<1>6. I = 1 .. n
  <2>1. f \in Bijection(S, I)
    BY <1>5 DEF Bijection, Injection, IsInjective, Surjection
  <2>2. ExistsBijection(S, I)
    BY <2>1 DEF ExistsBijection
  <2>3. I \in SUBSET (1 .. n)
    BY <1>3
  <2>4. IsFiniteSet(1 .. n) /\ Cardinality(1 .. n) = n
    BY <1>1, FS_Interval
  <2> HIDE DEF I, f
  <2>5. Cardinality(I) = n
    BY <2>2, FS_Bijection
  <2> QED BY <2>3, <2>4, <2>5, FS_Subset
<1> QED BY <1>3, <1>5, <1>6

LEMMA ImageFinite ==
    ASSUME NEW S, IsFiniteSet(S), NEW f, DOMAIN f = S
    PROVE  IsFiniteSet({f[x] : x \in S})
<1> DEFINE T == {f[x] : x \in S}
           g == [x \in S |-> f[x]]
<1>1. g \in Surjection(S, T)
  BY DEF Surjection
<1> HIDE DEF T, g
<1>2. IsFiniteSet(T)
  BY <1>1, FS_Surjection
<1> QED BY <1>2 DEF T

\* q is the members of S in the order R.
InOrder(q, S, R) ==
    /\ q \in [1 .. Cardinality(S) -> S]
    /\ \A x \in S : \E n \in 1 .. Cardinality(S) : q[n] = x
    /\ \A i, j \in 1 .. Cardinality(S) : i < j => <<q[i], q[j]>> \in R

LEMMA SortedInOrder ==
    ASSUME NEW S, IsFiniteSet(S), NEW R, IsOrder(R, S),
           NEW q, q = [n \in 1 .. Cardinality(S) |-> CHOOSE x \in S : RankIn(S, R, x) = n]
    PROVE  InOrder(q, S, R)
<1> DEFINE n == Cardinality(S)
<1>1. /\ \A x \in S : RankIn(S, R, x) \in 1 .. n
      /\ \A i \in 1 .. n : \E x \in S : RankIn(S, R, x) = i
      /\ \A x, y \in S : RankIn(S, R, x) = RankIn(S, R, y) => x = y
      /\ \A x, y \in S : RankIn(S, R, x) < RankIn(S, R, y) => <<x, y>> \in R
  BY Ranks
<1> HIDE DEF n
<1>2. \A i \in 1 .. n : q[i] \in S /\ RankIn(S, R, q[i]) = i
  <2> TAKE i \in 1 .. n
  <2>1. q[i] = CHOOSE x \in S : RankIn(S, R, x) = i
    BY DEF n
  <2> QED BY <1>1, <2>1
<1>3. q \in [1 .. n -> S]
  <2>1. q = [i \in 1 .. n |-> q[i]]
    BY DEF n
  <2> QED BY <1>2, <2>1
<1>4. \A x \in S : \E i \in 1 .. n : q[i] = x
  <2> TAKE x \in S
  <2>1. PICK i \in 1 .. n : RankIn(S, R, x) = i
    BY <1>1
  <2>2. q[i] = x
    BY <1>1, <1>2, <2>1
  <2> QED BY <2>2
<1>5. \A i, j \in 1 .. n : i < j => <<q[i], q[j]>> \in R
  <2> SUFFICES ASSUME NEW i \in 1 .. n, NEW j \in 1 .. n, i < j PROVE <<q[i], q[j]>> \in R
    OBVIOUS
  <2>1. RankIn(S, R, q[i]) < RankIn(S, R, q[j])
    BY <1>2
  <2> QED BY <1>1, <1>2, <2>1
<1> QED BY <1>3, <1>4, <1>5 DEF InOrder, n

\* The keys that a timeline is sorted by are numbers.
LEMMA SortKeys ==
    ASSUME NEW v \in OfKind("event", Objects),
           read["timeline"]["assertion"] \subseteq OfKind("assertion", Objects)
    PROVE  SortKey(v) \in Int
<1> DEFINE about == ClaimsAbout(v)
           f == [c \in about |-> Value[c]]
           values == {f[c] : c \in about}
           keys == values \cup IF about = {} THEN {Created[v]} ELSE {}
<1>1. about \subseteq OfKind("assertion", Objects)
  BY DEF ClaimsAbout
<1>2. IsFiniteSet(about)
  <2>1. OfKind("assertion", Objects) \subseteq Objects
    BY DEF OfKind
  <2> HIDE DEF about
  <2> QED BY <1>1, <2>1, ReportAssumption, FS_Subset
<1>3. SortKey(v) = Min(keys)
  BY DEF SortKey
<1> HIDE DEF about
<1>4. IsFiniteSet(values)
  <2>1. DOMAIN f = about
    OBVIOUS
  <2> HIDE DEF f
  <2> QED BY <1>2, <2>1, ImageFinite
<1>5. values \subseteq Int /\ Created[v] \in Int
  BY <1>1, ReportAssumption
<1>6. about # {} => values # {}
  OBVIOUS
<1> HIDE DEF values
<1>7. keys \in SUBSET Int /\ keys # {}
  BY <1>5, <1>6
<1>8. IsFiniteSet(keys)
  <2>1. IsFiniteSet({}) /\ IsFiniteSet({Created[v]})
    BY FS_EmptySet, FS_Singleton
  <2>2. IsFiniteSet(IF about = {} THEN {Created[v]} ELSE {})
    BY <2>1
  <2> QED BY <1>4, <2>2, FS_Union
<1> HIDE DEF keys
<1>9. Min(keys) \in keys
  BY <1>7, <1>8, LeastOf
<1> QED BY <1>3, <1>7, <1>9

LEMMA TimelineInOrder ==
    ASSUME read["timeline"]["event"] \subseteq OfKind("event", Objects),
           read["timeline"]["assertion"] \subseteq OfKind("assertion", Objects)
    PROVE  /\ DOMAIN Timeline = 1 .. Cardinality(read["timeline"]["event"])
           /\ Cardinality(read["timeline"]["event"]) \in Nat
           /\ Len(Timeline) = Cardinality(read["timeline"]["event"])
           /\ \A v \in read["timeline"]["event"] : \E n \in DOMAIN Timeline : Timeline[n] = v
           /\ \A n \in 2 .. Len(Timeline) : SortKey(Timeline[n - 1]) <= SortKey(Timeline[n])
<1> DEFINE S == read["timeline"]["event"]
           Comes(v, w) == \/ SortKey(v) < SortKey(w)
                          \/ SortKey(v) = SortKey(w) /\ Rank[v] < Rank[w]
           R == {p \in S \X S : Comes(p[1], p[2])}
           n == Cardinality(S)
<1>1. IsFiniteSet(S) /\ n \in Nat
  <2>1. S \subseteq Objects
    BY DEF OfKind
  <2> QED BY <2>1, ReportAssumption, FS_Subset, FS_CardinalityType
<1>2. \A v \in S : SortKey(v) \in Int /\ Rank[v] \in Int
  BY SortKeys, ReportAssumption
<1>3. \A v, w \in S : Rank[v] = Rank[w] => v = w
  BY ReportAssumption
<1>4. \A v, w \in S : <<v, w>> \in R <=> Comes(v, w)
  OBVIOUS
<1>5. Timeline = [i \in 1 .. n |-> CHOOSE x \in S : Cardinality({y \in S : Comes(y, x)}) + 1 = i]
  BY DEF Timeline, Sorted
<1> HIDE DEF S, R
<1>6. IsOrder(R, S)
  BY <1>2, <1>3, <1>4 DEF IsOrder
<1> HIDE DEF Comes
<1>7. \A x \in S : RankIn(S, R, x) = Cardinality({y \in S : Comes(y, x)}) + 1
  <2> TAKE x \in S
  <2>1. {y \in S : <<y, x>> \in R} = {y \in S : Comes(y, x)}
    BY <1>4
  <2> QED BY <2>1 DEF RankIn
<1>8. Timeline = [i \in 1 .. n |-> CHOOSE x \in S : RankIn(S, R, x) = i]
  <2>1. \A i \in 1 .. n : (CHOOSE x \in S : RankIn(S, R, x) = i)
                         = (CHOOSE x \in S : Cardinality({y \in S : Comes(y, x)}) + 1 = i)
    BY <1>7
  <2> QED BY <1>5, <2>1
<1>9. InOrder(Timeline, S, R)
  BY <1>1, <1>6, <1>8, SortedInOrder
<1>10. /\ Timeline \in [1 .. n -> S]
       /\ \A x \in S : \E i \in 1 .. n : Timeline[i] = x
       /\ \A i, j \in 1 .. n : i < j => <<Timeline[i], Timeline[j]>> \in R
  BY <1>9 DEF InOrder
<1>11. DOMAIN Timeline = 1 .. n /\ Len(Timeline) = n
  BY <1>1, <1>10
<1>12. ASSUME NEW i \in 2 .. n PROVE SortKey(Timeline[i - 1]) <= SortKey(Timeline[i])
  <2>1. i - 1 \in 1 .. n /\ i \in 1 .. n /\ i - 1 < i
    BY <1>1
  <2>2. Timeline[i - 1] \in S /\ Timeline[i] \in S /\ <<Timeline[i - 1], Timeline[i]>> \in R
    BY <1>10, <2>1
  <2>3. Comes(Timeline[i - 1], Timeline[i])
    BY <1>4, <2>2
  <2>4. SortKey(Timeline[i - 1]) \in Int /\ SortKey(Timeline[i]) \in Int
    BY <1>2, <2>2
  <2> QED BY <2>3, <2>4 DEF Comes
<1> QED BY <1>1, <1>10, <1>11, <1>12 DEF S

\* Whatever is committed meanwhile, a timeline lists every claim that it has read,
\* in the order of time, and a finding is looked for among all the claims that were
\* there when the command began (build_timeline_json, find_gaps).
THEOREM ClaimsAreAccounted == Spec => []ClaimsAccounted
<1>1. ASSUME ReportInv, reading = "shown", "timeline" \in DOMAIN read
      PROVE  /\ read["timeline"]["assertion"]
                   \subseteq UNION {ClaimsAbout(Timeline[n]) : n \in DOMAIN Timeline}
             /\ \A n \in 2..Len(Timeline) : SortKey(Timeline[n - 1]) <= SortKey(Timeline[n])
  <2>1. Wanted(todo) = {}
    BY <1>1 DEF ReportInv, Listed, Wanted
  <2>2. /\ read["timeline"]["assertion"] \subseteq OfKind("assertion", rows)
        /\ read["timeline"]["event"] \subseteq OfKind("event", rows)
        /\ {EventOf[c] : c \in read["timeline"]["assertion"]} \subseteq read["timeline"]["event"]
    BY <1>1, <2>1 DEF ReportInv, TimelineRead
  <2>3. rows \subseteq Objects
    BY <1>1 DEF ReportInv, CaseCited, AllCited
  <2>4. /\ read["timeline"]["assertion"] \subseteq OfKind("assertion", Objects)
        /\ read["timeline"]["event"] \subseteq OfKind("event", Objects)
    BY <2>2, <2>3 DEF OfKind
  <2>5. /\ \A v \in read["timeline"]["event"] : \E n \in DOMAIN Timeline : Timeline[n] = v
        /\ \A n \in 2 .. Len(Timeline) : SortKey(Timeline[n - 1]) <= SortKey(Timeline[n])
    BY <2>4, TimelineInOrder
  <2>6. ASSUME NEW c \in read["timeline"]["assertion"]
        PROVE  \E n \in DOMAIN Timeline : c \in ClaimsAbout(Timeline[n])
    <3>1. EventOf[c] \in read["timeline"]["event"]
      BY <2>2
    <3>2. PICK n \in DOMAIN Timeline : Timeline[n] = EventOf[c]
      BY <2>5, <3>1
    <3>3. c \in ClaimsAbout(Timeline[n])
      BY <3>2 DEF ClaimsAbout
    <3> QED BY <3>3
  <2> QED BY <2>5, <2>6
<1>2. ASSUME ReportInv, NEW s \in DOMAIN read,
             {"event", "evidence", "assertion"} = DOMAIN read[s]
      PROVE  OfKind("assertion", before) \subseteq Analysed(s)
  <2>1. /\ OfKind("event", before) \subseteq read[s]["event"]
        /\ OfKind("evidence", before) \subseteq read[s]["evidence"]
        /\ OfKind("assertion", before) \subseteq read[s]["assertion"]
    BY <1>2 DEF ReportInv, NothingMissed, RevisedKinds
  <2>2. before \subseteq Objects /\ \A o \in before : Cites[o] \subseteq before
    BY <1>2 DEF ReportInv, CaseCited, AllCited
  <2>3. ASSUME NEW c \in OfKind("assertion", before)
        PROVE  Cites[c] \subseteq read[s]["event"] \cup read[s]["evidence"]
    <3>1. c \in OfKind("assertion", Objects) /\ Cites[c] \subseteq before
      BY <2>2 DEF OfKind
    <3>2. Cites[c] \subseteq OfKind("event", Objects) \cup OfKind("evidence", Objects)
      BY <3>1, ReportAssumption
    <3>3. Cites[c] \subseteq OfKind("event", before) \cup OfKind("evidence", before)
      BY <3>1, <3>2 DEF OfKind
    <3> QED BY <2>1, <3>3
  <2> QED BY <2>1, <2>3 DEF Analysed
<1>3. ReportInv => ClaimsAccounted
  BY <1>1, <1>2 DEF ClaimsAccounted
<1> QED BY <1>3, ReportInvariant, PTL

=============================================================================

---------------------------- MODULE IngestProofs ----------------------------
(***************************************************************************)
(* For any set of processes, sources and lines, each process cut short     *)
(* anywhere: the types of Ingest, EvidenceComplete, FirstSourceKept and    *)
(* ManifestNotAhead; for one process, ManifestCurrent and IngestIsAtomic.  *)
(***************************************************************************)
EXTENDS Ingest, WellFoundedInduction, TLAPS

Rows == [line : Lines, schema : Schemas, reading : Readings]

LEMMA RecordRow ==
    ASSUME TypeOK, NEW p \in Procs, ~Exhausted(p)
    PROVE  Record(p) \in Rows /\ NewCustody(p) \in CustodyRecords
<1>1. cmd[p].source \in Sources /\ cmd[p].at \in Instants /\ at[p] \in Nat /\ at[p] # 0
  BY DEF TypeOK, Commands
<1>2. Records[cmd[p].source] \in Seq(Rows)
  BY <1>1, RecordsAssumption DEF Rows
<1>3. at[p] \in 1 .. Len(Records[cmd[p].source])
  BY <1>1, <1>2 DEF Exhausted
<1>4. Record(p) \in Rows
  BY <1>2, <1>3 DEF Record
<1> QED BY <1>1, <1>4 DEF NewCustody, Custody, CustodyRecords

LEMMA DerivedTypes ==
    ASSUME NEW rec \in Rows
    PROVE  EventsOf(rec) \subseteq EventIds /\ AssertionsOf(rec) \subseteq EventIds
BY DEF Rows, EventsOf, AssertionsOf, EventIds

LEMMA IdsType == ASSUME NEW t \in Tables PROVE Ids(t) \in Manifests
BY DEF Tables, Ids, Manifests

LEMMA ViewType == ASSUME TypeOK, NEW p \in Procs PROVE View(p) \in Tables
BY DEF TypeOK, View

LEMMA StoredType ==
    ASSUME TypeOK, NEW p \in Procs, pc[p] = "store"
    PROVE  Stored(p) \in Tables
<1>1. Record(p) \in Rows /\ NewCustody(p) \in CustodyRecords
  BY RecordRow DEF TypeOK
<1>2. Line(p) \in Lines
  BY <1>1 DEF Line, Rows
<1>3. View(p) \in Tables
  BY ViewType
<1>4. Merged(p) \in Seq(CustodyRecords)
  BY <1>1, <1>2, <1>3 DEF Merged, TypeOK, Tables
<1>5. EventsOf(Record(p)) \subseteq EventIds /\ AssertionsOf(Record(p)) \subseteq EventIds
  BY <1>1, DerivedTypes
<1> QED BY <1>2, <1>3, <1>4, <1>5 DEF Stored, Tables

LEMMA NoRowsType == NoRows \in Tables
BY DEF NoRows, Tables

LEMMA AbortType == ASSUME TypeOK, NEW p \in Procs, Abort(p) PROVE TypeOK'
<1>1. /\ db' = db /\ image' \in {image, db} /\ lock' = (IF lock = p THEN NoProc ELSE lock)
      /\ pc' = [pc EXCEPT ![p] = "idle"]
      /\ UNCHANGED <<blobs, manifest, started, cmd, at, seen, snap, committed, stale>>
  BY DEF Abort, Rollback
<1>2. \A q \in Procs : Exhausted(q)' = Exhausted(q)
  BY <1>1 DEF Exhausted
<1>3. \A q \in Procs : pc'[q] # "idle" => pc'[q] = pc[q]
  BY <1>1 DEF TypeOK
<1>4. \A q \in Procs : lock' = q => lock = q /\ q # p
  BY <1>1, NoProcAssumption DEF TypeOK
<1> QED BY <1>1, <1>2, <1>3, <1>4 DEF TypeOK

LEMMA TypeStep == TypeOK /\ [Next]_vars => TypeOK'
<1> USE NoProcAssumption, MaxCommandsAssumption
<1> SUFFICES ASSUME TypeOK, [Next]_vars PROVE TypeOK'
  OBVIOUS
<1>1. CASE UNCHANGED vars
  BY <1>1 DEF TypeOK, vars, Exhausted
<1>2. ASSUME NEW p \in Procs, NEW c \in Commands, Begin(p, c) PROVE TypeOK'
  <2>1. \A q \in Procs : q # p => Exhausted(q)' = Exhausted(q)
    BY <1>2 DEF Begin, Exhausted, TypeOK
  <2> QED BY <1>2, <2>1 DEF Begin, TypeOK
<1>3. ASSUME NEW p \in Procs, PutBlob(p) PROVE TypeOK'
  <2>1. Line(p) \in Lines
    BY <1>3, RecordRow DEF PutBlob, Line, Rows
  <2>2. \A q \in Procs : Exhausted(q)' = Exhausted(q)
    BY <1>3 DEF PutBlob, Exhausted
  <2> QED BY <1>3, <2>1, <2>2 DEF PutBlob, TypeOK
<1>4. ASSUME NEW p \in Procs, Select(p) PROVE TypeOK'
  <2>1. Line(p) \in Lines
    BY <1>4, RecordRow DEF Select, Line, Rows, TypeOK
  <2>2. View(p).evidence[Line(p)] \in Seq(CustodyRecords)
    BY <2>1, ViewType DEF Tables
  <2>3. \A q \in Procs : Exhausted(q)' = Exhausted(q)
    BY <1>4 DEF Select, Exhausted
  <2> QED BY <1>4, <2>2, <2>3 DEF Select, TypeOK
<1>5. ASSUME NEW p \in Procs, StoreRecord(p) PROVE TypeOK'
  <2>1. Stored(p) \in Tables
    BY <1>5, StoredType DEF StoreRecord
  <2>2. \A q \in Procs : q # p => Exhausted(q)' = Exhausted(q)
    BY <1>5 DEF StoreRecord, Advance, Exhausted, TypeOK
  <2>3. \A q \in Procs : lock' = q => q = p
    BY <1>5 DEF StoreRecord
  <2> QED BY <1>5, <2>1, <2>2, <2>3 DEF StoreRecord, Advance, TypeOK
<1>6. ASSUME NEW p \in Procs, SkipRecord(p) PROVE TypeOK'
  <2>1. \A q \in Procs : q # p => Exhausted(q)' = Exhausted(q)
    BY <1>6 DEF SkipRecord, Advance, Exhausted, TypeOK
  <2> QED BY <1>6, <2>1 DEF SkipRecord, Advance, TypeOK
<1>7. ASSUME NEW p \in Procs, Commit(p) PROVE TypeOK'
  <2>1. View(p) \in Tables
    BY ViewType
  <2>2. \A q \in Procs : Exhausted(q)' = Exhausted(q)
    BY <1>7 DEF Commit, Exhausted
  <2>3. \A q \in Procs : lock' = q => lock = q /\ q # p
    BY <1>7 DEF Commit, TypeOK
  <2> QED BY <1>7, <2>1, <2>2, <2>3 DEF Commit, TypeOK
<1>8. ASSUME NEW p \in Procs, ReadTable(p) PROVE TypeOK'
  <2>1. pc[p] \in {"evidence", "events", "assertions"}
    BY <1>8 DEF ReadTable, AfterReading
  <2>2. pc'[p] \in {"events", "assertions", "truncate"}
    BY <1>8, <2>1 DEF ReadTable, AfterReading, TypeOK
  <2>3. Ids(db) \in Manifests /\ snap[p] \in Manifests
    BY IdsType DEF TypeOK
  <2>4. [snap[p] EXCEPT ![pc[p]] = Ids(db)[pc[p]]] \in Manifests
    BY <2>1, <2>3 DEF Manifests
  <2>5. snap' \in [Procs -> Manifests]
    BY <1>8, <2>4 DEF ReadTable, TypeOK
  <2>6. \A q \in Procs : Exhausted(q)' = Exhausted(q)
    BY <1>8 DEF ReadTable, Exhausted
  <2>7. lock # p
    BY <2>1 DEF TypeOK
  <2> QED BY <1>8, <2>2, <2>5, <2>6, <2>7 DEF ReadTable, TypeOK
<1>9. ASSUME NEW p \in Procs, TruncateManifest(p) PROVE TypeOK'
  BY <1>9 DEF TruncateManifest, TypeOK, Exhausted
<1>10. ASSUME NEW p \in Procs, WriteManifest(p) PROVE TypeOK'
  BY <1>10 DEF WriteManifest, TypeOK, Exhausted
<1>11. ASSUME NEW p \in Procs, Abort(p) PROVE TypeOK'
  BY <1>11, AbortType
<1> QED
  BY <1>1, <1>2, <1>3, <1>4, <1>5, <1>6, <1>7, <1>8, <1>9, <1>10, <1>11
  DEF Next, Step, AdapterRaises, RejectRecord, LockTimeout, Interrupt, Finished

LEMMA TypeInit == Init => TypeOK
<1>1. NoRows \in Tables /\ Ids(NoRows) \in Manifests
  BY NoRowsType, IdsType
<1> QED BY <1>1, MaxCommandsAssumption, NoProcAssumption DEF Init, TypeOK

\* Typed variables (Ingest's TypeOK) for every run of the specification; in
\* particular only a process inside its transaction block holds the lock.
THEOREM IngestTypes == Spec => []TypeOK
BY TypeInit, TypeStep, PTL DEF Spec

-----------------------------------------------------------------------------
\* A process that is past the blob put of its record has that blob.
Blobbed == /\ EvidenceHasBlob
           /\ \A p \in Procs : pc[p] \in {"select", "store"} => Line(p) \in blobs

\* Storing a record adds an evidence row for its own line only.
LEMMA StoredRows ==
    ASSUME TypeOK, NEW p \in Procs, pc[p] = "store", NEW l \in Lines, l # Line(p)
    PROVE  Stored(p).evidence[l] = View(p).evidence[l]
BY ViewType DEF Stored, Tables

LEMMA BlobbedStep == TypeOK /\ Blobbed /\ [Next]_vars => Blobbed'
<1> USE NoProcAssumption DEF Blobbed, EvidenceHasBlob, HasEvidence
<1> SUFFICES ASSUME TypeOK, Blobbed, [Next]_vars PROVE Blobbed'
  OBVIOUS
<1>1. ASSUME UNCHANGED <<cmd, at>> PROVE \A q \in Procs : Line(q)' = Line(q)
  BY <1>1 DEF Line, Record
<1>2. CASE UNCHANGED vars
  BY <1>1, <1>2 DEF vars
<1>3. ASSUME NEW p \in Procs, NEW c \in Commands, Begin(p, c) PROVE Blobbed'
  <2>1. \A q \in Procs : q # p => Line(q)' = Line(q)
    BY <1>3 DEF Begin, Line, Record, TypeOK
  <2> QED BY <1>3, <2>1 DEF Begin, TypeOK
<1>4. ASSUME NEW p \in Procs, PutBlob(p) PROVE Blobbed'
  BY <1>1, <1>4 DEF PutBlob, TypeOK
<1>5. ASSUME NEW p \in Procs, Select(p) PROVE Blobbed'
  BY <1>1, <1>5 DEF Select, TypeOK
<1>6. ASSUME NEW p \in Procs, StoreRecord(p) PROVE Blobbed'
  <2>1. \A q \in Procs : q # p => Line(q)' = Line(q)
    BY <1>6 DEF StoreRecord, Advance, Line, Record, TypeOK
  <2>2. \A l \in Lines : image'.evidence[l] # <<>> => l \in blobs
    BY <1>6, StoredRows DEF StoreRecord, View
  <2> QED BY <1>6, <2>1, <2>2 DEF StoreRecord, Advance, TypeOK
<1>7. ASSUME NEW p \in Procs, SkipRecord(p) PROVE Blobbed'
  <2>1. \A q \in Procs : q # p => Line(q)' = Line(q)
    BY <1>7 DEF SkipRecord, Advance, Line, Record, TypeOK
  <2> QED BY <1>7, <2>1 DEF SkipRecord, Advance, TypeOK
<1>8. ASSUME NEW p \in Procs, Commit(p) PROVE Blobbed'
  BY <1>1, <1>8 DEF Commit, View, TypeOK
<1>9. ASSUME NEW p \in Procs, ReadTable(p) PROVE Blobbed'
  BY <1>1, <1>9 DEF ReadTable, AfterReading, TypeOK
<1>10. ASSUME NEW p \in Procs, TruncateManifest(p) PROVE Blobbed'
  BY <1>1, <1>10 DEF TruncateManifest, TypeOK
<1>11. ASSUME NEW p \in Procs, WriteManifest(p) PROVE Blobbed'
  BY <1>1, <1>11 DEF WriteManifest, TypeOK
<1>12. ASSUME NEW p \in Procs, Abort(p) PROVE Blobbed'
  BY <1>1, <1>12 DEF Abort, Rollback, TypeOK
<1> QED
  BY <1>2, <1>3, <1>4, <1>5, <1>6, <1>7, <1>8, <1>9, <1>10, <1>11, <1>12
  DEF Next, Step, AdapterRaises, RejectRecord, LockTimeout, Interrupt, Finished

\* Blobs go first, so no evidence row, committed or in a transaction, ever
\* lacks its blob, however many processes ingest and die.
LEMMA BlobBeforeRow == Spec => []EvidenceHasBlob
<1>1. Init => Blobbed
  BY DEF Init, Blobbed, EvidenceHasBlob, HasEvidence, NoRows
<1>2. Blobbed => EvidenceHasBlob
  BY DEF Blobbed
<1> QED BY <1>1, <1>2, IngestTypes, BlobbedStep, PTL DEF Spec

-----------------------------------------------------------------------------
\* What p read of its record's chain of custody, if there was one, still begins
\* as the chain that p would write over.
Fresh(p) == pc[p] = "store" /\ seen[p] # <<>> =>
                /\ HasEvidence(View(p), Line(p))
                /\ Head(View(p).evidence[Line(p)]) = Head(seen[p])

\* A transaction only adds to what is committed, and so does every statement.
Growing == Keeps(db, image) /\ \A p \in Procs : Fresh(p)

LEMMA KeepsReflexive == ASSUME NEW t PROVE Keeps(t, t)
BY DEF Keeps

LEMMA KeepsTransitive ==
    ASSUME NEW t, NEW u, NEW v, Keeps(t, u), Keeps(u, v) PROVE Keeps(t, v)
BY DEF Keeps

LEMMA StoredKeeps ==
    ASSUME TypeOK, NEW p \in Procs, pc[p] = "store", Fresh(p), ~Collides(p)
    PROVE  Keeps(View(p), Stored(p))
<1>1. View(p) \in Tables /\ seen[p] \in Seq(CustodyRecords)
  BY ViewType DEF TypeOK
<1>2. NewCustody(p) \in CustodyRecords /\ Line(p) \in Lines
  BY RecordRow DEF TypeOK, Line, Rows
<1>3. HasEvidence(View(p), Line(p)) =>
         Merged(p) # <<>> /\ Head(Merged(p)) = Head(View(p).evidence[Line(p)])
  <2> SUFFICES ASSUME HasEvidence(View(p), Line(p))
               PROVE  Merged(p) # <<>> /\ Head(Merged(p)) = Head(View(p).evidence[Line(p)])
    OBVIOUS
  <2>1. seen[p] # <<>> /\ Head(View(p).evidence[Line(p)]) = Head(seen[p])
    BY DEF Collides, Fresh
  <2>2. CASE NewCustody(p) \in Range(seen[p])
    BY <2>2 DEF Merged, HasEvidence
  <2>3. CASE NewCustody(p) \notin Range(seen[p])
    <3>1. Merged(p) = Append(seen[p], NewCustody(p))
      BY <2>3 DEF Merged
    <3>2. Append(seen[p], NewCustody(p)) # <<>>
          /\ Head(Append(seen[p], NewCustody(p))) = Head(seen[p])
      BY <1>1, <1>2, <2>1
    <3> QED BY <2>1, <3>1, <3>2
  <2> QED BY <2>2, <2>3
<1>4. \A l \in Lines : HasEvidence(View(p), l) =>
          /\ HasEvidence(Stored(p), l)
          /\ Head(Stored(p).evidence[l]) = Head(View(p).evidence[l])
  BY <1>1, <1>2, <1>3 DEF Stored, HasEvidence, Tables
<1> QED BY <1>1, <1>4 DEF Keeps, Stored

\* A step of another process leaves Fresh(q) as it is if it keeps q's command
\* and does not shrink what q sees.
LEMMA FreshKept ==
    ASSUME TypeOK, NEW q \in Procs, Fresh(q), Keeps(View(q), View(q)'),
           pc'[q] = "store" => pc[q] = "store", seen'[q] = seen[q],
           cmd'[q] = cmd[q], at'[q] = at[q]
    PROVE  Fresh(q)'
<1> SUFFICES ASSUME pc'[q] = "store", seen[q] # <<>>
             PROVE  /\ HasEvidence(View(q), Line(q))'
                    /\ Head(View(q)'.evidence[Line(q)']) = Head(seen[q])
  BY DEF Fresh
<1>1. Line(q)' = Line(q)
  BY DEF Line, Record
<1>2. Line(q) \in Lines
  BY RecordRow DEF TypeOK, Line, Rows
<1>3. HasEvidence(View(q), Line(q)) /\ Head(View(q).evidence[Line(q)]) = Head(seen[q])
  BY DEF Fresh
<1> QED BY <1>1, <1>2, <1>3 DEF Keeps, HasEvidence

LEMMA GrowingStep ==
    ASSUME TypeOK, Growing, [Next]_vars PROVE Growing' /\ Keeps(db, db')
<1> USE NoProcAssumption
<1>1. ASSUME UNCHANGED <<db, image, lock>>,
             \A q \in Procs : /\ pc'[q] = "store" => pc[q] = "store"
                              /\ pc'[q] = "store" => UNCHANGED <<seen[q], cmd[q], at[q]>>
      PROVE  Growing' /\ Keeps(db, db')
  <2>1. ASSUME NEW q \in Procs, pc'[q] = "store" PROVE Fresh(q)'
    <3>1. View(q)' = View(q)
      BY <1>1 DEF View
    <3> QED BY <1>1, <2>1, <3>1, FreshKept, KeepsReflexive DEF Growing
  <2>2. ASSUME NEW q \in Procs PROVE Fresh(q)'
    BY <2>1 DEF Fresh
  <2> QED BY <1>1, <2>2, KeepsReflexive DEF Growing
<1>2. CASE UNCHANGED vars
  BY <1>1, <1>2 DEF vars
<1>3. ASSUME NEW p \in Procs, NEW c \in Commands, Begin(p, c)
      PROVE  Growing' /\ Keeps(db, db')
  BY <1>1, <1>3 DEF Begin, TypeOK
<1>4. ASSUME NEW p \in Procs, PutBlob(p) PROVE Growing' /\ Keeps(db, db')
  BY <1>1, <1>4 DEF PutBlob, TypeOK
<1>5. ASSUME NEW p \in Procs, Select(p) PROVE Growing' /\ Keeps(db, db')
  <2>1. \A q \in Procs : View(q)' = View(q) /\ Line(q)' = Line(q)
    BY <1>5 DEF Select, View, Line, Record
  <2>2. Fresh(p)'
    BY <1>5, <2>1 DEF Fresh, HasEvidence, Select, TypeOK
  <2>3. ASSUME NEW q \in Procs, q # p PROVE Fresh(q)'
    BY <1>5, <2>1, <2>3, FreshKept, KeepsReflexive DEF Growing, Select, TypeOK
  <2> QED BY <1>5, <2>2, <2>3, KeepsReflexive DEF Select, Growing
<1>6. ASSUME NEW p \in Procs, StoreRecord(p) PROVE Growing' /\ Keeps(db, db')
  <2>1. Keeps(View(p), Stored(p))
    BY <1>6, StoredKeeps DEF StoreRecord, Growing
  <2>2. Keeps(db, View(p))
    BY KeepsReflexive DEF View, Growing
  <2>3. Keeps(db, image')
    BY <1>6, <2>1, <2>2, KeepsTransitive DEF StoreRecord
  <2>4. ASSUME NEW q \in Procs, q # p PROVE Fresh(q)'
    <3>1. View(q)' = View(q)
      BY <1>6, <2>4 DEF StoreRecord, View, CanWrite
    <3> QED BY <1>6, <2>4, <3>1, FreshKept, KeepsReflexive
            DEF Growing, StoreRecord, Advance, TypeOK
  <2>5. Fresh(p)'
    BY <1>6 DEF Fresh, StoreRecord, Advance, TypeOK
  <2> QED BY <1>6, <2>3, <2>4, <2>5, KeepsReflexive DEF StoreRecord, Growing
<1>7. ASSUME NEW p \in Procs, SkipRecord(p) PROVE Growing' /\ Keeps(db, db')
  BY <1>1, <1>7 DEF SkipRecord, Advance, TypeOK
<1>8. ASSUME NEW p \in Procs, Commit(p) PROVE Growing' /\ Keeps(db, db')
  <2>1. Keeps(db, db')
    BY <1>8, KeepsReflexive DEF Commit, View, Growing
  <2>2. Keeps(db', image')
    <3>1. CASE lock = p
      BY <1>8, <3>1, KeepsReflexive DEF Commit, View
    <3>2. CASE lock # p
      BY <1>8, <3>2 DEF Commit, View, Growing
    <3> QED BY <3>1, <3>2
  <2>3. ASSUME NEW q \in Procs PROVE Fresh(q)'
    <3>1. CASE q = p
      BY <1>8, <3>1 DEF Commit, Fresh, TypeOK
    <3>2. CASE q # p
      <4>1. Keeps(View(q), View(q)')
        BY <1>8, <2>1, <3>2, KeepsReflexive DEF Commit, View
      <4> QED BY <1>8, <3>2, <4>1, FreshKept DEF Commit, TypeOK, Growing
    <3> QED BY <3>1, <3>2
  <2> QED BY <2>1, <2>2, <2>3 DEF Growing
<1>9. ASSUME NEW p \in Procs, ReadTable(p) PROVE Growing' /\ Keeps(db, db')
  BY <1>1, <1>9 DEF ReadTable, AfterReading, TypeOK
<1>10. ASSUME NEW p \in Procs, TruncateManifest(p) PROVE Growing' /\ Keeps(db, db')
  BY <1>1, <1>10 DEF TruncateManifest, TypeOK
<1>11. ASSUME NEW p \in Procs, WriteManifest(p) PROVE Growing' /\ Keeps(db, db')
  BY <1>1, <1>11 DEF WriteManifest, TypeOK
<1>12. ASSUME NEW p \in Procs, Abort(p) PROVE Growing' /\ Keeps(db, db')
  <2>1. db' = db /\ Keeps(db', image')
    BY <1>12, KeepsReflexive DEF Abort, Rollback, Growing
  <2>2. ASSUME NEW q \in Procs PROVE Fresh(q)'
    <3>1. CASE q = p
      BY <1>12, <3>1 DEF Abort, Fresh, TypeOK
    <3>2. CASE q # p
      <4>1. View(q)' = View(q)
        BY <1>12, <3>2 DEF Abort, Rollback, View
      <4> QED BY <1>12, <3>2, <4>1, FreshKept, KeepsReflexive DEF Abort, TypeOK, Growing
    <3> QED BY <3>1, <3>2
  <2> QED BY <2>1, <2>2, KeepsReflexive DEF Growing
<1> QED
  BY <1>2, <1>3, <1>4, <1>5, <1>6, <1>7, <1>8, <1>9, <1>10, <1>11, <1>12
  DEF Next, Step, AdapterRaises, RejectRecord, LockTimeout, Interrupt, Finished

LEMMA GrowingAlways == Spec => []Growing
<1>1. Init => Growing
  BY KeepsReflexive DEF Init, Growing, Fresh
<1>2. TypeOK /\ Growing /\ [Next]_vars => Growing'
  BY GrowingStep
<1> QED BY <1>1, <1>2, IngestTypes, PTL DEF Spec

\* No interleaving of any number of ingests deletes a row or replaces the first
\* custody record of a line.
THEOREM FirstSourceIsKept == Spec => FirstSourceKept
<1>1. TypeOK /\ Growing /\ [Next]_vars => [Keeps(db, db')]_db
  BY GrowingStep
<1> QED BY <1>1, IngestTypes, GrowingAlways, PTL DEF Spec, FirstSourceKept

-----------------------------------------------------------------------------
\* Neither manifest.json nor what any process has read for one is ahead.
Behind == ManifestNotAhead /\ \A p \in Procs : Within(snap[p], Ids(db))

LEMMA KeepsWithin ==
    ASSUME NEW m, NEW t, NEW u, Within(m, Ids(t)), Keeps(t, u) PROVE Within(m, Ids(u))
BY DEF Within, Keeps, Ids

LEMMA BehindStep == TypeOK /\ Growing /\ Behind /\ [Next]_vars => Behind'
<1> SUFFICES ASSUME TypeOK, Growing, Behind, [Next]_vars PROVE Behind'
  OBVIOUS
<1>1. Keeps(db, db')
  BY GrowingStep
<1>2. \A m : Within(m, Ids(db)) => Within(m, Ids(db'))
  BY <1>1, KeepsWithin
<1>3. CASE manifest' = manifest /\ snap' = snap
  BY <1>2, <1>3 DEF Behind, ManifestNotAhead
<1>4. ASSUME NEW p \in Procs, ReadTable(p) PROVE Behind'
  <2>1. pc[p] \in {"evidence", "events", "assertions"} /\ db' = db
        /\ manifest' = manifest /\ snap' = [snap EXCEPT ![p][pc[p]] = Ids(db)[pc[p]]]
    BY <1>4 DEF ReadTable, AfterReading
  <2>2. snap[p] \in Manifests /\ Within(snap[p], Ids(db))
    BY DEF TypeOK, Behind
  <2>3. Within([snap[p] EXCEPT ![pc[p]] = Ids(db)[pc[p]]], Ids(db))
    BY <2>1, <2>2 DEF Within, Manifests, Ids
  <2>4. \A q \in Procs : Within(snap'[q], Ids(db))
    BY <2>1, <2>3 DEF TypeOK, Behind
  <2> QED BY <2>1, <2>4 DEF Behind, ManifestNotAhead
<1>5. ASSUME NEW p \in Procs, TruncateManifest(p) PROVE Behind'
  BY <1>2, <1>5 DEF TruncateManifest, Behind, ManifestNotAhead
<1>6. ASSUME NEW p \in Procs, WriteManifest(p) PROVE Behind'
  BY <1>2, <1>6 DEF WriteManifest, Behind, ManifestNotAhead
<1> QED
  BY <1>3, <1>4, <1>5, <1>6
  DEF Next, Step, Begin, AdapterRaises, PutBlob, Select, StoreRecord, SkipRecord,
      RejectRecord, LockTimeout, Commit, Interrupt, Abort, Finished, vars

\* However the table reads of record_manifest interleave with commits, the file
\* never names an object that is not committed.
THEOREM ManifestIsBehind == Spec => []ManifestNotAhead
<1>1. Init => Behind
  BY DEF Init, Behind, ManifestNotAhead, Within
<1>2. Behind => ManifestNotAhead
  BY DEF Behind
<1> QED BY <1>1, <1>2, IngestTypes, GrowingAlways, BehindStep, PTL DEF Spec

-----------------------------------------------------------------------------
\* Every custody record of the tables is backed by rows of the tables.
AllBacked(tables) ==
    \A l \in Lines : \A c \in Range(tables.evidence[l]) : Backed(tables, l, c)

\* What p read of a chain of custody is backed by the tables p sees.
SeenBacked(p) ==
    pc[p] = "store" => \A c \in Range(seen[p]) : Backed(View(p), Line(p), c)

Honest == AllBacked(db) /\ AllBacked(image) /\ \A p \in Procs : SeenBacked(p)

LEMMA BackedKept ==
    ASSUME NEW t, NEW u, Keeps(t, u), NEW l, NEW c, Backed(t, l, c) PROVE Backed(u, l, c)
BY DEF Backed, Keeps

LEMMA RangeAppend ==
    ASSUME NEW S, NEW s \in Seq(S), NEW e \in S
    PROVE  Range(Append(s, e)) = Range(s) \cup {e}
<1>1. Append(s, e) \in Seq(S) /\ Len(Append(s, e)) = Len(s) + 1
  OBVIOUS
<1>2. \A i \in 1 .. Len(s) : Append(s, e)[i] = s[i]
  OBVIOUS
<1>3. Append(s, e)[Len(s) + 1] = e
  OBVIOUS
<1>4. DOMAIN s = 1 .. Len(s) /\ DOMAIN Append(s, e) = 1 .. Len(s) + 1 /\ Len(s) \in Nat
  BY <1>1
<1>5. Range(s) \cup {e} \subseteq Range(Append(s, e))
  BY <1>2, <1>3, <1>4 DEF Range
<1>6. Range(Append(s, e)) \subseteq Range(s) \cup {e}
  <2> SUFFICES ASSUME NEW i \in DOMAIN Append(s, e)
               PROVE  Append(s, e)[i] \in Range(s) \cup {e}
    BY DEF Range
  <2>1. CASE i = Len(s) + 1
    BY <1>3, <2>1
  <2>2. CASE i \in 1 .. Len(s)
    BY <1>2, <1>4, <2>2 DEF Range
  <2> QED BY <1>4, <2>1, <2>2
<1> QED BY <1>5, <1>6

LEMMA StoredBacked ==
    ASSUME TypeOK, NEW p \in Procs, pc[p] = "store", Fresh(p), ~Collides(p),
           AllBacked(View(p)), SeenBacked(p)
    PROVE  AllBacked(Stored(p))
<1>1. Keeps(View(p), Stored(p))
  BY StoredKeeps
<1>2. View(p) \in Tables /\ seen[p] \in Seq(CustodyRecords)
      /\ NewCustody(p) \in CustodyRecords /\ Line(p) \in Lines
  BY ViewType, RecordRow DEF TypeOK, Line, Rows
<1>3. Backed(Stored(p), Line(p), NewCustody(p))
  BY DEF Backed, Stored, NewCustody, Custody, Record, Line
<1> SUFFICES ASSUME NEW l \in Lines, NEW c \in Range(Stored(p).evidence[l])
             PROVE  Backed(Stored(p), l, c)
  BY DEF AllBacked
<1>4. CASE l # Line(p)
  <2>1. c \in Range(View(p).evidence[l])
    BY <1>4, StoredRows
  <2> QED BY <1>1, <2>1, BackedKept DEF AllBacked
<1>5. CASE l = Line(p)
  <2>1. Stored(p).evidence[l] = Merged(p)
    BY <1>2, <1>5 DEF Stored, Tables
  <2>2. \/ c \in Range(View(p).evidence[l])
        \/ c \in Range(Append(seen[p], NewCustody(p)))
    BY <1>5, <2>1 DEF Merged
  <2>3. c \in Range(View(p).evidence[l]) \cup Range(seen[p]) \cup {NewCustody(p)}
    BY <1>2, <2>2, RangeAppend
  <2>4. Backed(View(p), l, c) \/ c = NewCustody(p)
    BY <1>5, <2>3 DEF AllBacked, SeenBacked
  <2> QED BY <1>1, <1>3, <1>5, <2>4, BackedKept
<1> QED BY <1>4, <1>5

LEMMA SeenBackedKept ==
    ASSUME TypeOK, NEW q \in Procs, SeenBacked(q), Keeps(View(q), View(q)'),
           pc'[q] = "store" => pc[q] = "store" /\ UNCHANGED <<seen[q], cmd[q], at[q]>>
    PROVE  SeenBacked(q)'
<1> SUFFICES ASSUME pc'[q] = "store", NEW c \in Range(seen[q])
             PROVE  Backed(View(q)', Line(q)', c)
  BY DEF SeenBacked, Backed
<1>1. Line(q)' = Line(q)
  BY DEF Line, Record
<1> QED BY <1>1, BackedKept DEF SeenBacked
LEMMA HonestStep == TypeOK /\ Growing /\ Honest /\ [Next]_vars => Honest'
<1> USE NoProcAssumption
<1> SUFFICES ASSUME TypeOK, Growing, Honest, [Next]_vars PROVE Honest'
  OBVIOUS
<1>1. ASSUME UNCHANGED <<db, image, lock>>,
             \A q \in Procs : pc'[q] = "store" =>
                 pc[q] = "store" /\ UNCHANGED <<seen[q], cmd[q], at[q]>>
      PROVE  Honest'
  <2>1. ASSUME NEW q \in Procs PROVE SeenBacked(q)'
    <3>1. View(q)' = View(q)
      BY <1>1 DEF View
    <3> QED BY <1>1, <3>1, SeenBackedKept, KeepsReflexive DEF Honest
  <2>2. AllBacked(db)' /\ AllBacked(image)'
    BY <1>1 DEF Honest, AllBacked, Backed
  <2> QED BY <2>1, <2>2 DEF Honest
<1>2. CASE UNCHANGED vars
  BY <1>1, <1>2 DEF vars
<1>3. ASSUME NEW p \in Procs, NEW c \in Commands, Begin(p, c) PROVE Honest'
  BY <1>1, <1>3 DEF Begin, TypeOK
<1>4. ASSUME NEW p \in Procs, PutBlob(p) PROVE Honest'
  BY <1>1, <1>4 DEF PutBlob, TypeOK
<1>5. ASSUME NEW p \in Procs, Select(p) PROVE Honest'
  <2>1. \A q \in Procs : View(q)' = View(q) /\ Line(q)' = Line(q)
    BY <1>5 DEF Select, View, Line, Record
  <2>2. AllBacked(View(p)) /\ Line(p) \in Lines
    BY <1>5, RecordRow DEF Honest, View, Select, TypeOK, Line, Rows
  <2>3. SeenBacked(p)'
    <3>1. seen'[p] = View(p).evidence[Line(p)]
      BY <1>5 DEF Select, TypeOK
    <3>2. \A c \in Range(seen'[p]) : Backed(View(p), Line(p), c)
      BY <2>2, <3>1 DEF AllBacked
    <3> QED BY <2>1, <3>2 DEF SeenBacked, Backed
  <2>4. ASSUME NEW q \in Procs, q # p PROVE SeenBacked(q)'
    BY <1>5, <2>1, <2>4, SeenBackedKept, KeepsReflexive DEF Honest, Select, TypeOK
  <2>5. AllBacked(db)' /\ AllBacked(image)'
    BY <1>5 DEF Select, Honest, AllBacked, Backed
  <2> QED BY <2>3, <2>4, <2>5 DEF Honest
<1>6. ASSUME NEW p \in Procs, StoreRecord(p) PROVE Honest'
  <2>1. AllBacked(Stored(p))
    BY <1>6, StoredBacked DEF StoreRecord, Honest, Growing, View
  <2>2. AllBacked(db)' /\ AllBacked(image)'
    BY <1>6, <2>1 DEF StoreRecord, Honest, AllBacked, Backed
  <2>3. ASSUME NEW q \in Procs, q # p PROVE SeenBacked(q)'
    <3>1. View(q)' = View(q)
      BY <1>6, <2>3 DEF StoreRecord, View, CanWrite
    <3> QED BY <1>6, <2>3, <3>1, SeenBackedKept, KeepsReflexive
            DEF Honest, StoreRecord, Advance, TypeOK
  <2>4. SeenBacked(p)'
    BY <1>6 DEF SeenBacked, StoreRecord, Advance, TypeOK
  <2> QED BY <2>2, <2>3, <2>4 DEF Honest
<1>7. ASSUME NEW p \in Procs, SkipRecord(p) PROVE Honest'
  BY <1>1, <1>7 DEF SkipRecord, Advance, TypeOK
<1>8. ASSUME NEW p \in Procs, Commit(p) PROVE Honest'
  <2>1. AllBacked(db)' /\ AllBacked(image)'
    BY <1>8 DEF Commit, View, Honest, AllBacked, Backed
  <2>2. Keeps(db, db')
    BY GrowingStep
  <2>3. ASSUME NEW q \in Procs, q # p PROVE SeenBacked(q)'
    <3>1. Keeps(View(q), View(q)')
      BY <1>8, <2>2, <2>3, KeepsReflexive DEF Commit, View
    <3> QED BY <1>8, <2>3, <3>1, SeenBackedKept DEF Commit, TypeOK, Honest
  <2>4. SeenBacked(p)'
    BY <1>8 DEF SeenBacked, Commit, TypeOK
  <2> QED BY <2>1, <2>3, <2>4 DEF Honest
<1>9. ASSUME NEW p \in Procs, ReadTable(p) PROVE Honest'
  BY <1>1, <1>9 DEF ReadTable, AfterReading, TypeOK
<1>10. ASSUME NEW p \in Procs, TruncateManifest(p) PROVE Honest'
  BY <1>1, <1>10 DEF TruncateManifest, TypeOK
<1>11. ASSUME NEW p \in Procs, WriteManifest(p) PROVE Honest'
  BY <1>1, <1>11 DEF WriteManifest, TypeOK
<1>12. ASSUME NEW p \in Procs, Abort(p) PROVE Honest'
  <2>1. AllBacked(db)' /\ AllBacked(image)'
    BY <1>12 DEF Abort, Rollback, Honest, AllBacked, Backed
  <2>2. ASSUME NEW q \in Procs, q # p PROVE SeenBacked(q)'
    <3>1. View(q)' = View(q)
      BY <1>12, <2>2 DEF Abort, Rollback, View
    <3> QED BY <1>12, <2>2, <3>1, SeenBackedKept, KeepsReflexive DEF Abort, TypeOK, Honest
  <2>3. SeenBacked(p)'
    BY <1>12 DEF SeenBacked, Abort, TypeOK
  <2> QED BY <2>1, <2>2, <2>3 DEF Honest
<1> QED
  BY <1>2, <1>3, <1>4, <1>5, <1>6, <1>7, <1>8, <1>9, <1>10, <1>11, <1>12
  DEF Next, Step, AdapterRaises, RejectRecord, LockTimeout, Interrupt, Finished

\* Whatever a chain of custody says was ingested is there with the event and
\* the time assertion derived from it, in every committed state.
LEMMA CustodyIsBacked == Spec => []CustodyHasDerived
<1>1. Init => Honest
  BY DEF Init, Honest, AllBacked, SeenBacked, NoRows, Range
<1>2. Honest => CustodyHasDerived
  BY DEF Honest, AllBacked, CustodyHasDerived
<1> QED BY <1>1, <1>2, IngestTypes, GrowingAlways, HonestStep, PTL DEF Spec

\* For any processes, sources and cuts: no evidence row without its blob, and no
\* committed custody record without what was derived from it.
THEOREM EvidenceIsComplete == Spec => []EvidenceComplete
BY BlobBeforeRow, CustodyIsBacked, PTL DEF EvidenceComplete
-----------------------------------------------------------------------------
\* The tables that compute_manifest has read when a command is at a stage.
Before == [evidence |-> {}, events |-> {"evidence"}, assertions |-> {"evidence", "events"},
           truncate |-> DOMAIN AfterReading, record |-> DOMAIN AfterReading]

\* One process at a time: what it has read since it committed is what is there,
Calm ==
    \A p \in Procs : pc[p] \in DOMAIN Before =>
        stale /\ \A k \in Before[pc[p]] : snap[p][k] = Ids(db)[k]

\* and a manifest that no commit has followed is that of the case.
Current == ~stale => manifest = Ids(db)

ManifestInv == TypeOK /\ Calm /\ Current

LEMMA CalmSnapshot ==
    ASSUME TypeOK, Calm, NEW p \in Procs, pc[p] = "record"
    PROVE  snap[p] = Ids(db)
<1>1. snap[p] \in Manifests /\ Ids(db) \in Manifests
  BY IdsType DEF TypeOK
<1>2. \A k \in {"evidence", "events", "assertions"} : snap[p][k] = Ids(db)[k]
  BY DEF Calm, Before, AfterReading
<1> QED BY <1>1, <1>2 DEF Manifests

LEMMA ReadTableCalm ==
    ASSUME TypeOK, Calm, \A p, q \in Procs : p = q, NEW p \in Procs, ReadTable(p)
    PROVE  Calm'
<1>1. /\ snap' = [snap EXCEPT ![p][pc[p]] = Ids(db)[pc[p]]]
      /\ pc' = [pc EXCEPT ![p] = AfterReading[pc[p]]]
      /\ db' = db /\ stale' = stale
      /\ snap[p] \in Manifests /\ snap \in [Procs -> Manifests] /\ DOMAIN pc = Procs
      /\ pc[p] \in {"evidence", "events", "assertions"}
  BY DEF ReadTable, TypeOK, AfterReading
<1>2. /\ pc[p] \in DOMAIN Before /\ pc'[p] = AfterReading[pc[p]]
      /\ Before[AfterReading[pc[p]]] = Before[pc[p]] \cup {pc[p]}
  BY <1>1 DEF Before, AfterReading
<1>3. stale' /\ Ids(db)' = Ids(db)
  BY <1>1, <1>2 DEF Calm, Ids
<1>4. DOMAIN snap[p] = {"evidence", "events", "assertions"}
  BY <1>1 DEF Manifests
<1>5. snap'[p] = [snap[p] EXCEPT ![pc[p]] = Ids(db)[pc[p]]]
  BY <1>1
<1>6. ASSUME NEW k \in Before[pc'[p]] PROVE snap'[p][k] = Ids(db)[k]
  <2>1. CASE k = pc[p]
    BY <1>1, <1>4, <1>5, <2>1
  <2>2. CASE k # pc[p]
    <3>1. k \in Before[pc[p]] BY <1>2, <2>2
    <3>2. snap'[p][k] = snap[p][k] BY <1>5, <2>2
    <3> QED BY <1>2, <3>1, <3>2 DEF Calm
  <2> QED BY <2>1, <2>2
<1> QED BY <1>3, <1>6 DEF Calm, Before

LEMMA ManifestStep ==
    ASSUME \A p, q \in Procs : p = q
    PROVE  ManifestInv /\ [Next]_vars => ManifestInv'
<1> SUFFICES ASSUME ManifestInv, [Next]_vars PROVE ManifestInv'
  OBVIOUS
<1>0. TypeOK /\ TypeOK' /\ DOMAIN pc = Procs
  BY TypeStep DEF ManifestInv, TypeOK
<1>r. ASSUME db' = db, snap' = snap, stale' = stale, manifest' = manifest,
             \A q \in Procs : pc'[q] \in DOMAIN Before => pc'[q] = pc[q]
      PROVE  ManifestInv'
  <2>1. Ids(db)' = Ids(db)
    BY <1>r DEF Ids
  <2>2. Calm'
    BY <1>r, <2>1 DEF ManifestInv, Calm, Before
  <2> QED BY <1>0, <1>r, <2>1, <2>2 DEF ManifestInv, Current
<1>1. CASE UNCHANGED vars
  BY <1>1, <1>r DEF vars
<1>2. ASSUME NEW p \in Procs, Abort(p) PROVE ManifestInv'
  <2>1. \A q \in Procs : pc'[q] \in DOMAIN Before => pc'[q] = pc[q]
    BY <1>0, <1>2 DEF Abort, Before
  <2> QED BY <1>2, <1>r, <2>1 DEF Abort
<1>3. ASSUME NEW p \in Procs,
             \/ \E c \in Commands : Begin(p, c)
             \/ PutBlob(p) \/ Select(p) \/ StoreRecord(p) \/ SkipRecord(p)
      PROVE  ManifestInv'
  <2>1. \A q \in Procs : pc'[q] \in DOMAIN Before => pc'[q] = pc[q]
    BY <1>0, <1>3 DEF Begin, PutBlob, Select, StoreRecord, SkipRecord, Advance, Before
  <2> QED BY <1>3, <1>r, <2>1
          DEF Begin, PutBlob, Select, StoreRecord, SkipRecord
<1>4. ASSUME NEW p \in Procs, Commit(p) PROVE ManifestInv'
  <2>1. stale' /\ pc'[p] = "evidence"
    BY <1>0, <1>4 DEF Commit
  <2> QED BY <1>0, <2>1 DEF ManifestInv, Calm, Before, Current
<1>5. ASSUME NEW p \in Procs, ReadTable(p) PROVE ManifestInv'
  <2>1. db' = db /\ stale' = stale /\ manifest' = manifest
    BY <1>5 DEF ReadTable
  <2>2. Current'
    BY <2>1 DEF ManifestInv, Current, Ids
  <2> QED BY <1>0, <1>5, <2>2, ReadTableCalm DEF ManifestInv
<1>6. ASSUME NEW p \in Procs, TruncateManifest(p) PROVE ManifestInv'
  <2>1. /\ db' = db /\ snap' = snap /\ stale' = stale
        /\ pc[p] = "truncate" /\ pc'[p] = "record"
    BY <1>0, <1>6 DEF TruncateManifest
  <2>2. Ids(db)' = Ids(db)
    BY <2>1 DEF Ids
  <2>3. stale /\ \A k \in DOMAIN AfterReading : snap[p][k] = Ids(db)[k]
    BY <2>1 DEF ManifestInv, Calm, Before
  <2> QED BY <1>0, <2>1, <2>2, <2>3 DEF ManifestInv, Calm, Before, Current
<1>7. ASSUME NEW p \in Procs, WriteManifest(p) PROVE ManifestInv'
  <2>1. /\ db' = db /\ manifest' = snap[p] /\ pc[p] = "record" /\ pc'[p] = "idle"
    BY <1>0, <1>7 DEF WriteManifest
  <2>2. snap[p] = Ids(db) /\ Ids(db)' = Ids(db)
    BY <1>0, <2>1, CalmSnapshot DEF ManifestInv, Ids
  <2> QED BY <1>0, <2>1, <2>2 DEF ManifestInv, Calm, Before, Current
<1> QED BY <1>1, <1>2, <1>3, <1>4, <1>5, <1>6, <1>7
        DEF Next, Step, AdapterRaises, RejectRecord, LockTimeout, Interrupt, Finished

\* One process at a time: with no command running, the manifest is that of the
\* case, or a commit has not been followed by a whole record_manifest.  (Two
\* processes can write their manifests in the order opposite to their commits.)
THEOREM ManifestIsCurrent ==
    ASSUME \A p, q \in Procs : p = q
    PROVE  Spec => []ManifestCurrent
<1>1. Init => ManifestInv
  BY TypeInit DEF Init, ManifestInv, Calm, Before, Current
<1>2. ManifestInv /\ [Next]_vars => ManifestInv'
  BY ManifestStep
<1>3. ManifestInv => ManifestCurrent
  BY DEF ManifestInv, Current, ManifestCurrent
<1> QED BY <1>1, <1>2, <1>3, PTL DEF Spec

-----------------------------------------------------------------------------
(***************************************************************************)
(* One process at a time, a source enters the case in one step             *)
(* (AtomicIngest).                                                         *)
(***************************************************************************)

\* A set that has 0 and, of each of its numbers, the next has all numbers.
LEMMA SetInduction ==
    ASSUME NEW S, 0 \in S, \A n \in Nat : n \in S => n + 1 \in S
    PROVE  \A n \in Nat : n \in S
<1> DEFINE T == Nat \ S
           R == {ss \in Nat \X Nat : ss[1] < ss[2]}
<1> SUFFICES ASSUME T # {} PROVE FALSE
  OBVIOUS
<1>1. IsWellFoundedOn(R, Nat)
  BY NatLessThanWellFounded DEF OpToRel
<1>2. PICK m \in T : \A y \in T : <<y, m>> \notin R
  <2>1. T \subseteq Nat
    OBVIOUS
  <2> HIDE DEF R, T
  <2> QED BY <1>1, <2>1, WFMin
<1>3. m # 0
  OBVIOUS
<1>4. m - 1 \in Nat /\ <<m - 1, m>> \in R
  BY <1>3
<1>5. m - 1 \notin T
  BY <1>2, <1>4
<1> QED BY <1>4, <1>5

\* Record k of s, ingested at t, is added to a chain of custody x of l that was
\* that of tables.
Added(tables, s, t, l, k, x) ==
    IF Records[s][k].line = l /\ Custody(s, k, t) \notin Range(tables.evidence[l])
    THEN Append(x, Custody(s, k, t)) ELSE x

IsChain(f, tables, s, t, l, n) ==
    f = [k \in 0 .. n |-> IF k = 0 THEN tables.evidence[l]
                          ELSE Added(tables, s, t, l, k, f[k - 1])]

LEMMA ChainExists ==
    ASSUME NEW tables, NEW s, NEW t, NEW l, NEW n \in Nat
    PROVE  \E f : IsChain(f, tables, s, t, l, n)
<1> DEFINE S == {m \in Nat : \E f : IsChain(f, tables, s, t, l, m)}
<1>1. 0 \in S
  <2> DEFINE f == [k \in 0 .. 0 |-> tables.evidence[l]]
  <2>1. IsChain(f, tables, s, t, l, 0)
    BY DEF IsChain
  <2> QED BY <2>1
<1>2. ASSUME NEW m \in Nat, m \in S PROVE m + 1 \in S
  <2>1. PICK f : IsChain(f, tables, s, t, l, m)
    BY <1>2
  <2> DEFINE g == [k \in 0 .. m + 1 |-> IF k = m + 1 THEN Added(tables, s, t, l, k, f[m])
                                        ELSE f[k]]
  <2>2. \A k \in 0 .. m + 1 : k # m + 1 => k \in 0 .. m /\ g[k] = f[k]
    OBVIOUS
  <2>3. g[m + 1] = Added(tables, s, t, l, m + 1, g[m]) /\ (m + 1) - 1 = m /\ m + 1 # 0
    OBVIOUS
  <2>4. \A k \in 0 .. m : f[k] = IF k = 0 THEN tables.evidence[l]
                                 ELSE Added(tables, s, t, l, k, f[k - 1])
    BY <2>1 DEF IsChain
  <2>5. \A k \in 0 .. m : k # 0 => k - 1 \in 0 .. m + 1 /\ k - 1 # m + 1
    OBVIOUS
  <2>6. g = [k \in 0 .. m + 1 |-> g[k]]
    OBVIOUS
  <2> HIDE DEF g
  <2>7. \A k \in 0 .. m + 1 : g[k] = IF k = 0 THEN tables.evidence[l]
                                     ELSE Added(tables, s, t, l, k, g[k - 1])
    BY <2>2, <2>3, <2>4, <2>5
  <2>8. IsChain(g, tables, s, t, l, m + 1)
    BY <2>6, <2>7 DEF IsChain
  <2> QED BY <2>8
<1> HIDE DEF S
<1>3. n \in S
  BY <1>1, <1>2, SetInduction
<1> QED BY <1>3 DEF S

\* The chains of custody of l that ingesting s at t makes, by the number of records.
Chain(tables, s, t, l) == CHOOSE f : IsChain(f, tables, s, t, l, Len(Records[s]))

LEMMA ChainIsChains ==
    ASSUME NEW tables, NEW s, NEW t, NEW l
    PROVE  Atomic!Chains(tables, s, t, l) = Chain(tables, s, t, l)
BY DEF Atomic!Chains, Atomic!Custody, Atomic!Range, Chain, IsChain, Added, Custody, Range

LEMMA ChainSteps ==
    ASSUME NEW tables, NEW s \in Sources, NEW t, NEW l
    PROVE  /\ Chain(tables, s, t, l)[0] = tables.evidence[l]
           /\ \A k \in 1 .. Len(Records[s]) :
                 Chain(tables, s, t, l)[k]
                    = Added(tables, s, t, l, k, Chain(tables, s, t, l)[k - 1])
<1> DEFINE n == Len(Records[s])
           f == Chain(tables, s, t, l)
<1>1. n \in Nat
  BY RecordsAssumption
<1>2. IsChain(f, tables, s, t, l, n)
  BY <1>1, ChainExists DEF Chain
<1> HIDE DEF f, n
<1>3. \A k \in 0 .. n : f[k] = IF k = 0 THEN tables.evidence[l]
                               ELSE Added(tables, s, t, l, k, f[k - 1])
  BY <1>2 DEF IsChain
<1>4. 0 \in 0 .. n /\ \A k \in 1 .. n : k \in 0 .. n /\ k # 0
  BY <1>1
<1> QED BY <1>3, <1>4 DEF n, f

LEMMA ChainStart ==
    ASSUME NEW tables, NEW s \in Sources, NEW t, NEW l
    PROVE  Chain(tables, s, t, l)[0] = tables.evidence[l]
<1> DEFINE f == Chain(tables, s, t, l)
<1>1. /\ f[0] = tables.evidence[l]
      /\ \A k \in 1 .. Len(Records[s]) : f[k] = Added(tables, s, t, l, k, f[k - 1])
  BY ChainSteps
<1> HIDE DEF f
<1>2. f[0] = tables.evidence[l]
  BY <1>1
<1> QED BY <1>2 DEF f

LEMMA ChainStep ==
    ASSUME NEW tables, NEW s \in Sources, NEW t, NEW l, NEW k \in 1 .. Len(Records[s])
    PROVE  Chain(tables, s, t, l)[k] = Added(tables, s, t, l, k, Chain(tables, s, t, l)[k - 1])
<1> DEFINE f == Chain(tables, s, t, l)
<1>1. /\ f[0] = tables.evidence[l]
      /\ \A i \in 1 .. Len(Records[s]) : f[i] = Added(tables, s, t, l, i, f[i - 1])
  BY ChainSteps
<1> HIDE DEF f
<1>2. f[k] = Added(tables, s, t, l, k, f[k - 1])
  BY <1>1
<1> QED BY <1>2 DEF f

\* The chain x holds what the chain base does and of the first m records alone.
Holds(x, base, s, t, m) ==
    /\ x \in Seq(CustodyRecords)
    /\ Range(base) \subseteq Range(x)
    /\ \A c \in Range(x) : c \in Range(base) \/ \E i \in 1 .. m : c = Custody(s, i, t)

LEMMA ChainHolds ==
    ASSUME NEW tables \in Tables, NEW s \in Sources, NEW t \in Instants, NEW l \in Lines,
           NEW m \in 0 .. Len(Records[s])
    PROVE  Holds(Chain(tables, s, t, l)[m], tables.evidence[l], s, t, m)
<1> DEFINE f == Chain(tables, s, t, l)
           n == Len(Records[s])
           base == tables.evidence[l]
           S == {k \in Nat : k <= n => Holds(f[k], base, s, t, k)}
<1>1. n \in Nat /\ m \in Nat /\ m <= n
  BY RecordsAssumption
<1>2. f[0] = base /\ \A k \in 1 .. n : f[k] = Added(tables, s, t, l, k, f[k - 1])
  BY ChainSteps
<1>3. base \in Seq(CustodyRecords)
  BY DEF Tables
<1> HIDE DEF f, n, base
<1>4. 0 \in S
  BY <1>2, <1>3 DEF Holds
<1>5. ASSUME NEW k \in Nat, k \in S PROVE k + 1 \in S
  <2> SUFFICES ASSUME k + 1 <= n PROVE Holds(f[k + 1], base, s, t, k + 1)
    OBVIOUS
  <2>1. Holds(f[k], base, s, t, k)
    BY <1>1, <1>5
  <2>2. f[k + 1] = Added(tables, s, t, l, k + 1, f[k])
    BY <1>1, <1>2
  <2>3. Custody(s, k + 1, t) \in CustodyRecords
    BY DEF Custody, CustodyRecords
  <2>4. CASE f[k + 1] = f[k]
    BY <2>1, <2>4 DEF Holds
  <2>5. CASE f[k + 1] = Append(f[k], Custody(s, k + 1, t))
    <3>1. Range(f[k + 1]) = Range(f[k]) \cup {Custody(s, k + 1, t)}
      BY <2>1, <2>3, <2>5, RangeAppend DEF Holds
    <3>2. f[k + 1] \in Seq(CustodyRecords)
      BY <2>1, <2>3, <2>5 DEF Holds
    <3>3. \A i \in 1 .. k : i \in 1 .. k + 1
      OBVIOUS
    <3>4. k + 1 \in 1 .. k + 1
      OBVIOUS
    <3> QED BY <2>1, <3>1, <3>2, <3>3, <3>4 DEF Holds
  <2> QED BY <2>2, <2>4, <2>5 DEF Added
<1> HIDE DEF S
<1>6. m \in S
  BY <1>1, <1>4, <1>5, SetInduction
<1> QED BY <1>1, <1>6 DEF S, f, base

\* The tables when the first k records of s have been ingested at t.
Part(tables, s, t, k) ==
    [evidence |-> [l \in Lines |-> Chain(tables, s, t, l)[k]],
     events |-> tables.events \cup UNION {EventsOf(Records[s][i]) : i \in 1 .. k},
     assertions |-> tables.assertions \cup UNION {AssertionsOf(Records[s][i]) : i \in 1 .. k}]

LEMMA PartNone ==
    ASSUME NEW tables \in Tables, NEW s \in Sources, NEW t
    PROVE  Part(tables, s, t, 0) = tables
<1>1. ASSUME NEW l \in Lines PROVE Chain(tables, s, t, l)[0] = tables.evidence[l]
  BY ChainStart
<1>2. [l \in Lines |-> Chain(tables, s, t, l)[0]] = tables.evidence
  BY <1>1 DEF Tables
<1>3. \A G : UNION {G[i] : i \in 1 .. 0} = {}
  OBVIOUS
<1>4. /\ UNION {EventsOf(Records[s][i]) : i \in 1 .. 0} = {}
      /\ UNION {AssertionsOf(Records[s][i]) : i \in 1 .. 0} = {}
  OBVIOUS
<1> QED BY <1>2, <1>4 DEF Part, Tables

LEMMA NewInChain ==
    ASSUME NEW tables \in Tables, NEW s \in Sources, NEW t \in Instants, NEW l \in Lines,
           NEW k \in 1 .. Len(Records[s])
    PROVE  Custody(s, k, t) \in Range(tables.evidence[l])
              <=> Custody(s, k, t) \in Range(Chain(tables, s, t, l)[k - 1])
<1>1. k \in Nat /\ k - 1 \in 0 .. Len(Records[s])
  BY RecordsAssumption
<1> SUFFICES ASSUME NEW j \in 0 .. Len(Records[s]), j = k - 1
             PROVE  Custody(s, k, t) \in Range(tables.evidence[l])
                       <=> Custody(s, k, t) \in Range(Chain(tables, s, t, l)[j])
  BY <1>1
<1>2. \A i \in 1 .. j : Custody(s, i, t) # Custody(s, k, t)
  BY <1>1 DEF Custody
<1>3. /\ Range(tables.evidence[l]) \subseteq Range(Chain(tables, s, t, l)[j])
      /\ \A c \in Range(Chain(tables, s, t, l)[j]) :
            c \in Range(tables.evidence[l]) \/ \E i \in 1 .. j : c = Custody(s, i, t)
  <2>1. Holds(Chain(tables, s, t, l)[j], tables.evidence[l], s, t, j)
    BY ChainHolds
  <2> QED BY <2>1 DEF Holds
<1> QED BY <1>2, <1>3

\* What put_evidence appends of record k is what AtomicIngest appends.
LEMMA PartNext ==
    ASSUME NEW tables \in Tables, NEW s \in Sources, NEW t \in Instants,
           NEW k \in 1 .. Len(Records[s])
    PROVE  LET v == Part(tables, s, t, k - 1)
               r == Records[s][k]
               c == Custody(s, k, t)
           IN Part(tables, s, t, k) =
                 [evidence |-> [v.evidence EXCEPT ![r.line] =
                                    IF c \in Range(v.evidence[r.line]) THEN v.evidence[r.line]
                                    ELSE Append(v.evidence[r.line], c)],
                  events |-> v.events \cup EventsOf(r),
                  assertions |-> v.assertions \cup AssertionsOf(r)]
<1> DEFINE v == Part(tables, s, t, k - 1)
           r == Records[s][k]
           c == Custody(s, k, t)
           f(l) == Chain(tables, s, t, l)
           e == [v.evidence EXCEPT ![r.line] =
                     IF c \in Range(v.evidence[r.line]) THEN v.evidence[r.line]
                     ELSE Append(v.evidence[r.line], c)]
<1>0. Records[s] \in Seq(Rows)
  BY RecordsAssumption DEF Rows
<1>1. k \in Nat /\ k - 1 \in 0 .. Len(Records[s])
  BY <1>0
<1>2. r \in Rows /\ r.line \in Lines
  <2>1. r \in Rows
    BY <1>0
  <2> HIDE DEF r
  <2> QED BY <2>1 DEF Rows
<1>3. v.evidence = [l \in Lines |-> f(l)[k - 1]]
  BY DEF Part
<1>5. ASSUME NEW l \in Lines PROVE f(l)[k] = e[l]
  <2>1. f(l)[k] = Added(tables, s, t, l, k, f(l)[k - 1])
    BY ChainStep
  <2>2. c \in Range(tables.evidence[l]) <=> c \in Range(f(l)[k - 1])
    BY NewInChain
  <2>3. v.evidence[l] = f(l)[k - 1]
    BY <1>3
  <2> HIDE DEF v, c, f, r
  <2>4. CASE l = r.line
    <3>1. e[l] = IF c \in Range(v.evidence[l]) THEN v.evidence[l] ELSE Append(v.evidence[l], c)
      BY <1>2, <1>3, <2>4
    <3>2. f(l)[k] = IF c \notin Range(tables.evidence[l]) THEN Append(f(l)[k - 1], c)
                    ELSE f(l)[k - 1]
      BY <2>1, <2>4 DEF Added, c, r
    <3> QED BY <2>2, <2>3, <3>1, <3>2
  <2>5. CASE l # r.line
    <3>1. e[l] = v.evidence[l]
      BY <1>3, <2>5
    <3>2. f(l)[k] = f(l)[k - 1]
      BY <2>1, <2>5 DEF Added, r
    <3> QED BY <2>3, <3>1, <3>2
  <2> QED BY <2>4, <2>5
<1>6. [l \in Lines |-> f(l)[k]] = e
  <2> HIDE DEF f
  <2>1. DOMAIN e = Lines /\ e = [l \in DOMAIN e |-> e[l]]
    BY <1>3
  <2> HIDE DEF e
  <2> QED BY <1>5, <2>1
<1>7. 1 .. k = (1 .. k - 1) \cup {k}
  BY <1>1
<1>8. UNION {EventsOf(Records[s][i]) : i \in 1 .. k}
        = (UNION {EventsOf(Records[s][i]) : i \in 1 .. k - 1}) \cup EventsOf(r)
  <2> HIDE DEF v, c, f, e
  <2> QED BY <1>7
<1>9. UNION {AssertionsOf(Records[s][i]) : i \in 1 .. k}
        = (UNION {AssertionsOf(Records[s][i]) : i \in 1 .. k - 1}) \cup AssertionsOf(r)
  <2> HIDE DEF v, c, f, e
  <2> QED BY <1>7
<1>10. /\ v.events = tables.events \cup UNION {EventsOf(Records[s][i]) : i \in 1 .. k - 1}
       /\ v.assertions = tables.assertions
                           \cup UNION {AssertionsOf(Records[s][i]) : i \in 1 .. k - 1}
  BY DEF Part
<1>11. Part(tables, s, t, k).events = v.events \cup EventsOf(r)
  BY <1>8, <1>10 DEF Part
<1>12. Part(tables, s, t, k).assertions = v.assertions \cup AssertionsOf(r)
  BY <1>9, <1>10 DEF Part
<1>13. Part(tables, s, t, k).evidence = e
  BY <1>6 DEF Part
<1>14. Part(tables, s, t, k) = [evidence |-> Part(tables, s, t, k).evidence,
                                events |-> Part(tables, s, t, k).events,
                                assertions |-> Part(tables, s, t, k).assertions]
  BY DEF Part
<1> QED BY <1>11, <1>12, <1>13, <1>14

LEMMA PartAll ==
    ASSUME NEW tables \in Tables, NEW s \in Sources, NEW t
    PROVE  Part(tables, s, t, Len(Records[s])) = Atomic!After(tables, s, t)
<1>1. Records[s] \in Seq(Rows)
  BY RecordsAssumption DEF Rows
<1>2. Atomic!Range(Records[s]) = {Records[s][i] : i \in 1 .. Len(Records[s])}
  BY <1>1 DEF Atomic!Range
<1>3. UNION {EventsOf(Records[s][i]) : i \in 1 .. Len(Records[s])}
        = UNION {Atomic!EventsOf(r) : r \in Atomic!Range(Records[s])}
  BY <1>2 DEF Atomic!EventsOf, EventsOf
<1>4. UNION {AssertionsOf(Records[s][i]) : i \in 1 .. Len(Records[s])}
        = UNION {Atomic!AssertionsOf(r) : r \in Atomic!Range(Records[s])}
  BY <1>2 DEF Atomic!AssertionsOf, AssertionsOf, Atomic!EventsOf, EventsOf
<1>5. ASSUME NEW l \in Lines
      PROVE  Chain(tables, s, t, l)[Len(Records[s])]
                = Atomic!Chains(tables, s, t, l)[Len(Records[s])]
  BY ChainIsChains
<1>6. [l \in Lines |-> Chain(tables, s, t, l)[Len(Records[s])]]
        = [l \in Lines |-> Atomic!Chains(tables, s, t, l)[Len(Records[s])]]
  BY <1>5
<1> QED BY <1>3, <1>4, <1>6 DEF Part, Atomic!After

\* What the process that has reached record at[p] sees is what there was before
\* its command with the records before that one, and it has read what it saw.
Reached(p) ==
    /\ at[p] \in 1 .. Len(Records[cmd[p].source]) + 1
    /\ \A i \in 1 .. at[p] - 1 : Records[cmd[p].source][i].reading # "bad"
    /\ pc[p] # "blob" => Record(p).reading # "bad"
    /\ View(p) = Part(db, cmd[p].source, cmd[p].at, at[p] - 1)
    /\ pc[p] = "store" => seen[p] = View(p).evidence[Line(p)]

Underway == \A p \in Procs : pc[p] \in {"blob", "select", "store"} => Reached(p)

AtomicInv == TypeOK /\ Underway

LEMMA CommandTypes ==
    ASSUME TypeOK, NEW p \in Procs
    PROVE  /\ cmd[p].source \in Sources /\ cmd[p].at \in Instants
           /\ Len(Records[cmd[p].source]) \in Nat
           /\ at[p] \in Nat \ {0} /\ db \in Tables
<1>1. cmd[p] \in Commands /\ at[p] \in Nat \ {0} /\ db \in Tables
  BY DEF TypeOK
<1>2. cmd[p].source \in Sources /\ cmd[p].at \in Instants
  BY <1>1 DEF Commands
<1> QED BY <1>1, <1>2, RecordsAssumption

LEMMA StoredPart ==
    ASSUME TypeOK, NEW p \in Procs, pc[p] = "store", Reached(p)
    PROVE  Stored(p) = Part(db, cmd[p].source, cmd[p].at, at[p])
<1> DEFINE s == cmd[p].source
           t == cmd[p].at
           k == at[p]
           v == Part(db, s, t, k - 1)
           r == Records[s][k]
           c == Custody(s, k, t)
<1>1. s \in Sources /\ t \in Instants /\ db \in Tables /\ k \in 1 .. Len(Records[s])
  BY CommandTypes DEF TypeOK, Exhausted
<1>2. View(p) = v /\ Record(p) = r /\ Line(p) = r.line /\ NewCustody(p) = c
      /\ seen[p] = v.evidence[r.line]
  BY DEF Reached, Record, Line, NewCustody
<1>3. Merged(p) = IF c \in Range(v.evidence[r.line]) THEN v.evidence[r.line]
                  ELSE Append(v.evidence[r.line], c)
  BY <1>2 DEF Merged
<1>4. Stored(p) = [evidence |-> [v.evidence EXCEPT ![r.line] =
                                    IF c \in Range(v.evidence[r.line]) THEN v.evidence[r.line]
                                    ELSE Append(v.evidence[r.line], c)],
                   events |-> v.events \cup EventsOf(r),
                   assertions |-> v.assertions \cup AssertionsOf(r)]
  BY <1>2, <1>3 DEF Stored
<1>5. Part(db, s, t, k) =
          [evidence |-> [v.evidence EXCEPT ![r.line] =
                             IF c \in Range(v.evidence[r.line]) THEN v.evidence[r.line]
                             ELSE Append(v.evidence[r.line], c)],
           events |-> v.events \cup EventsOf(r),
           assertions |-> v.assertions \cup AssertionsOf(r)]
  <2> HIDE DEF s, t, k
  <2> QED BY <1>1, PartNext
<1> HIDE DEF v, r, c
<1> QED BY <1>4, <1>5

\* What is skipped would have changed nothing.
LEMMA SkippedPart ==
    ASSUME TypeOK, NEW p \in Procs, pc[p] = "store", Reached(p), ~Writes(p)
    PROVE  View(p) = Stored(p)
<1>1. View(p) \in Tables /\ Record(p) \in Rows
  BY ViewType, RecordRow DEF TypeOK
<1>2. Line(p) \in Lines
  BY <1>1 DEF Line, Rows
<1>3. /\ Merged(p) = View(p).evidence[Line(p)]
      /\ View(p).events \cup EventsOf(Record(p)) = View(p).events
      /\ View(p).assertions \cup AssertionsOf(Record(p)) = View(p).assertions
  BY DEF Writes, Merged, Reached
<1>4. [View(p).evidence EXCEPT ![Line(p)] = Merged(p)] = View(p).evidence
  BY <1>1, <1>2, <1>3 DEF Tables
<1> QED BY <1>1, <1>3, <1>4 DEF Stored, Tables

\* The process alone takes a step: it has stored or skipped its record.
LEMMA NextReached ==
    ASSUME TypeOK, NEW p \in Procs, pc[p] = "store", Reached(p), Advance(p),
           UNCHANGED <<db, cmd, seen>>, View(p)' = Stored(p)
    PROVE  Reached(p)'
<1> DEFINE s == cmd[p].source
           t == cmd[p].at
<1>1. /\ at[p] \in 1 .. Len(Records[s]) /\ Len(Records[s]) \in Nat
      /\ at'[p] = at[p] + 1 /\ pc'[p] = "blob"
  BY CommandTypes DEF TypeOK, Exhausted, Advance
<1>2. at'[p] \in 1 .. Len(Records[s]) + 1 /\ at'[p] - 1 = at[p]
  BY <1>1
<1>3. \A i \in 1 .. at[p] : Records[s][i].reading # "bad"
  <2>1. \A i \in 1 .. at[p] : i = at[p] \/ i \in 1 .. at[p] - 1
    BY <1>1
  <2> QED BY <2>1 DEF Reached, Record
<1>4. View(p)' = Part(db, s, t, at[p])
  BY StoredPart
<1> QED BY <1>1, <1>2, <1>3, <1>4 DEF Reached

LEMMA AtomicStep ==
    ASSUME \A p, q \in Procs : p = q
    PROVE  AtomicInv /\ [Next]_vars => Underway' /\ [Atomic!Next]_db
<1> SUFFICES ASSUME AtomicInv, [Next]_vars PROVE Underway' /\ [Atomic!Next]_db
  OBVIOUS
<1>0. /\ TypeOK /\ TypeOK' /\ Underway
      /\ DOMAIN pc = Procs /\ DOMAIN at = Procs /\ DOMAIN cmd = Procs /\ DOMAIN seen = Procs
  BY TypeStep DEF AtomicInv, TypeOK
<1> DEFINE Inside == {"blob", "select", "store"}
<1>r. ASSUME db' = db, \A q \in Procs : pc'[q] \notin Inside
      PROVE  Underway' /\ [Atomic!Next]_db
  BY <1>r DEF Underway
<1>1. CASE UNCHANGED vars
  BY <1>0, <1>1 DEF vars, Underway, Reached, View, Record, Line
<1>2. ASSUME NEW p \in Procs, Abort(p) PROVE Underway' /\ [Atomic!Next]_db
  <2>1. pc'[p] = "idle" /\ db' = db
    BY <1>0, <1>2 DEF Abort
  <2> QED BY <2>1, <1>r
<1>3. ASSUME NEW p \in Procs, NEW c \in Commands, Begin(p, c)
      PROVE  Underway' /\ [Atomic!Next]_db
  <2>1. /\ db' = db /\ image' = image /\ lock' = lock
        /\ pc[p] = "idle" /\ pc'[p] = "blob" /\ cmd'[p] = c /\ at'[p] = 1
    BY <1>0, <1>3 DEF Begin
  <2>2. View(p)' = db
    BY <1>0, <2>1 DEF TypeOK, View
  <2>3. c.source \in Sources /\ db \in Tables /\ Len(Records[c.source]) \in Nat
    BY <1>0, RecordsAssumption DEF Commands, TypeOK
  <2>4. View(p)' = Part(db, c.source, c.at, 0)
    BY <2>2, <2>3, PartNone
  <2>5. Reached(p)'
    BY <2>1, <2>3, <2>4 DEF Reached
  <2> QED BY <2>1, <2>5 DEF Underway
<1>4. ASSUME NEW p \in Procs, PutBlob(p) PROVE Underway' /\ [Atomic!Next]_db
  <2>1. /\ UNCHANGED <<db, image, lock, cmd, at, seen>>
        /\ pc[p] = "blob" /\ pc'[p] = "select" /\ Record(p).reading # "bad"
    BY <1>0, <1>4 DEF PutBlob
  <2>2. Reached(p)
    BY <1>0, <2>1 DEF Underway
  <2>3. Reached(p)'
    BY <2>1, <2>2 DEF Reached, View, Record
  <2> QED BY <2>1, <2>3 DEF Underway
<1>5. ASSUME NEW p \in Procs, Select(p) PROVE Underway' /\ [Atomic!Next]_db
  <2>1. /\ UNCHANGED <<db, image, lock, cmd, at>>
        /\ pc[p] = "select" /\ pc'[p] = "store" /\ seen'[p] = View(p).evidence[Line(p)]
    BY <1>0, <1>5 DEF Select
  <2>2. Reached(p)
    BY <1>0, <2>1 DEF Underway
  <2>3. Reached(p)'
    BY <2>1, <2>2 DEF Reached, View, Record, Line
  <2> QED BY <2>1, <2>3 DEF Underway
<1>6. ASSUME NEW p \in Procs, StoreRecord(p) \/ SkipRecord(p)
      PROVE  Underway' /\ [Atomic!Next]_db
  <2>1. pc[p] = "store" /\ Advance(p) /\ UNCHANGED <<db, cmd, seen>>
    BY <1>6 DEF StoreRecord, SkipRecord
  <2>2. Reached(p)
    BY <1>0, <2>1 DEF Underway
  <2>3. View(p)' = Stored(p)
    <3>1. CASE StoreRecord(p)
      BY <3>1 DEF StoreRecord, View
    <3>2. CASE SkipRecord(p)
      BY <1>0, <2>2, <3>2, SkippedPart DEF SkipRecord, View
    <3> QED BY <1>6, <3>1, <3>2
  <2>4. Reached(p)'
    BY <1>0, <2>1, <2>2, <2>3, NextReached
  <2> QED BY <2>1, <2>4 DEF Underway
<1>7. ASSUME NEW p \in Procs, Commit(p) PROVE Underway' /\ [Atomic!Next]_db
  <2> DEFINE s == cmd[p].source
             t == cmd[p].at
  <2>1. pc[p] = "blob" /\ pc'[p] = "evidence" /\ db' = View(p)
    BY <1>0, <1>7 DEF Commit
  <2>2. Reached(p) /\ at[p] > Len(Records[s])
    BY <1>0, <1>7, <2>1 DEF Underway, Commit, Exhausted
  <2>3. s \in Sources /\ t \in Instants /\ Len(Records[s]) \in Nat /\ db \in Tables
    BY <1>0, CommandTypes
  <2>4. at[p] - 1 = Len(Records[s])
    BY <2>2, <2>3 DEF Reached
  <2>5. db' = Atomic!After(db, s, t)
    BY <2>1, <2>2, <2>3, <2>4, PartAll DEF Reached
  <2>6. \A i \in 1 .. Len(Records[s]) : Records[s][i].reading # "bad"
    BY <2>2, <2>4 DEF Reached
  <2>7. Records[s] \in Seq(Rows)
    BY <2>3, RecordsAssumption DEF Rows
  <2>8. \A r \in Atomic!Range(Records[s]) : r.reading # "bad"
    BY <2>6, <2>7 DEF Atomic!Range
  <2>9. Atomic!IngestSource(s, t)
    BY <2>5, <2>8 DEF Atomic!IngestSource
  <2>10. Atomic!Next
    BY <2>3, <2>9 DEF Atomic!Next
  <2> QED BY <2>1, <2>10 DEF Underway
<1>8. ASSUME NEW p \in Procs, ReadTable(p) \/ TruncateManifest(p) \/ WriteManifest(p)
      PROVE  Underway' /\ [Atomic!Next]_db
  <2>1. db' = db /\ pc'[p] \notin Inside
    BY <1>0, <1>8 DEF ReadTable, TruncateManifest, WriteManifest, AfterReading
  <2> QED BY <2>1, <1>r
<1> QED BY <1>1, <1>2, <1>3, <1>4, <1>5, <1>6, <1>7, <1>8
        DEF Next, Step, AdapterRaises, RejectRecord, LockTimeout, Interrupt, Finished

\* One process at a time, ingest_source implements AtomicIngest: every commit
\* adds all records of a source, in its order, and nothing else changes the
\* tables.  (Two processes do not: one that has read a chain of custody before the
\* other commits overwrites what the other appended to it, see CustodyRetained.)
THEOREM IngestImplementsAtomic ==
    ASSUME \A p, q \in Procs : p = q
    PROVE  Spec => IngestIsAtomic
<1>1. Init => AtomicInv /\ Atomic!Init
  BY TypeInit DEF Init, AtomicInv, Underway, Atomic!Init, Atomic!NoRows, NoRows
<1>2. AtomicInv /\ [Next]_vars => AtomicInv'
  BY AtomicStep, TypeStep DEF AtomicInv
<1>3. AtomicInv /\ [Next]_vars => [Atomic!Next]_db
  BY AtomicStep
<1> QED BY <1>1, <1>2, <1>3, PTL DEF Spec, IngestIsAtomic, Atomic!Spec
=============================================================================

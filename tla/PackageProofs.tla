---------------------------- MODULE PackageProofs ----------------------------
(***************************************************************************)
(* For any packages, directories and processes: no import, whatever it is  *)
(* interrupted by or races with, leaves a case in which a citation dangles *)
(* or evidence has no bytes; a package is accepted exactly if it is well   *)
(* formed; the tables of a case change by one whole package at a time; and *)
(* what is exported means the rows of the case again.                      *)
(*                                                                         *)
(* IInv is inductive for the first.  For the next two WholeInv says how    *)
(* far each import is: the declarations looked at so far stand on those    *)
(* before them and have become the rows that they mean; what is put and    *)
(* what waits make up the package.  For the last, ExportInv says what an   *)
(* export has told of the tables it has read.                              *)
(***************************************************************************)
EXTENDS PackageExchange, FiniteSetTheorems, WellFoundedInduction, TLAPS

\* o has the fields of a row and no others.
IsRow(o) == o = [kind |-> o.kind, id |-> o.id, cites |-> o.cites,
                 content |-> o.content, sources |-> o.sources]

\* What the rows cite is among the others.
ClosedIn(some, others) ==
    \A r \in some : \A c \in r.cites :
        \E q \in others : q.id = c.id /\ q.kind \in Permitted[c.role]

\* The evidence among the rows has its bytes.
Backed(some, contents) == \A r \in some : r.kind = "evidence" => r.content \in contents

\* Until a package is put, a local id means a row resolved before, and what the
\* resolved rows cite is among them.
Grounded(p) ==
    /\ \A o \in built[p] : IsRow(o)
    /\ pc[p] \in {"load", "resolve", "create"} =>
         /\ \A l \in DOMAIN names[p] : names[p][l] \in built[p]
         /\ ClosedIn(built[p], built[p])

\* While it is put, the rows that are put and those that wait cite one another.
Putting(p) ==
    pc[p] = "put" =>
        IF lock[dir[p]] = p
        THEN /\ ClosedIn(image[dir[p]] \cup built[p], image[dir[p]] \cup built[p])
             /\ Backed(image[dir[p]], blobs[dir[p]])
        ELSE ClosedIn(built[p], built[p])

IInv == /\ TypeOK
        /\ CasesClosed
        /\ \A p \in Procs : Grounded(p) /\ Putting(p)

-----------------------------------------------------------------------------
\* Closed is ClosedIn itself with its evidence Backed.
LEMMA ClosedParts ==
    ASSUME NEW some, NEW contents
    PROVE  Closed(some, contents) <=> ClosedIn(some, some) /\ Backed(some, contents)
  BY DEF Closed, ClosedIn, Backed

\* Merging rows keeps the kind and id of each.
LEMMA MergedKeeps ==
    ASSUME NEW some, NEW objects, \A o \in objects : IsRow(o),
           NEW q \in some \cup objects
    PROVE  \E m \in Merged(some, objects) : m.kind = q.kind /\ m.id = q.id
  <1> DEFINE S(o) == UNION {r.sources : r \in {x \in some \cup objects : SameRow(x, o)}}
             New(o) == [o EXCEPT !.sources = S(o)]
  <1>1. \A o \in objects : New(o) \in Merged(some, objects)
    BY DEF Merged
  <1>2. \A o \in objects : New(o).kind = o.kind /\ New(o).id = o.id
    <2> TAKE o \in objects
    <2>1. IsRow(o)
      OBVIOUS
    <2> QED BY <2>1 DEF IsRow
  <1> HIDE DEF New
  <1>3. CASE \E o \in objects : SameRow(q, o)
    <2>1. PICK o \in objects : SameRow(q, o)
      BY <1>3
    <2> QED BY <2>1, <1>1, <1>2 DEF SameRow
  <1>4. CASE \A o \in objects : ~SameRow(q, o)
    <2>1. q \in some
      BY <1>4 DEF SameRow
    <2> QED BY <2>1, <1>4 DEF Merged
  <1> QED BY <1>3, <1>4

\* Merging rows makes no other content and no other citations.
LEMMA MergedFrom ==
    ASSUME NEW some, NEW objects, \A o \in objects : IsRow(o),
           NEW m \in Merged(some, objects)
    PROVE  \E q \in some \cup objects :
              m.kind = q.kind /\ m.id = q.id /\ m.cites = q.cites /\ m.content = q.content
  <1> DEFINE S(o) == UNION {r.sources : r \in {x \in some \cup objects : SameRow(x, o)}}
             New(o) == [o EXCEPT !.sources = S(o)]
  <1>1. \A o \in objects : /\ New(o).kind = o.kind /\ New(o).id = o.id
                           /\ New(o).cites = o.cites /\ New(o).content = o.content
    <2> TAKE o \in objects
    <2>1. IsRow(o)
      OBVIOUS
    <2> QED BY <2>1 DEF IsRow
  <1>2. m \in some \/ \E o \in objects : m = New(o)
    BY DEF Merged
  <1> HIDE DEF New
  <1> QED BY <1>1, <1>2

\* Rows that cite one another do so when some of them have been merged.
LEMMA MergedClosed ==
    ASSUME NEW some, NEW objects, NEW rest, \A o \in objects : IsRow(o),
           ClosedIn(some \cup objects \cup rest, some \cup objects \cup rest)
    PROVE  ClosedIn(Merged(some, objects) \cup rest, Merged(some, objects) \cup rest)
  <1> DEFINE all == some \cup objects \cup rest
             after == Merged(some, objects) \cup rest
  <1>1. \A q \in all : \E m \in after : m.kind = q.kind /\ m.id = q.id
    BY MergedKeeps
  <1>2. \A m \in after : \E q \in all : m.cites = q.cites
    BY MergedFrom
  <1> HIDE DEF all, after
  <1>3. ClosedIn(all, all)
    BY DEF all
  <1>4. ClosedIn(after, after)
    BY <1>1, <1>2, <1>3 DEF ClosedIn
  <1> QED BY <1>4 DEF after

\* The bytes of what is merged are those of what there was.
LEMMA MergedBacked ==
    ASSUME NEW some, NEW objects, NEW contents, \A o \in objects : IsRow(o),
           Backed(some \cup objects, contents)
    PROVE  Backed(Merged(some, objects), contents)
  BY MergedFrom DEF Backed

\* Two closed sets of rows are closed together.
LEMMA UnionClosed ==
    ASSUME NEW some, NEW others, ClosedIn(some, some), ClosedIn(others, others)
    PROVE  ClosedIn(some \cup others, some \cup others)
  BY DEF ClosedIn

-----------------------------------------------------------------------------
LEMMA TypesInit == Init => TypeOK
  <1> SUFFICES ASSUME Init PROVE TypeOK
    OBVIOUS
  <1>1. (CHOOSE d \in Dirs : TRUE) \in Dirs
    BY DirsAssumption
  <1>2. DOMAIN Earlier \subseteq Dirs
    BY EarlierAssumption
  <1>3. DOMAIN << >> = {}
    OBVIOUS
  <1> QED BY <1>1, <1>2, <1>3, GivenAssumption, MaxCommandsAssumption DEF Init, TypeOK

LEMMA TypesEnd ==
    ASSUME TypeOK, NEW p \in Procs, End(p)
    PROVE  TypeOK'
  BY NoProcAssumption DEF TypeOK, End, locals

LEMMA TypesBegin ==
    ASSUME TypeOK, NEW p \in Procs, NEW d \in Dirs, NEW f \in Files, NEW q,
           NEW first \in {"load", "read", "open"}, Begin(p, first, d, f, q)
    PROVE  TypeOK'
  <1>1. DOMAIN << >> = {}
    OBVIOUS
  <1> QED BY <1>1, NoProcAssumption, MaxCommandsAssumption DEF TypeOK, Begin, cases

\* TypeOK is an inductive invariant by itself.
LEMMA TypesNext == TypeOK /\ [Next]_vars => TypeOK'
  <1> SUFFICES ASSUME TypeOK, [Next]_vars PROVE TypeOK'
    OBVIOUS
  <1>1. CASE UNCHANGED vars
    BY <1>1 DEF TypeOK, vars, cases, locals
  <1>2. ASSUME NEW p \in Procs, Import(p) \/ Export(p) \/ Interrupt(p)
        PROVE  TypeOK'
    <2>1. CASE BeginImport(p)
      BY <2>1, TypesBegin DEF BeginImport
    <2>2. CASE BeginExport(p)
      <3>1. made \subseteq Dirs
        BY DEF TypeOK
      <3> QED BY <2>2, <3>1, TypesBegin DEF BeginExport
    <2>3. CASE BeginInit(p)
      <3>1. dir[p] \in Dirs
        BY DEF TypeOK
      <3> QED BY <2>3, <3>1, TypesBegin DEF BeginInit
    <2>4. CASE Load(p)
      BY <2>4, NoProcAssumption DEF TypeOK, Load, cases, resolution
    <2>5. CASE LoadFails(p) \/ Reject(p) \/ NotEmpty(p) \/ LockTimeout(p) \/ FileExists(p)
               \/ Interrupt(p)
      BY <2>5, TypesEnd DEF LoadFails, Reject, NotEmpty, LockTimeout, FileExists, Interrupt
    <2>6. CASE Refuse(p)
      BY <2>6 DEF TypeOK, Refuse, cases
    <2>7. CASE Unresolved(p)
      BY <2>7 DEF TypeOK, Unresolved, cases
    <2>8. CASE Resolve(p)
      BY <2>8 DEF TypeOK, Resolve, cases
    <2>9. CASE Accept(p)
      BY <2>9, NoProcAssumption DEF TypeOK, Accept, Resolved, cases, locals
    <2>10. CASE Create(p)
      BY <2>10, NoProcAssumption DEF TypeOK, Create, locals
    <2>11. CASE PutEvidence(p)
      BY <2>11, NoProcAssumption DEF TypeOK, PutEvidence
    <2>12. CASE Commit(p)
      BY <2>12, NoProcAssumption DEF TypeOK, Commit, CanWrite, Disturb
    <2>13. CASE RecordManifest(p)
      BY <2>13, NoProcAssumption DEF TypeOK, RecordManifest, locals
    <2>14. CASE ReadTable(p)
      BY <2>14 DEF TypeOK, ReadTable, cases, resolution
    <2>15. CASE PutTogether(p)
      BY <2>15, NoProcAssumption DEF TypeOK, PutTogether, cases, locals
    <2>16. CASE OpenFile(p)
      BY <2>16, NoProcAssumption DEF TypeOK, OpenFile, cases, locals
    <2>17. CASE WriteFile(p)
      BY <2>17, NoProcAssumption DEF TypeOK, WriteFile, cases, locals
    <2> QED BY <1>2, <2>1, <2>2, <2>3, <2>4, <2>5, <2>6, <2>7, <2>8, <2>9, <2>10, <2>11, <2>12,
               <2>13, <2>14, <2>15, <2>16, <2>17 DEF Import, Export
  <1> QED BY <1>1, <1>2 DEF Next, Finished

\* The types of the commands' state, at every step of any number of processes.
THEOREM ExchangeTypes == Spec => []TypeOK
  BY TypesInit, TypesNext, PTL DEF Spec

-----------------------------------------------------------------------------
LEMMA IInvInit == Init => IInv
  <1> SUFFICES ASSUME Init PROVE IInv
    OBVIOUS
  <1>1. TypeOK
    BY TypesInit
  <1>2. CasesClosed
    <2> SUFFICES ASSUME NEW d \in Dirs PROVE Closed(rows[d], blobs[d])
      BY DEF CasesClosed
    <2>1. CASE d \in DOMAIN Earlier
      <3>1. rows[d] = Earlier[d]
        BY <2>1 DEF Init
      <3>2. ClosedIn(rows[d], rows[d])
        BY <2>1, <3>1, EarlierAssumption, ClosedParts
      <3>3. Backed(rows[d], blobs[d])
        BY DEF Init, Backed
      <3> QED BY <3>2, <3>3, ClosedParts
    <2>2. CASE d \notin DOMAIN Earlier
      BY <2>2 DEF Init, Closed
    <2> QED BY <2>1, <2>2
  <1>3. \A p \in Procs : Grounded(p) /\ Putting(p)
    BY DEF Init, Grounded, Putting
  <1> QED BY <1>1, <1>2, <1>3 DEF IInv

\* A step that leaves the process, its rows and its lock alone keeps what holds of
\* it: bytes only come to a blob store.
LEMMA Spared ==
    ASSUME IInv, NEW q \in Procs,
           pc'[q] = pc[q], dir'[q] = dir[q], names'[q] = names[q], built'[q] = built[q],
           lock'[dir[q]] = q <=> lock[dir[q]] = q,
           lock[dir[q]] = q => image'[dir[q]] = image[dir[q]],
           blobs[dir[q]] \subseteq blobs'[dir[q]]
    PROVE  Grounded(q)' /\ Putting(q)'
  <1>1. Grounded(q) /\ Putting(q)
    BY DEF IInv
  <1>2. Grounded(q)'
    BY <1>1 DEF Grounded
  <1>3. Putting(q)'
    BY <1>1 DEF Putting, Backed
  <1> QED BY <1>2, <1>3

\* A command that ends gives up its transaction with its lock.
LEMMA InvEnd ==
    ASSUME IInv, NEW p \in Procs, End(p)
    PROVE  CasesClosed' /\ \A q \in Procs : Grounded(q)' /\ Putting(q)'
  <1> USE NoProcAssumption
  <1>1. CasesClosed'
    BY DEF IInv, CasesClosed, End
  <1>2. Grounded(p)' /\ Putting(p)'
    <2>1. pc'[p] = "idle" /\ built'[p] = built[p]
      BY DEF IInv, TypeOK, End, locals
    <2> QED BY <2>1 DEF IInv, Grounded, Putting
  <1>3. ASSUME NEW q \in Procs, q # p PROVE Grounded(q)' /\ Putting(q)'
    <2>1. /\ pc'[q] = pc[q] /\ dir'[q] = dir[q] /\ names'[q] = names[q] /\ built'[q] = built[q]
          /\ blobs'[dir[q]] = blobs[dir[q]]
      BY <1>3 DEF IInv, TypeOK, End, locals
    <2>2. lock'[dir[q]] = q <=> lock[dir[q]] = q
      BY <1>3 DEF IInv, TypeOK, End, locals
    <2>3. lock[dir[q]] = q => image'[dir[q]] = image[dir[q]]
      BY <1>3 DEF IInv, TypeOK, End, locals
    <2> QED BY <2>1, <2>2, <2>3, Spared
  <1> QED BY <1>1, <1>2, <1>3

\* A command starts with nothing resolved.
LEMMA InvBegin ==
    ASSUME IInv, NEW p \in Procs, NEW d \in Dirs, NEW f \in Files, NEW q,
           NEW first \in {"load", "read", "open"}, Begin(p, first, d, f, q)
    PROVE  CasesClosed' /\ \A o \in Procs : Grounded(o)' /\ Putting(o)'
  <1>1. CasesClosed'
    BY DEF IInv, CasesClosed, Begin, cases
  <1>2. Grounded(p)' /\ Putting(p)'
    <2>1. pc'[p] # "put" /\ built'[p] = {} /\ names'[p] = << >>
      BY DEF IInv, TypeOK, Begin
    <2>2. DOMAIN << >> = {}
      OBVIOUS
    <2> QED BY <2>1, <2>2 DEF Grounded, Putting, ClosedIn
  <1>3. ASSUME NEW o \in Procs, o # p PROVE Grounded(o)' /\ Putting(o)'
    <2>1. /\ pc'[o] = pc[o] /\ dir'[o] = dir[o] /\ names'[o] = names[o] /\ built'[o] = built[o]
          /\ blobs' = blobs /\ lock' = lock /\ image' = image
      BY <1>3 DEF IInv, TypeOK, Begin, cases
    <2> QED BY <2>1, Spared
  <1> QED BY <1>1, <1>2, <1>3

\* A step of p that changes no case: what it leaves to show is about p itself.
LEMMA InvLocal ==
    ASSUME IInv, NEW p \in Procs, UNCHANGED <<rows, blobs, lock, image>>,
           \A q \in Procs \ {p} : /\ pc'[q] = pc[q] /\ dir'[q] = dir[q]
                                  /\ names'[q] = names[q] /\ built'[q] = built[q],
           Grounded(p)', Putting(p)'
    PROVE  CasesClosed' /\ \A q \in Procs : Grounded(q)' /\ Putting(q)'
  <1>1. CasesClosed'
    BY DEF IInv, CasesClosed
  <1>2. ASSUME NEW q \in Procs, q # p PROVE Grounded(q)' /\ Putting(q)'
    BY <1>2, Spared
  <1> QED BY <1>1, <1>2

\* A resolved row cites rows resolved before it.
LEMMA InvResolve ==
    ASSUME IInv, NEW p \in Procs, Resolve(p)
    PROVE  Grounded(p)' /\ Putting(p)'
  <1>1. /\ pc[p] = "resolve" /\ pc'[p] = "resolve"
        /\ built'[p] = built[p] \cup {Row(p)}
        /\ DOMAIN names'[p] = DOMAIN names[p] \cup LocalId(p)
        /\ \A l \in DOMAIN names'[p] :
              names'[p][l] = IF l \in LocalId(p) THEN Row(p) ELSE names[p][l]
    BY DEF IInv, TypeOK, Resolve
  <1>2. /\ \A o \in built[p] : IsRow(o)
        /\ \A l \in DOMAIN names[p] : names[p][l] \in built[p]
        /\ ClosedIn(built[p], built[p])
    BY <1>1 DEF IInv, Grounded
  <1>3. IsRow(Row(p))
    BY DEF Row, Object, IsRow
  <1>4. \A c \in Row(p).cites : \E q \in built[p] : q.id = c.id /\ q.kind \in Permitted[c.role]
    <2>1. Row(p).cites = {[role |-> c.role, id |-> names[p][c.local].id] : c \in Declared(p).cites}
      BY DEF Row, Object
    <2> SUFFICES ASSUME NEW c \in Declared(p).cites
                 PROVE  \E q \in built[p] : /\ q.id = names[p][c.local].id
                                            /\ q.kind \in Permitted[c.role]
      BY <2>1
    <2>2. Known(p, c)
      BY DEF Resolve, Resolves
    <2> QED BY <1>2, <2>2 DEF Known
  <1>5. \A o \in built'[p] : IsRow(o)
    BY <1>1, <1>2, <1>3
  <1>6. \A l \in DOMAIN names'[p] : names'[p][l] \in built'[p]
    BY <1>1, <1>2
  <1>7. ClosedIn(built'[p], built'[p])
    BY <1>1, <1>2, <1>4 DEF ClosedIn
  <1> QED BY <1>1, <1>5, <1>6, <1>7 DEF Grounded, Putting

\* What p puts into, the rows of its case and those that wait, cite one another.
LEMMA ViewClosed ==
    ASSUME IInv, NEW p \in Procs, pc[p] = "put"
    PROVE  /\ ClosedIn(View(p) \cup built[p], View(p) \cup built[p])
           /\ Backed(View(p), blobs[dir[p]])
           /\ \A o \in built[p] : IsRow(o)
  <1>1. Grounded(p) /\ Putting(p) /\ dir[p] \in Dirs
    BY DEF IInv, TypeOK
  <1>2. CASE lock[dir[p]] = p
    BY <1>1, <1>2 DEF Grounded, Putting, View
  <1>3. CASE lock[dir[p]] # p
    <2>1. Closed(rows[dir[p]], blobs[dir[p]])
      BY <1>1 DEF IInv, CasesClosed
    <2>2. ClosedIn(rows[dir[p]], rows[dir[p]]) /\ Backed(rows[dir[p]], blobs[dir[p]])
      BY <2>1, ClosedParts
    <2>3. ClosedIn(built[p], built[p])
      BY <1>1, <1>3 DEF Putting
    <2>4. View(p) = rows[dir[p]]
      BY <1>3 DEF View
    <2> QED BY <1>1, <2>2, <2>3, <2>4, UnionClosed DEF Grounded
  <1> QED BY <1>2, <1>3

LEMMA InvPutEvidence ==
    ASSUME IInv, NEW p \in Procs, PutEvidence(p)
    PROVE  CasesClosed' /\ \A q \in Procs : Grounded(q)' /\ Putting(q)'
  <1> USE NoProcAssumption
  <1>1. PICK o \in Evidence(built[p]) :
           /\ blobs' = [blobs EXCEPT ![dir[p]] = @ \cup {o.content}]
           /\ image' = [image EXCEPT ![dir[p]] = Merged(View(p), {o})]
           /\ built' = [built EXCEPT ![p] = @ \ {o}]
    BY DEF PutEvidence
  <1>2. /\ pc[p] = "put" /\ CanWrite(p) /\ dir[p] \in Dirs /\ o \in built[p]
        /\ UNCHANGED <<rows, pc, dir, names>>
        /\ lock' = [lock EXCEPT ![dir[p]] = p]
    BY DEF PutEvidence, IInv, TypeOK, Evidence
  <1>3. \A d \in Dirs : blobs[d] \subseteq blobs'[d]
    BY <1>1, <1>2 DEF IInv, TypeOK
  <1>4. CasesClosed'
    BY <1>2, <1>3 DEF IInv, CasesClosed, Closed
  <1>5. /\ built'[p] = built[p] \ {o}
        /\ image'[dir[p]] = Merged(View(p), {o})
        /\ blobs'[dir[p]] = blobs[dir[p]] \cup {o.content}
        /\ lock'[dir[p]] = p
    BY <1>1, <1>2 DEF IInv, TypeOK
  <1>6. /\ ClosedIn(View(p) \cup built[p], View(p) \cup built[p])
        /\ Backed(View(p), blobs[dir[p]])
        /\ \A b \in built[p] : IsRow(b)
    BY <1>2, ViewClosed
  <1>7. Grounded(p)' /\ Putting(p)'
    <2>1. View(p) \cup built[p] = View(p) \cup {o} \cup (built[p] \ {o})
      BY <1>2
    <2>2. \A b \in {o} : IsRow(b)
      BY <1>2, <1>6
    <2>3. ClosedIn(Merged(View(p), {o}) \cup (built[p] \ {o}),
                   Merged(View(p), {o}) \cup (built[p] \ {o}))
      <3>1. ClosedIn(View(p) \cup {o} \cup (built[p] \ {o}), View(p) \cup {o} \cup (built[p] \ {o}))
        BY <1>6, <2>1
      <3> QED BY <2>2, <3>1, MergedClosed
    <2>4. Backed(View(p) \cup {o}, blobs'[dir[p]])
      BY <1>5, <1>6 DEF Backed
    <2>5. Backed(Merged(View(p), {o}), blobs'[dir[p]])
      BY <2>2, <2>4, MergedBacked
    <2> QED BY <1>2, <1>5, <1>6, <2>3, <2>5 DEF Grounded, Putting
  <1>8. ASSUME NEW q \in Procs, q # p PROVE Grounded(q)' /\ Putting(q)'
    <2>1. pc'[q] = pc[q] /\ dir'[q] = dir[q] /\ names'[q] = names[q] /\ built'[q] = built[q]
      BY <1>1, <1>2, <1>8 DEF IInv, TypeOK
    <2>2. lock'[dir[q]] = q <=> lock[dir[q]] = q
      BY <1>2, <1>8 DEF IInv, TypeOK, CanWrite
    <2>3. lock[dir[q]] = q => image'[dir[q]] = image[dir[q]]
      BY <1>1, <1>2, <1>8 DEF IInv, TypeOK, CanWrite
    <2>4. blobs[dir[q]] \subseteq blobs'[dir[q]]
      BY <1>3 DEF IInv, TypeOK
    <2> QED BY <2>1, <2>2, <2>3, <2>4, Spared
  <1> QED BY <1>4, <1>7, <1>8

LEMMA InvCommit ==
    ASSUME IInv, NEW p \in Procs, Commit(p)
    PROVE  CasesClosed' /\ \A q \in Procs : Grounded(q)' /\ Putting(q)'
  <1> USE NoProcAssumption
  <1>1. /\ pc[p] = "put" /\ CanWrite(p) /\ dir[p] \in Dirs /\ Evidence(built[p]) = {}
        /\ UNCHANGED <<blobs, dir, names>>
        /\ rows' = [rows EXCEPT ![dir[p]] = Merged(View(p), built[p])]
        /\ image' = [image EXCEPT ![dir[p]] = Merged(View(p), built[p])]
        /\ lock' = [lock EXCEPT ![dir[p]] = NoProc]
        /\ built' = [built EXCEPT ![p] = {}]
        /\ pc' = [pc EXCEPT ![p] = "manifest"]
    BY DEF Commit, IInv, TypeOK
  <1>2. /\ ClosedIn(View(p) \cup built[p], View(p) \cup built[p])
        /\ Backed(View(p), blobs[dir[p]])
        /\ \A b \in built[p] : IsRow(b)
    BY <1>1, ViewClosed
  <1>3. ClosedIn(Merged(View(p), built[p]), Merged(View(p), built[p]))
    <2>1. ClosedIn(View(p) \cup built[p] \cup {}, View(p) \cup built[p] \cup {})
      BY <1>2
    <2>2. ClosedIn(Merged(View(p), built[p]) \cup {}, Merged(View(p), built[p]) \cup {})
      BY <1>2, <2>1, MergedClosed
    <2> QED BY <2>2
  <1>4. Backed(Merged(View(p), built[p]), blobs[dir[p]])
    <2>1. Backed(View(p) \cup built[p], blobs[dir[p]])
      BY <1>1, <1>2 DEF Backed, Evidence
    <2> QED BY <1>2, <2>1, MergedBacked
  <1>5. Closed(Merged(View(p), built[p]), blobs[dir[p]])
    BY <1>3, <1>4, ClosedParts
  <1>6. CasesClosed'
    BY <1>1, <1>5 DEF IInv, TypeOK, CasesClosed
  <1>7. Grounded(p)' /\ Putting(p)'
    <2>1. pc'[p] = "manifest" /\ built'[p] = {}
      BY <1>1 DEF IInv, TypeOK
    <2> QED BY <2>1 DEF Grounded, Putting
  <1>8. ASSUME NEW q \in Procs, q # p PROVE Grounded(q)' /\ Putting(q)'
    <2>1. /\ pc'[q] = pc[q] /\ dir'[q] = dir[q] /\ names'[q] = names[q] /\ built'[q] = built[q]
          /\ blobs' = blobs
      BY <1>1, <1>8 DEF IInv, TypeOK
    <2>2. lock'[dir[q]] = q <=> lock[dir[q]] = q
      BY <1>1, <1>8 DEF IInv, TypeOK, CanWrite
    <2>3. lock[dir[q]] = q => image'[dir[q]] = image[dir[q]]
      BY <1>1, <1>8 DEF IInv, TypeOK, CanWrite
    <2> QED BY <2>1, <2>2, <2>3, Spared
  <1> QED BY <1>6, <1>7, <1>8

\* The steps that change no case.
LEMMA InvQuiet ==
    ASSUME IInv, NEW p \in Procs,
           \/ Load(p) \/ Refuse(p) \/ Unresolved(p) \/ Accept(p) \/ Create(p)
           \/ RecordManifest(p) \/ ReadTable(p) \/ PutTogether(p) \/ OpenFile(p) \/ WriteFile(p)
    PROVE  CasesClosed' /\ \A q \in Procs : Grounded(q)' /\ Putting(q)'
  <1>1. UNCHANGED <<rows, blobs, lock, image, dir, names, built>>
    BY DEF Load, Refuse, Unresolved, Accept, Create, RecordManifest, ReadTable, PutTogether,
           OpenFile, WriteFile, cases, locals, resolution
  <1>2. \A q \in Procs \ {p} : pc'[q] = pc[q]
    BY DEF IInv, TypeOK, Load, Refuse, Unresolved, Accept, Create, RecordManifest, ReadTable,
           PutTogether, OpenFile, WriteFile
  <1>3. \/ pc[p] \in {"load", "resolve"} /\ pc'[p] \in {"resolve", "create"}
        \/ pc[p] = "create" /\ pc'[p] = "put"
        \/ pc[p] \in {"manifest", "read", "open", "write"}
           /\ pc'[p] \in {"idle", "read", "open", "write"}
    BY DEF IInv, TypeOK, Load, Refuse, Unresolved, Accept, Create, RecordManifest, ReadTable,
           PutTogether, OpenFile, WriteFile, Resolved
  <1>4. Grounded(p) /\ Putting(p) /\ dir[p] \in Dirs
    BY DEF IInv, TypeOK
  <1>5. Grounded(p)'
    BY <1>1, <1>3, <1>4 DEF Grounded
  <1>6. Putting(p)'
    <2>1. lock[dir[p]] = p => pc[p] = "put"
      BY <1>4, NoProcAssumption DEF IInv, TypeOK
    <2> QED BY <1>1, <1>3, <1>4, <2>1 DEF Grounded, Putting
  <1> QED BY <1>1, <1>2, <1>5, <1>6, InvLocal

LEMMA IInvNext == IInv /\ [Next]_vars => IInv'
  <1> SUFFICES ASSUME IInv, [Next]_vars PROVE IInv'
    OBVIOUS
  <1>1. TypeOK'
    BY TypesNext DEF IInv
  <1>2. CASE UNCHANGED vars
    BY <1>2 DEF IInv, TypeOK, CasesClosed, Grounded, Putting, vars, cases, locals
  <1>3. ASSUME NEW p \in Procs, Import(p) \/ Export(p) \/ Interrupt(p)
        PROVE  CasesClosed' /\ \A q \in Procs : Grounded(q)' /\ Putting(q)'
    <2>1. CASE BeginImport(p)
      BY <2>1, InvBegin DEF BeginImport
    <2>2. CASE BeginExport(p)
      <3>1. made \subseteq Dirs
        BY DEF IInv, TypeOK
      <3> QED BY <2>2, <3>1, InvBegin DEF BeginExport
    <2>3. CASE BeginInit(p)
      <3>1. dir[p] \in Dirs
        BY DEF IInv, TypeOK
      <3> QED BY <2>3, <3>1, InvBegin DEF BeginInit
    <2>4. CASE LoadFails(p) \/ Reject(p) \/ NotEmpty(p) \/ LockTimeout(p) \/ FileExists(p)
               \/ Interrupt(p)
      BY <2>4, InvEnd DEF LoadFails, Reject, NotEmpty, LockTimeout, FileExists, Interrupt
    <2>5. CASE Resolve(p)
      <3>1. /\ UNCHANGED <<rows, blobs, lock, image>>
            /\ \A q \in Procs \ {p} : /\ pc'[q] = pc[q] /\ dir'[q] = dir[q]
                                      /\ names'[q] = names[q] /\ built'[q] = built[q]
        BY <2>5 DEF IInv, TypeOK, Resolve, cases
      <3> QED BY <2>5, <3>1, InvResolve, InvLocal
    <2>6. CASE PutEvidence(p)
      BY <2>6, InvPutEvidence
    <2>7. CASE Commit(p)
      BY <2>7, InvCommit
    <2>8. CASE \/ Load(p) \/ Refuse(p) \/ Unresolved(p) \/ Accept(p) \/ Create(p)
               \/ RecordManifest(p) \/ ReadTable(p) \/ PutTogether(p) \/ OpenFile(p)
               \/ WriteFile(p)
      BY <2>8, InvQuiet
    <2> QED BY <1>3, <2>1, <2>2, <2>3, <2>4, <2>5, <2>6, <2>7, <2>8 DEF Import, Export
  <1> QED BY <1>1, <1>2, <1>3 DEF IInv, Next, Finished

\* Whatever package is imported into a case, by whom, beside whom and however far:
\* what the committed rows cite is among them, and their evidence has its bytes.
THEOREM CasesStayClosed == Spec => []CasesClosed
  <1>1. IInv => CasesClosed
    BY DEF IInv
  <1> QED BY <1>1, IInvInit, IInvNext, PTL DEF Spec

-----------------------------------------------------------------------------
(***************************************************************************)
(* What a package means, as a function of the place of its declarations.   *)
(***************************************************************************)

\* A set of numbers has a least one.
LEMMA LeastNat ==
    ASSUME NEW T, T \subseteq Nat, T # {}
    PROVE  \E m \in T : \A k \in T : m <= k
  <1> DEFINE R == {ss \in Nat \X Nat : ss[1] < ss[2]}
  <1>1. IsWellFoundedOn(R, Nat)
    BY NatLessThanWellFounded DEF OpToRel
  <1>2. \E x \in T : \A y \in T : <<y, x>> \notin R
    <2> HIDE DEF R
    <2> QED BY <1>1, WFMin
  <1>3. \A x, y \in Nat : y < x => <<y, x>> \in R
    OBVIOUS
  <1>4. \A x, y \in Nat : ~(y < x) => x <= y
    OBVIOUS
  <1> HIDE DEF R
  <1> QED BY <1>2, <1>3, <1>4

\* What the n-th declaration of package q cites, once those before it are rows.
Cited(q, f, n) ==
    {[role |-> c.role, id |-> f[CHOOSE i \in Meant(q, n, c) : TRUE].id] : c \in q[n].cites}

\* f[n] is the row that the n-th declaration of package q becomes.
Becomes(q, f) == f = [n \in DOMAIN f |-> Object(q[n], Cited(q, f, n), n)]

\* The n-th declaration stands on those before it.
Stands(q, n) ==
    /\ Acceptable(q[n])
    /\ q[n].local # Blank
    /\ \A i \in 1 .. n - 1 : q[i].local = q[n].local => q[n].local = NoId
    /\ \A c \in q[n].cites : Meant(q, n, c) # {}

\* The id of evidence is a hash of what it is.
Hashed(o) ==
    o.kind = "evidence" => o.id = [kind |-> o.kind, content |-> o.content, cites |-> o.cites]
AllRows(objects) == \A o \in objects : IsRow(o) /\ Hashed(o)

\* What a package means is such rows, if there are any.
LEMMA EverythingIs ==
    ASSUME NEW q, NEW f, DOMAIN f = DOMAIN q, Becomes(q, f)
    PROVE  \E g : DOMAIN g = DOMAIN q /\ Becomes(q, g) /\ Everything(q) = {g[n] : n \in DOMAIN q}
  <1> DEFINE Is(g) == g = [n \in DOMAIN q |->
            Object(q[n], {[role |-> c.role, id |-> g[CHOOSE i \in Meant(q, n, c) : TRUE].id] :
                              c \in q[n].cites}, n)]
  <1> DEFINE r == CHOOSE g : Is(g)
  <1>1. Is(f)
    BY DEF Becomes, Cited
  <1>2. Is(r)
    <2> HIDE DEF Is
    <2> QED BY <1>1
  <1>3. Everything(q) = {r[n] : n \in DOMAIN q}
    BY DEF Everything
  <1>4. DOMAIN r = DOMAIN q /\ Becomes(q, r)
    <2> HIDE DEF r
    <2>1. DOMAIN r = DOMAIN q
      BY <1>2
    <2> QED BY <1>2, <2>1 DEF Becomes, Cited
  <1> QED BY <1>3, <1>4

\* What a citation that stands means is a declaration it may mean, ...
LEMMA MeansEarlier ==
    ASSUME NEW q, NEW n, Stands(q, n), NEW c \in q[n].cites
    PROVE  (CHOOSE i \in Meant(q, n, c) : TRUE) \in Meant(q, n, c)
  BY DEF Stands

\* ... an earlier one: what is cited depends on the rows before only, ...
LEMMA CitedEarlier ==
    ASSUME NEW q, NEW n \in Nat, Stands(q, n), NEW f, NEW g, \A i \in 1 .. n - 1 : f[i] = g[i]
    PROVE  Cited(q, f, n) = Cited(q, g, n)
  <1>1. \A c \in q[n].cites : (CHOOSE i \in Meant(q, n, c) : TRUE) \in 1 .. n - 1
    BY MeansEarlier DEF Meant
  <1>2. \A c \in q[n].cites :
           f[CHOOSE i \in Meant(q, n, c) : TRUE] = g[CHOOSE i \in Meant(q, n, c) : TRUE]
    BY <1>1
  <1> QED BY <1>2 DEF Cited

\* ... so that the declarations become the same rows however they are told, ...
LEMMA BecomesOne ==
    ASSUME NEW q, NEW m \in Nat, \A n \in 1 .. m : Stands(q, n),
           NEW f, NEW g, DOMAIN f = 1 .. m, DOMAIN g = 1 .. m, Becomes(q, f), Becomes(q, g)
    PROVE  f = g
  <1>1. \A n \in 1 .. m : f[n] = Object(q[n], Cited(q, f, n), n)
    BY DEF Becomes
  <1>2. \A n \in 1 .. m : g[n] = Object(q[n], Cited(q, g, n), n)
    BY DEF Becomes
  <1> DEFINE T == {n \in 1 .. m : f[n] # g[n]}
  <1>3. ASSUME T # {} PROVE FALSE
    <2>1. PICK n \in T : \A k \in T : n <= k
      <3>1. T \subseteq Nat
        OBVIOUS
      <3> HIDE DEF T
      <3> QED BY <1>3, <3>1, LeastNat
    <2>2. \A i \in 1 .. n - 1 : f[i] = g[i]
      BY <2>1
    <2>3. n \in Nat /\ Stands(q, n)
      OBVIOUS
    <2>4. Cited(q, f, n) = Cited(q, g, n)
      BY <2>2, <2>3, CitedEarlier
    <2> QED BY <1>1, <1>2, <2>4
  <1>4. \A n \in 1 .. m : f[n] = g[n]
    BY <1>3
  <1>5. f = [n \in 1 .. m |-> f[n]] /\ g = [n \in 1 .. m |-> g[n]]
    BY DEF Becomes
  <1> QED BY <1>4, <1>5

\* ... and the next one becomes a row beside those there are.
LEMMA BecomesMore ==
    ASSUME NEW q, NEW m \in Nat, \A n \in 1 .. m : Stands(q, n), Stands(q, m + 1),
           NEW f, DOMAIN f = 1 .. m, Becomes(q, f),
           NEW cites, cites = Cited(q, f, m + 1)
    PROVE  \E g : /\ DOMAIN g = 1 .. m + 1 /\ Becomes(q, g)
                  /\ \A i \in 1 .. m : g[i] = f[i]
                  /\ g[m + 1] = Object(q[m + 1], cites, m + 1)
  <1> DEFINE g == [n \in 1 .. m + 1 |->
                      IF n = m + 1 THEN Object(q[m + 1], cites, m + 1) ELSE f[n]]
  <1>1. \A i \in 1 .. m : g[i] = f[i]
    OBVIOUS
  <1>2. g[m + 1] = Object(q[m + 1], cites, m + 1)
    OBVIOUS
  <1>3. DOMAIN g = 1 .. m + 1
    OBVIOUS
  <1>3a. g = [n \in DOMAIN g |-> g[n]]
    OBVIOUS
  <1> HIDE DEF g
  <1>4. ASSUME NEW n \in 1 .. m + 1 PROVE g[n] = Object(q[n], Cited(q, g, n), n)
    <2>1. n \in Nat /\ Stands(q, n)
      <3>1. n \in 1 .. m \/ n = m + 1
        OBVIOUS
      <3> QED BY <3>1
    <2>2. \A i \in 1 .. n - 1 : f[i] = g[i]
      BY <1>1
    <2>3. Cited(q, f, n) = Cited(q, g, n)
      BY <2>1, <2>2, CitedEarlier
    <2>4. CASE n = m + 1
      BY <1>2, <2>3, <2>4
    <2>5. CASE n # m + 1
      <3>1. n \in DOMAIN f
        BY <2>5
      <3>2. f[n] = Object(q[n], Cited(q, f, n), n)
        BY <3>1 DEF Becomes
      <3> QED BY <1>1, <2>3, <2>5, <3>1, <3>2
    <2> QED BY <2>4, <2>5
  <1>5. Becomes(q, g)
    BY <1>3, <1>3a, <1>4 DEF Becomes
  <1> QED BY <1>1, <1>2, <1>3, <1>5

\* The rows have the kinds declared, and the fields of rows.
LEMMA BecomesRows ==
    ASSUME NEW q, NEW f, Becomes(q, f)
    PROVE  /\ \A n \in DOMAIN f : f[n].kind = q[n].kind
           /\ AllRows({f[n] : n \in DOMAIN f})
  <1>1. ASSUME NEW n \in DOMAIN f
        PROVE  f[n].kind = q[n].kind /\ IsRow(f[n]) /\ Hashed(f[n])
    <2>1. f[n] = Object(q[n], Cited(q, f, n), n)
      BY DEF Becomes
    <2> HIDE DEF Cited
    <2>2. f[n].kind = q[n].kind /\ f[n].cites = Cited(q, f, n) /\ f[n].content = q[n].content
          /\ f[n].id = Identity(q[n], Cited(q, f, n), n)
      BY <2>1 DEF Object
    <2>3. IsRow(f[n])
      BY <2>1 DEF IsRow, Object
    <2>4. Hashed(f[n])
      <3> SUFFICES ASSUME q[n].kind = "evidence"
                   PROVE  f[n].id = [kind |-> f[n].kind, content |-> f[n].content,
                                     cites |-> f[n].cites]
        BY <2>2 DEF Hashed
      <3>1. q[n].kind \notin {"entity", "hypothesis"}
        OBVIOUS
      <3>2. Identity(q[n], Cited(q, f, n), n) =
                [kind |-> q[n].kind, content |-> q[n].content, cites |-> Cited(q, f, n)]
        BY <3>1 DEF Identity
      <3> QED BY <2>2, <3>2
    <2> QED BY <2>2, <2>3, <2>4
  <1> QED BY <1>1 DEF AllRows

\* A package all of whose declarations stand is well formed.
LEMMA StandingTogether ==
    ASSUME NEW q, NEW m \in Nat, DOMAIN q = 1 .. m, Len(q) = m, m <= MaxDeclared,
           \A n \in 1 .. m : Stands(q, n)
    PROVE  WellFormed(q)
  <1>1. ASSUME NEW n \in 1 .. m, NEW i \in 1 .. m, i # n, q[i].local = q[n].local
        PROVE  q[n].local = NoId
    <2>1. i \in 1 .. n - 1 \/ n \in 1 .. i - 1
      BY <1>1
    <2> QED BY <1>1, <2>1 DEF Stands
  <1> QED BY <1>1 DEF WellFormed, Stands

\* One that does not stand spoils its package.
LEMMA StandingApart ==
    ASSUME NEW q, NEW n \in DOMAIN q, NEW m \in Nat, DOMAIN q = 1 .. m, WellFormed(q)
    PROVE  Stands(q, n)
  <1>1. \A i \in 1 .. n - 1 : i \in DOMAIN q /\ i # n
    OBVIOUS
  <1> QED BY <1>1 DEF WellFormed, Stands

-----------------------------------------------------------------------------
(***************************************************************************)
(* One pass over the declarations.                                         *)
(***************************************************************************)

\* A package is the sequence of its declarations.
IsSequence(q) == \E S : q \in Seq(S)

\* How far p has resolved its package: the declarations so far stand, they have
\* become the rows, and a local id means the row of its declaration.
Passed(p, f) ==
    LET n == at[p] - 1
        q == package[p]
    IN /\ \A i \in 1 .. n : Stands(q, i)
       /\ claimed[p] = {q[i].local : i \in 1 .. n} \ {NoId}
       /\ DOMAIN names[p] = claimed[p]
       /\ DOMAIN f = 1 .. n /\ Becomes(q, f)
       /\ built[p] = {f[i] : i \in 1 .. n}
       /\ \A i \in 1 .. n : q[i].local # NoId => names[p][q[i].local] = f[i]

Progress(p) ==
    /\ Len(package[p]) <= MaxDeclared
    /\ at[p] <= Len(package[p]) + 1
    /\ IF errors[p] THEN ~WellFormed(package[p]) ELSE \E f : Passed(p, f)

\* Its package is well formed, and what it means is rows.
Accepted(p) ==
    /\ WellFormed(package[p])
    /\ AllRows(Everything(package[p]))
    /\ \E f : DOMAIN f = DOMAIN package[p] /\ Becomes(package[p], f)

\* The declarations of a package are numbered from 1.
LEMMA SequenceIs ==
    ASSUME NEW q, IsSequence(q)
    PROVE  Len(q) \in Nat /\ DOMAIN q = 1 .. Len(q)
  <1>1. PICK S : q \in Seq(S)
    BY DEF IsSequence
  <1> QED BY <1>1

\* Once every declaration has been looked at, the package is judged.
LEMMA ProgressEnds ==
    ASSUME NEW p \in Procs, TypeOK, IsSequence(package[p]), Progress(p), at[p] > Len(package[p])
    PROVE  /\ errors[p] => ~WellFormed(package[p])
           /\ ~errors[p] => Accepted(p) /\ built[p] = Everything(package[p])
  <1> DEFINE q == package[p]
  <1>1. Len(q) \in Nat /\ DOMAIN q = 1 .. Len(q) /\ Len(q) <= MaxDeclared
    BY SequenceIs DEF Progress
  <1>2. at[p] - 1 = Len(q)
    BY <1>1 DEF TypeOK, Progress
  <1>3. SUFFICES ASSUME ~errors[p] PROVE Accepted(p) /\ built[p] = Everything(q)
    BY DEF Progress
  <1>4. PICK f : Passed(p, f)
    BY <1>3 DEF Progress
  <1>5. /\ \A i \in 1 .. Len(q) : Stands(q, i)
        /\ DOMAIN f = 1 .. Len(q) /\ Becomes(q, f)
        /\ built[p] = {f[i] : i \in 1 .. Len(q)}
    BY <1>2, <1>4 DEF Passed
  <1> HIDE DEF q
  <1>6. PICK g : DOMAIN g = DOMAIN q /\ Becomes(q, g) /\ Everything(q) = {g[n] : n \in DOMAIN q}
    BY <1>1, <1>5, EverythingIs
  <1>7. f = g
    BY <1>1, <1>5, <1>6, BecomesOne
  <1>8. AllRows(Everything(q))
    BY <1>6, BecomesRows
  <1>9. built[p] = Everything(q)
    BY <1>1, <1>5, <1>6, <1>7
  <1>10. WellFormed(q)
    BY <1>1, <1>5, StandingTogether
  <1> QED BY <1>6, <1>8, <1>9, <1>10 DEF Accepted, q

\* What p is at, between the resolved and the rest.
LEMMA AtDeclaration ==
    ASSUME NEW p \in Procs, TypeOK, IsSequence(package[p]), at[p] <= Len(package[p])
    PROVE  /\ at[p] \in DOMAIN package[p] /\ at[p] \in Nat /\ at[p] # 0
           /\ (at[p] - 1) + 1 = at[p] /\ at[p] - 1 \in Nat
           /\ Len(package[p]) \in Nat /\ DOMAIN package[p] = 1 .. Len(package[p])
           /\ at[p] + 1 <= Len(package[p]) + 1
  <1>1. Len(package[p]) \in Nat /\ DOMAIN package[p] = 1 .. Len(package[p])
    BY SequenceIs
  <1>2. at[p] \in Nat /\ at[p] # 0
    BY DEF TypeOK
  <1> QED BY <1>1, <1>2

\* What is not claimable has a local id that is blank or taken.
LEMMA Unclaimable ==
    ASSUME NEW p \in Procs, TypeOK, IsSequence(package[p]), at[p] <= Len(package[p]),
           NEW f, Passed(p, f), ~Claimable(p)
    PROVE  ~WellFormed(package[p])
  <1> DEFINE q == package[p]
  <1>1. at[p] \in DOMAIN q /\ Len(q) \in Nat /\ DOMAIN q = 1 .. Len(q)
    BY AtDeclaration
  <1>2. ~Stands(q, at[p])
    BY DEF Passed, Claimable, Declared, Stands, Blank, NoId
  <1> QED BY <1>1, <1>2, StandingApart

\* A citation is known exactly if it means an earlier declaration, whose row it finds.
LEMMA KnownIs ==
    ASSUME NEW p \in Procs, TypeOK, IsSequence(package[p]), at[p] <= Len(package[p]),
           NEW f, Passed(p, f), NEW c
    PROVE  /\ Known(p, c) <=> Meant(package[p], at[p], c) # {}
           /\ \A i \in Meant(package[p], at[p], c) : names[p][c.local] = f[i]
  <1> DEFINE q == package[p]
             n == at[p] - 1
  <1>1. /\ claimed[p] = {q[i].local : i \in 1 .. n} \ {NoId}
        /\ DOMAIN names[p] = claimed[p]
        /\ DOMAIN f = 1 .. n /\ Becomes(q, f)
        /\ \A i \in 1 .. n : q[i].local # NoId => names[p][q[i].local] = f[i]
    BY DEF Passed
  <1>2. Meant(q, at[p], c) =
           {i \in 1 .. n : /\ q[i].local = c.local /\ q[i].local # NoId
                           /\ q[i].kind \in Permitted[c.role]}
    BY DEF Meant
  <1> HIDE DEF q, n
  <1>3. \A i \in 1 .. n : f[i].kind = q[i].kind
    <2>1. \A i \in DOMAIN f : f[i].kind = q[i].kind
      BY <1>1, BecomesRows
    <2> QED BY <1>1, <2>1
  <1>4. \A i \in Meant(q, at[p], c) :
           /\ names[p][c.local] = f[i]
           /\ c.local \in DOMAIN names[p]
           /\ names[p][c.local].kind \in Permitted[c.role]
    BY <1>1, <1>2, <1>3
  <1>5. Known(p, c) => Meant(q, at[p], c) # {}
    <2> SUFFICES ASSUME Known(p, c) PROVE Meant(q, at[p], c) # {}
      OBVIOUS
    <2>1. c.local \in claimed[p] /\ names[p][c.local].kind \in Permitted[c.role]
      BY <1>1 DEF Known
    <2>2. PICK i \in 1 .. n : q[i].local = c.local /\ q[i].local # NoId
      BY <1>1, <2>1
    <2>3. i \in Meant(q, at[p], c)
      BY <1>1, <1>2, <1>3, <2>1, <2>2
    <2> QED BY <2>3
  <1>6. Meant(q, at[p], c) # {} => Known(p, c)
    BY <1>4 DEF Known
  <1> QED BY <1>4, <1>5, <1>6 DEF q

\* What does not resolve spoils its package.
LEMMA Unresolvable ==
    ASSUME NEW p \in Procs, TypeOK, IsSequence(package[p]), at[p] <= Len(package[p]),
           NEW f, Passed(p, f), ~Resolves(p)
    PROVE  ~WellFormed(package[p])
  <1> DEFINE q == package[p]
  <1>1. at[p] \in DOMAIN q /\ Len(q) \in Nat /\ DOMAIN q = 1 .. Len(q)
    BY AtDeclaration
  <1>2. ~Stands(q, at[p])
    BY KnownIs DEF Resolves, Declared, Stands
  <1> QED BY <1>1, <1>2, StandingApart

\* What resolves stands, and becomes the row that it means.
LEMMA Resolvable ==
    ASSUME NEW p \in Procs, TypeOK, IsSequence(package[p]), at[p] <= Len(package[p]),
           NEW f, Passed(p, f), Claimable(p), Resolves(p)
    PROVE  /\ Stands(package[p], at[p])
           /\ Row(p) = Object(package[p][at[p]], Cited(package[p], f, at[p]), at[p])
  <1> DEFINE q == package[p]
  <1>1. Stands(q, at[p])
    <2>1. Acceptable(q[at[p]]) /\ \A c \in q[at[p]].cites : Meant(q, at[p], c) # {}
      BY KnownIs DEF Resolves, Declared
    <2>2. q[at[p]].local # Blank
      BY DEF Claimable, Declared, Blank, NoId
    <2>3. \A i \in 1 .. at[p] - 1 : q[i].local = q[at[p]].local => q[at[p]].local = NoId
      BY DEF Claimable, Declared, Passed
    <2> QED BY <2>1, <2>2, <2>3 DEF Stands
  <1>2. \A c \in q[at[p]].cites :
           names[p][c.local].id = f[CHOOSE i \in Meant(q, at[p], c) : TRUE].id
    BY <1>1, KnownIs, MeansEarlier
  <1>3. {[role |-> c.role, id |-> names[p][c.local].id] : c \in q[at[p]].cites}
            = Cited(q, f, at[p])
    BY <1>2 DEF Cited
  <1> QED BY <1>1, <1>3 DEF Row, Declared

\* A declaration is resolved: p has got one further.
LEMMA ProgressResolve ==
    ASSUME NEW p \in Procs, TypeOK, IsSequence(package[p]), Progress(p), Resolve(p)
    PROVE  Progress(p)'
  <1> DEFINE q == package[p]
             n == at[p]
  <1>1. /\ n <= Len(q) /\ Claimable(p) /\ Resolves(p)
        /\ package'[p] = q /\ at'[p] = n + 1 /\ errors'[p] = errors[p]
        /\ claimed'[p] = claimed[p] \cup LocalId(p)
        /\ built'[p] = built[p] \cup {Row(p)}
        /\ names'[p] = [l \in DOMAIN names[p] \cup LocalId(p) |->
                            IF l \in LocalId(p) THEN Row(p) ELSE names[p][l]]
    BY DEF Resolve, TypeOK
  <1>2. /\ n \in DOMAIN q /\ n \in Nat /\ n # 0 /\ Len(q) \in Nat
        /\ (n - 1) + 1 = n /\ n - 1 \in Nat /\ n + 1 <= Len(q) + 1
    BY <1>1, AtDeclaration
  <1>3. CASE errors[p]
    BY <1>1, <1>2, <1>3 DEF Progress
  <1>4. CASE ~errors[p]
    <2>1. PICK f : Passed(p, f)
      BY <1>4 DEF Progress
    <2>2. /\ \A i \in 1 .. n - 1 : Stands(q, i)
          /\ claimed[p] = {q[i].local : i \in 1 .. n - 1} \ {NoId}
          /\ DOMAIN names[p] = claimed[p]
          /\ DOMAIN f = 1 .. n - 1 /\ Becomes(q, f)
          /\ built[p] = {f[i] : i \in 1 .. n - 1}
          /\ \A i \in 1 .. n - 1 : q[i].local # NoId => names[p][q[i].local] = f[i]
      BY <2>1 DEF Passed
    <2>3. Stands(q, n) /\ Row(p) = Object(q[n], Cited(q, f, n), n)
      BY <1>1, <2>1, Resolvable
    <2>4. LocalId(p) = {q[n].local} \ {NoId}
      BY DEF LocalId, Declared
    <2>5. q[n].local = NoId \/ q[n].local \notin claimed[p]
      BY <1>1 DEF Claimable, Declared
    <2>6. package[p]' = q /\ (at[p] - 1)' = n
      BY <1>1, <1>2
    <2> HIDE DEF q, n
    <2>7. PICK g : /\ DOMAIN g = 1 .. n /\ Becomes(q, g)
                   /\ \A i \in 1 .. n - 1 : g[i] = f[i]
                   /\ g[n] = Row(p)
      <3>1. \E g : /\ DOMAIN g = 1 .. (n - 1) + 1 /\ Becomes(q, g)
                   /\ \A i \in 1 .. n - 1 : g[i] = f[i]
                   /\ g[(n - 1) + 1] = Object(q[(n - 1) + 1], Cited(q, f, (n - 1) + 1), (n - 1) + 1)
        <4>1. Stands(q, (n - 1) + 1)
          BY <1>2, <2>3
        <4> DEFINE m == n - 1
        <4>2. m \in Nat /\ \A i \in 1 .. m : Stands(q, i)
          BY <1>2, <2>2
        <4>3. Stands(q, m + 1) /\ DOMAIN f = 1 .. m /\ Becomes(q, f)
          BY <2>2, <4>1
        <4> HIDE DEF m
        <4>4. \E g : /\ DOMAIN g = 1 .. m + 1 /\ Becomes(q, g)
                     /\ \A i \in 1 .. m : g[i] = f[i]
                     /\ g[m + 1] = Object(q[m + 1], Cited(q, f, m + 1), m + 1)
          BY <4>2, <4>3, BecomesMore
        <4> QED BY <4>4 DEF m
      <3> QED BY <1>2, <2>3, <3>1
    <2>8. 1 .. n = (1 .. n - 1) \cup {n}
      BY <1>2
    <2>9. \A i \in 1 .. n : Stands(q, i)
      BY <2>2, <2>3, <2>8
    <2>10. claimed'[p] = {q[i].local : i \in 1 .. n} \ {NoId}
      BY <1>1, <2>2, <2>4, <2>8
    <2>11. DOMAIN names'[p] = claimed'[p]
      BY <1>1, <2>2
    <2>12. built'[p] = {g[i] : i \in 1 .. n}
      BY <1>1, <2>2, <2>7, <2>8
    <2>13. ASSUME NEW i \in 1 .. n, q[i].local # NoId PROVE names'[p][q[i].local] = g[i]
      <3>1. CASE i = n
        <4>1. q[i].local \in LocalId(p)
          BY <2>4, <2>13, <3>1
        <4> QED BY <1>1, <2>7, <3>1, <4>1
      <3>2. CASE i # n
        <4>1. i \in 1 .. n - 1
          BY <2>8, <3>2
        <4>2. q[i].local \in claimed[p]
          BY <2>2, <2>13, <4>1
        <4>3. q[i].local \notin LocalId(p)
          BY <2>4, <2>5, <4>2
        <4>4. names'[p][q[i].local] = names[p][q[i].local]
          BY <1>1, <2>2, <4>2, <4>3
        <4> QED BY <2>2, <2>7, <2>13, <4>1, <4>4
      <3> QED BY <3>1, <3>2
    <2>14. Passed(p, g)'
      BY <2>6, <2>7, <2>9, <2>10, <2>11, <2>12, <2>13 DEF Passed
    <2>15. Len(package'[p]) <= MaxDeclared /\ at'[p] <= Len(package'[p]) + 1 /\ ~errors'[p]
      BY <1>1, <1>2, <1>4, <2>6 DEF Progress, q, n
    <2> QED BY <2>14, <2>15 DEF Progress
  <1> QED BY <1>3, <1>4

\* A declaration is refused or not resolved: no well-formed package has it.
LEMMA ProgressRefuse ==
    ASSUME NEW p \in Procs, TypeOK, IsSequence(package[p]), Progress(p),
           Refuse(p) \/ Unresolved(p)
    PROVE  Progress(p)'
  <1>1. /\ at[p] <= Len(package[p])
        /\ ~Claimable(p) \/ ~Resolves(p)
        /\ package'[p] = package[p] /\ at'[p] = at[p] + 1 /\ errors'[p]
    BY DEF Refuse, Unresolved, TypeOK
  <1>2. at[p] + 1 <= Len(package[p]) + 1
    BY <1>1, AtDeclaration
  <1>3. ~WellFormed(package[p])
    <2>1. CASE errors[p]
      BY <2>1 DEF Progress
    <2>2. CASE ~errors[p]
      BY <1>1, <2>2, Unclaimable, Unresolvable DEF Progress
    <2> QED BY <2>1, <2>2
  <1> QED BY <1>1, <1>2, <1>3 DEF Progress

-----------------------------------------------------------------------------
(***************************************************************************)
(* Rows put one after the other.                                           *)
(***************************************************************************)

\* Rows that are the same hold the same, but for their sources.
Alike(some, others) ==
    \A r \in some, o \in others :
        SameRow(r, o) => r.cites = o.cites /\ r.content = o.content

\* Evidence of the same id is the same but for its sources.
LEMMA HashedAlike ==
    ASSUME NEW some, NEW others, AllRows(some), AllRows(others), \A o \in some : o.kind = "evidence"
    PROVE  Alike(some, others)
  <1> SUFFICES ASSUME NEW r \in some, NEW o \in others, SameRow(r, o)
               PROVE  r.cites = o.cites /\ r.content = o.content
    BY DEF Alike
  <1>1. r.kind = "evidence" /\ o.kind = "evidence" /\ r.id = o.id
    BY DEF SameRow
  <1>2. /\ r.id = [kind |-> r.kind, content |-> r.content, cites |-> r.cites]
        /\ o.id = [kind |-> o.kind, content |-> o.content, cites |-> o.cites]
    BY <1>1 DEF AllRows, Hashed
  <1>3. r.id.cites = r.cites /\ r.id.content = r.content
    BY <1>2
  <1>4. o.id.cites = o.cites /\ o.id.content = o.content
    BY <1>2
  <1> QED BY <1>1, <1>3, <1>4

\* The sources of all rows that are the same as o.
SourcesOf(rs, o) == UNION {r.sources : r \in {q \in rs : SameRow(q, o)}}
\* o with sources s.
With(o, s) ==
    [kind |-> o.kind, id |-> o.id, cites |-> o.cites, content |-> o.content, sources |-> s]

\* The fields of o, with other sources.
LEMMA WithFields ==
    \A o, s : /\ With(o, s).kind = o.kind /\ With(o, s).id = o.id
              /\ With(o, s).cites = o.cites /\ With(o, s).content = o.content
              /\ With(o, s).sources = s
  BY DEF With

\* Merging is what is left and what is put, each with the sources of both.
LEMMA MergedIs ==
    ASSUME NEW some, NEW objects, \A o \in objects : IsRow(o)
    PROVE  Merged(some, objects) =
              {r \in some : \A o \in objects : ~SameRow(r, o)}
              \cup {With(o, SourcesOf(some \cup objects, o)) : o \in objects}
  <1>1. \A o \in objects :
           [o EXCEPT !.sources = SourcesOf(some \cup objects, o)]
               = With(o, SourcesOf(some \cup objects, o))
    <2> TAKE o \in objects
    <2> DEFINE s == SourcesOf(some \cup objects, o)
    <2>1. IsRow(o)
      OBVIOUS
    <2> HIDE DEF s
    <2>2. [o EXCEPT !.sources = s] = With(o, s)
      BY <2>1 DEF IsRow, With
    <2> QED BY <2>2 DEF s
  <1>2. Merged(some, objects) =
              {r \in some : \A o \in objects : ~SameRow(r, o)}
              \cup {[o EXCEPT !.sources = SourcesOf(some \cup objects, o)] : o \in objects}
    BY DEF Merged, SourcesOf
  <1> QED BY <1>1, <1>2

\* Rows put in two steps, of which the first puts evidence, are put as in one.
LEMMA MergedTwice ==
    ASSUME NEW some, NEW first, NEW then, AllRows(first), AllRows(then), Alike(first, then)
    PROVE  Merged(Merged(some, first), then) = Merged(some, first \cup then)
  <1> DEFINE one == Merged(some, first)
             all == some \cup (first \cup then)
  <1>1. one = {r \in some : \A o \in first : ~SameRow(r, o)}
              \cup {With(o, SourcesOf(some \cup first, o)) : o \in first}
    <2>1. \A o \in first : IsRow(o)
      BY DEF AllRows
    <2> QED BY <2>1, MergedIs
  <1>2. Merged(one, then) =
              {r \in one : \A o \in then : ~SameRow(r, o)}
              \cup {With(o, SourcesOf(one \cup then, o)) : o \in then}
    BY MergedIs DEF AllRows
  <1>3. Merged(some, first \cup then) =
              {r \in some : \A o \in first \cup then : ~SameRow(r, o)}
              \cup {With(o, SourcesOf(all, o)) : o \in first \cup then}
    <2>1. \A o \in first \cup then : IsRow(o)
      BY DEF AllRows
    <2> QED BY <2>1, MergedIs
  <1> HIDE DEF one, all
  <1>a. \A o, s, r : SameRow(With(o, s), r) <=> SameRow(o, r)
    BY WithFields DEF SameRow
  <1>b. \A o, s, r : SameRow(r, With(o, s)) <=> SameRow(r, o)
    BY WithFields DEF SameRow
  <1>c. \A r, o, q : SameRow(r, o) /\ SameRow(o, q) => SameRow(r, q)
    BY DEF SameRow
  <1>d. \A r, o : SameRow(r, o) => SameRow(o, r)
    BY DEF SameRow
  <1>4. ASSUME NEW o \in then PROVE SourcesOf(one \cup then, o) = SourcesOf(all, o)
    <2>1. ASSUME NEW x \in SourcesOf(one \cup then, o) PROVE x \in SourcesOf(all, o)
      <3>1. PICK r \in one \cup then : SameRow(r, o) /\ x \in r.sources
        BY <2>1 DEF SourcesOf
      <3>2. CASE r \in some \/ r \in then
        BY <3>1, <3>2 DEF SourcesOf, all
      <3>3. CASE \E q \in first : r = With(q, SourcesOf(some \cup first, q))
        <4>1. PICK q \in first : r = With(q, SourcesOf(some \cup first, q))
          BY <3>3
        <4>2. x \in SourcesOf(some \cup first, q) /\ SameRow(q, o)
          BY <3>1, <4>1, <1>a, WithFields
        <4>3. PICK y \in some \cup first : SameRow(y, q) /\ x \in y.sources
          BY <4>2 DEF SourcesOf
        <4>4. y \in all /\ SameRow(y, o)
          BY <4>2, <4>3, <1>c DEF all
        <4> QED BY <4>3, <4>4 DEF SourcesOf
      <3> QED BY <3>1, <3>2, <3>3, <1>1
    <2>2. ASSUME NEW x \in SourcesOf(all, o) PROVE x \in SourcesOf(one \cup then, o)
      <3>1. PICK r \in all : SameRow(r, o) /\ x \in r.sources
        BY <2>2 DEF SourcesOf
      <3>2. CASE r \in one \cup then
        BY <3>1, <3>2 DEF SourcesOf
      <3>3. CASE r \notin one \cup then
        <4>1. r \in some \cup first /\ \E q \in first : SameRow(r, q)
          <5>1. r \in some \cup first
            BY <3>3 DEF all
          <5>2. \A q : SameRow(q, q)
            BY DEF SameRow
          <5> QED BY <3>3, <5>1, <5>2, <1>1
        <4>2. PICK q \in first : SameRow(r, q)
          BY <4>1
        <4>3. x \in SourcesOf(some \cup first, q)
          BY <3>1, <4>1, <4>2 DEF SourcesOf
        <4>4. With(q, SourcesOf(some \cup first, q)) \in one
          BY <1>1
        <4>5. SameRow(With(q, SourcesOf(some \cup first, q)), o)
          BY <3>1, <4>2, <1>a, <1>c, <1>d
        <4>6. x \in With(q, SourcesOf(some \cup first, q)).sources
          BY <4>3, WithFields
        <4> QED BY <4>4, <4>5, <4>6 DEF SourcesOf
      <3> QED BY <3>2, <3>3
    <2> QED BY <2>1, <2>2
  <1>5. ASSUME NEW o \in first, NEW t \in then, SameRow(o, t)
        PROVE  With(o, SourcesOf(all, o)) = With(t, SourcesOf(all, t))
    <2>1. o.kind = t.kind /\ o.id = t.id /\ o.cites = t.cites /\ o.content = t.content
      BY <1>5 DEF SameRow, Alike
    <2>2. {q \in all : SameRow(q, o)} = {q \in all : SameRow(q, t)}
      BY <1>5, <1>c, <1>d
    <2>3. SourcesOf(all, o) = SourcesOf(all, t)
      BY <2>2 DEF SourcesOf
    <2> QED BY <2>1, <2>3 DEF With
  <1>6. ASSUME NEW o \in first, \A t \in then : ~SameRow(o, t)
        PROVE  SourcesOf(some \cup first, o) = SourcesOf(all, o)
    <2>1. {q \in some \cup first : SameRow(q, o)} = {q \in all : SameRow(q, o)}
      BY <1>6, <1>d DEF all
    <2> QED BY <2>1 DEF SourcesOf
  <1>7. ASSUME NEW r \in Merged(one, then) PROVE r \in Merged(some, first \cup then)
    <2>1. CASE r \in one /\ \A o \in then : ~SameRow(r, o)
      <3>1. CASE r \in some /\ \A o \in first : ~SameRow(r, o)
        BY <2>1, <3>1, <1>3
      <3>2. CASE \E q \in first : r = With(q, SourcesOf(some \cup first, q))
        <4>1. PICK q \in first : r = With(q, SourcesOf(some \cup first, q))
          BY <3>2
        <4>2. \A t \in then : ~SameRow(q, t)
          BY <2>1, <4>1, <1>a
        <4>3. r = With(q, SourcesOf(all, q))
          BY <4>1, <4>2, <1>6
        <4> QED BY <4>3, <1>3
      <3> QED BY <2>1, <3>1, <3>2, <1>1
    <2>2. CASE \E o \in then : r = With(o, SourcesOf(one \cup then, o))
      BY <2>2, <1>3, <1>4
    <2> QED BY <2>1, <2>2, <1>2, <1>7
  <1>8. ASSUME NEW r \in Merged(some, first \cup then) PROVE r \in Merged(one, then)
    <2>1. CASE r \in some /\ \A o \in first \cup then : ~SameRow(r, o)
      BY <2>1, <1>1, <1>2
    <2>2. CASE \E o \in then : r = With(o, SourcesOf(all, o))
      BY <2>2, <1>2, <1>4
    <2>3. CASE \E o \in first : r = With(o, SourcesOf(all, o))
      <3>1. PICK o \in first : r = With(o, SourcesOf(all, o))
        BY <2>3
      <3>2. CASE \E t \in then : SameRow(o, t)
        BY <3>1, <3>2, <1>2, <1>4, <1>5
      <3>3. CASE \A t \in then : ~SameRow(o, t)
        <4>1. r = With(o, SourcesOf(some \cup first, o))
          BY <3>1, <3>3, <1>6
        <4>2. r \in one /\ \A t \in then : ~SameRow(r, t)
          BY <3>3, <4>1, <1>1, <1>a
        <4> QED BY <4>2, <1>2
      <3> QED BY <3>2, <3>3
    <2> QED BY <2>1, <2>2, <2>3, <1>3, <1>8
  <1>9. Merged(one, then) = Merged(some, first \cup then)
    BY <1>7, <1>8
  <1> QED BY <1>9 DEF one

\* Finitely many rows are merged to finitely many.
LEMMA MergedFinite ==
    ASSUME NEW some, NEW objects, IsFiniteSet(some), IsFiniteSet(objects)
    PROVE  IsFiniteSet(Merged(some, objects))
  <1> DEFINE kept == {r \in some : \A o \in objects : ~SameRow(r, o)}
             New(o) == [o EXCEPT !.sources =
                           UNION {r.sources : r \in {q \in some \cup objects : SameRow(q, o)}}]
  <1>1. IsFiniteSet(kept)
    BY FS_Subset
  <1>2. IsFiniteSet({New(o) : o \in objects})
    <2> DEFINE T == {New(o) : o \in objects}
               f == [o \in objects |-> New(o)]
    <2>1. f \in Surjection(objects, T)
      <3> HIDE DEF New
      <3> QED BY DEF Surjection
    <2> HIDE DEF f, T
    <2>2. IsFiniteSet(T)
      BY <2>1, FS_Surjection
    <2> QED BY <2>2 DEF T
  <1>3. Merged(some, objects) = kept \cup {New(o) : o \in objects}
    BY DEF Merged
  <1> HIDE DEF kept, New
  <1> QED BY <1>1, <1>2, <1>3, FS_Union

-----------------------------------------------------------------------------
(***************************************************************************)
(* Packages are sequences and cases are finite.                            *)
(***************************************************************************)

\* What is in a file that can be read, or in a process's hands, is a sequence.
Sequences ==
    /\ DOMAIN files = Files /\ DOMAIN package = Procs
    /\ \A f \in Files : files[f] \notin {NoFile, Broken} => IsSequence(files[f])
    /\ \A p \in Procs : IsSequence(package[p])

\* Cases, and what is put into them, are finite.
Finite ==
    /\ \A d \in Dirs : IsFiniteSet(rows[d]) /\ IsFiniteSet(image[d])
    /\ \A p \in Procs : IsFiniteSet(built[p])

ListInv == TypeOK /\ Sequences /\ Finite

\* What an export declares of the rows of a kind is a sequence.
LEMMA DeclaredSequence ==
    ASSUME NEW some, IsFiniteSet(some), NEW kind, NEW q \in Declarations(some, kind)
    PROVE  IsSequence(q)
  <1> DEFINE table == OfKind(some, kind)
  <1>1. PICK list \in Listings(table), source \in Origins(table) :
           q = [i \in DOMAIN list |-> Declaration(list[i], source[list[i]])]
    BY DEF Declarations
  <1>2. Cardinality(table) \in Nat
    <2>1. IsFiniteSet(table)
      BY FS_Subset DEF OfKind
    <2> QED BY <2>1, FS_CardinalityType
  <1> HIDE DEF table
  <1>3. DOMAIN list = 1 .. Cardinality(table)
    BY DEF Listings, SetToSeqs
  <1> DEFINE D(i) == Declaration(list[i], source[list[i]])
             T == {D(i) : i \in DOMAIN list}
  <1>4. q \in [1 .. Cardinality(table) -> T]
    <2> HIDE DEF D
    <2>1. q = [i \in DOMAIN list |-> D(i)]
      BY <1>1 DEF D
    <2> QED BY <1>3, <2>1
  <1> HIDE DEF T
  <1>5. q \in Seq(T)
    BY <1>2, <1>4
  <1> QED BY <1>5 DEF IsSequence

\* Two sequences one after the other are one.
LEMMA JoinedSequence ==
    ASSUME NEW q, NEW r, IsSequence(q), IsSequence(r)
    PROVE  IsSequence(q \o r)
  <1>1. PICK S : q \in Seq(S)
    BY DEF IsSequence
  <1>2. PICK T : r \in Seq(T)
    BY DEF IsSequence
  <1>3. q \in Seq(S \cup T) /\ r \in Seq(S \cup T)
    <2>1. \A i \in 1 .. Len(q) : q[i] \in S \cup T
      BY <1>1
    <2>2. \A i \in 1 .. Len(r) : r[i] \in S \cup T
      BY <1>2
    <2>3. q \in [1 .. Len(q) -> S \cup T] /\ Len(q) \in Nat
      BY <1>1, <2>1
    <2>4. r \in [1 .. Len(r) -> S \cup T] /\ Len(r) \in Nat
      BY <1>2, <2>2
    <2> QED BY <2>3, <2>4
  <1>4. q \o r \in Seq(S \cup T)
    BY <1>3
  <1> QED BY <1>4 DEF IsSequence

\* So are the packages that are there, ...
LEMMA GivenSequence ==
    ASSUME NEW q \in Packages \cup {Demo}
    PROVE  IsSequence(q)
  BY PackagesAssumption DEF IsSequence

\* ... and the one that declares nothing.
LEMMA EmptySequence == IsSequence(<< >>)
  <1>1. << >> \in Seq({})
    OBVIOUS
  <1> QED BY <1>1 DEF IsSequence

\* At first cases and packages are finite.
LEMMA ListInit == Init => ListInv
  <1> SUFFICES ASSUME Init PROVE ListInv
    OBVIOUS
  <1>1. TypeOK
    BY TypesInit
  <1>2. Sequences
    <2>1. PICK q \in Packages : files = [f \in Files |-> IF f = Given THEN q ELSE NoFile]
      BY DEF Init
    <2>2. package = [p \in Procs |-> << >>]
      BY DEF Init
    <2>3. IsSequence(q)
      BY GivenSequence
    <2> QED BY <2>1, <2>2, <2>3, EmptySequence DEF Sequences
  <1>3. Finite
    <2>1. rows = [d \in Dirs |-> IF d \in DOMAIN Earlier THEN Earlier[d] ELSE {}]
          /\ image = rows /\ built = [p \in Procs |-> {}]
      BY DEF Init
    <2>2. \A d \in DOMAIN Earlier : IsFiniteSet(Earlier[d])
      BY EarlierAssumption
    <2>3. IsFiniteSet({})
      BY FS_EmptySet
    <2> QED BY <2>1, <2>2, <2>3 DEF Finite
  <1> QED BY <1>1, <1>2, <1>3 DEF ListInv

\* Files and processes only ever get sequences of declarations.
LEMMA SequencesNext == ListInv /\ [Next]_vars => Sequences'
  <1> SUFFICES ASSUME ListInv, [Next]_vars PROVE Sequences'
    OBVIOUS
  <1>0. TypeOK /\ Sequences /\ Finite
    BY DEF ListInv
  <1> USE <1>0
  <1>1. CASE UNCHANGED <<files, package>>
    BY <1>1 DEF Sequences
  <1>2. ASSUME NEW p \in Procs, NEW q, IsSequence(q), files' = files,
               package' = [package EXCEPT ![p] = q]
        PROVE  Sequences'
    BY <1>2 DEF Sequences
  <1>3. ASSUME NEW p \in Procs, Begin(p, "load", dir'[p], file'[p], << >>) PROVE Sequences'
    BY <1>2, <1>3, EmptySequence DEF Begin
  <1>4. ASSUME NEW p \in Procs, Import(p) \/ Export(p) \/ Interrupt(p) PROVE Sequences'
    <2>1. CASE BeginImport(p)
      BY <2>1, <1>2, EmptySequence DEF BeginImport, Begin
    <2>2. CASE BeginExport(p)
      BY <2>2, <1>2, EmptySequence DEF BeginExport, Begin
    <2>3. CASE BeginInit(p)
      <3>1. IsSequence(Demo)
        BY GivenSequence
      <3> QED BY <2>3, <3>1, <1>2 DEF BeginInit, Begin
    <2>4. CASE Load(p)
      <3>1. file[p] \in Files
        BY DEF TypeOK
      <3>2. IsSequence(files[file[p]])
        BY <2>4, <3>1 DEF Load, Loadable, Sequences
      <3> QED BY <2>4, <3>2, <1>2 DEF Load
    <2>5. CASE ReadTable(p)
      <3>1. PICK q \in Declarations(rows[dir[p]], KindOrder[at[p]]) :
               package' = [package EXCEPT ![p] = @ \o q]
        BY <2>5 DEF ReadTable
      <3>2. IsFiniteSet(rows[dir[p]])
        BY DEF TypeOK, Finite
      <3>3. IsSequence(package[p] \o q)
        BY <3>2, DeclaredSequence, JoinedSequence DEF Sequences
      <3>4. files' = files
        BY <2>5 DEF ReadTable
      <3>5. package' = [package EXCEPT ![p] = package[p] \o q]
        BY <3>1 DEF Sequences
      <3> QED BY <3>3, <3>4, <3>5, <1>2
    <2>6. CASE OpenFile(p)
      BY <2>6 DEF OpenFile, locals, Sequences
    <2>7. CASE WriteFile(p)
      BY <2>7 DEF WriteFile, locals, Sequences
    <2>8. CASE \/ LoadFails(p) \/ Refuse(p) \/ Unresolved(p) \/ Resolve(p) \/ Reject(p)
               \/ Accept(p) \/ NotEmpty(p) \/ Create(p) \/ PutEvidence(p) \/ Commit(p)
               \/ LockTimeout(p) \/ RecordManifest(p) \/ PutTogether(p) \/ FileExists(p)
               \/ Interrupt(p)
      <3>1. UNCHANGED <<files, package>>
        BY <2>8 DEF LoadFails, Refuse, Unresolved, Resolve, Reject, Accept, NotEmpty, Create,
                    PutEvidence, Commit, LockTimeout, RecordManifest, PutTogether, FileExists,
                    Interrupt, End, locals
      <3> QED BY <3>1, <1>1
    <2> QED BY <1>4, <2>1, <2>2, <2>3, <2>4, <2>5, <2>6, <2>7, <2>8 DEF Import, Export
  <1> QED BY <1>1, <1>4 DEF Next, Finished, vars, locals

\* Cases only ever get finitely many rows.
LEMMA FiniteNext == ListInv /\ [Next]_vars => Finite'
  <1> SUFFICES ASSUME ListInv, [Next]_vars PROVE Finite'
    OBVIOUS
  <1>0. TypeOK /\ Finite
    BY DEF ListInv
  <1> USE <1>0
  <1>1. CASE UNCHANGED <<rows, image, built>>
    BY <1>1 DEF Finite
  <1>2. ASSUME NEW p \in Procs, Import(p) \/ Export(p) \/ Interrupt(p) PROVE Finite'
    <2>0. dir[p] \in Dirs
      BY DEF TypeOK
    <2>1. CASE BeginImport(p) \/ BeginExport(p) \/ BeginInit(p)
      <3>1. UNCHANGED <<rows, image>> /\ built' = [built EXCEPT ![p] = {}]
        BY <2>1 DEF BeginImport, BeginExport, BeginInit, Begin, cases
      <3> QED BY <3>1, FS_EmptySet DEF Finite, TypeOK
    <2>2. CASE Resolve(p)
      <3>1. UNCHANGED <<rows, image>> /\ built' = [built EXCEPT ![p] = @ \cup {Row(p)}]
        BY <2>2 DEF Resolve, cases
      <3>2. IsFiniteSet(built[p] \cup {Row(p)})
        BY FS_AddElement DEF Finite
      <3> QED BY <3>1, <3>2 DEF Finite, TypeOK
    <2>3. IsFiniteSet(View(p))
      BY <2>0 DEF Finite, View
    <2>4. CASE PutEvidence(p)
      <3>1. PICK o \in Evidence(built[p]) :
               /\ image' = [image EXCEPT ![dir[p]] = Merged(View(p), {o})]
               /\ built' = [built EXCEPT ![p] = @ \ {o}]
        BY <2>4 DEF PutEvidence
      <3>2. IsFiniteSet(Merged(View(p), {o}))
        <4>1. IsFiniteSet({o})
          BY FS_Singleton
        <4> QED BY <2>3, <4>1, MergedFinite
      <3>3. IsFiniteSet(built[p] \ {o})
        BY FS_RemoveElement DEF Finite
      <3>4. UNCHANGED rows
        BY <2>4 DEF PutEvidence
      <3> QED BY <3>1, <3>2, <3>3, <3>4 DEF Finite, TypeOK
    <2>5. CASE Commit(p)
      <3>1. /\ rows' = [rows EXCEPT ![dir[p]] = Merged(View(p), built[p])]
            /\ image' = [image EXCEPT ![dir[p]] = Merged(View(p), built[p])]
            /\ built' = [built EXCEPT ![p] = {}]
        BY <2>5 DEF Commit
      <3>2. IsFiniteSet(Merged(View(p), built[p]))
        BY <2>3, MergedFinite DEF Finite
      <3> QED BY <3>1, <3>2, FS_EmptySet DEF Finite, TypeOK
    <2>6. CASE \/ LoadFails(p) \/ Reject(p) \/ NotEmpty(p) \/ LockTimeout(p) \/ FileExists(p)
               \/ Interrupt(p)
      <3>1. /\ UNCHANGED <<rows, built>>
            /\ image' = [image EXCEPT ![dir[p]] = IF lock[dir[p]] = p THEN rows[dir[p]] ELSE @]
        BY <2>6 DEF LoadFails, Reject, NotEmpty, LockTimeout, FileExists, Interrupt, End, locals
      <3> QED BY <2>0, <3>1 DEF Finite, TypeOK
    <2>7. CASE \/ Load(p) \/ Refuse(p) \/ Unresolved(p) \/ Accept(p) \/ Create(p)
               \/ RecordManifest(p) \/ ReadTable(p) \/ PutTogether(p) \/ OpenFile(p)
               \/ WriteFile(p)
      <3>1. UNCHANGED <<rows, image, built>>
        BY <2>7 DEF Load, Refuse, Unresolved, Accept, Create, RecordManifest, ReadTable,
                    PutTogether, OpenFile, WriteFile, cases, locals, resolution
      <3> QED BY <3>1, <1>1
    <2> QED BY <1>2, <2>1, <2>2, <2>4, <2>5, <2>6, <2>7 DEF Import, Export
  <1> QED BY <1>1, <1>2 DEF Next, Finished, vars, locals, cases

\* Types, sequences and finiteness are kept together.
LEMMA ListNext == ListInv /\ [Next]_vars => ListInv'
  BY TypesNext, SequencesNext, FiniteNext DEF ListInv

-----------------------------------------------------------------------------
(***************************************************************************)
(* What is put is a whole package.                                         *)
(***************************************************************************)

\* p puts a package into its case, and has put the evidence done so far, if any.
Put(p, done) ==
    /\ done \cup built[p] = Everything(package[p])
    /\ \A o \in done : o.kind = "evidence"
    /\ IF lock[dir[p]] = p
       THEN image[dir[p]] = Merged(rows[dir[p]], done)
       ELSE done = {}

\* What is left of an import at each of its steps is what makes it whole.
Whole(p) ==
    /\ pc[p] = "load" => /\ at[p] = 1 /\ claimed[p] = {} /\ names[p] = << >>
                         /\ built[p] = {} /\ errors[p] = FALSE
    /\ pc[p] = "resolve" => Progress(p)
    /\ pc[p] = "create" => Accepted(p) /\ built[p] = Everything(package[p])
    /\ pc[p] = "put" => Accepted(p) /\ \E done : Put(p, done)

WholeInv == ListInv /\ \A p \in Procs : Whole(p)

\* Nothing is imported yet.
LEMMA WholeInit == Init => WholeInv
  BY ListInit DEF Init, WholeInv, Whole

\* A step that leaves the process, its lock and what it has written alone.
LEMMA WholeSpared ==
    ASSUME NEW q \in Procs, Whole(q),
           pc'[q] = pc[q], dir'[q] = dir[q], package'[q] = package[q], at'[q] = at[q],
           claimed'[q] = claimed[q], names'[q] = names[q], built'[q] = built[q],
           errors'[q] = errors[q],
           lock'[dir[q]] = q <=> lock[dir[q]] = q,
           lock[dir[q]] = q => image'[dir[q]] = image[dir[q]] /\ rows'[dir[q]] = rows[dir[q]]
    PROVE  Whole(q)'
  <1>1. pc[q] = "resolve" => Progress(q)'
    <2>1. Progress(q) <=> Progress(q)'
      BY DEF Progress, Passed
    <2> QED BY <2>1 DEF Whole
  <1>2. Accepted(q) <=> Accepted(q)'
    BY DEF Accepted
  <1>3. ASSUME NEW done, Put(q, done) PROVE Put(q, done)'
    BY <1>3 DEF Put
  <1> QED BY <1>1, <1>2, <1>3 DEF Whole

\* What the steps of others leave alone.
LEMMA WholeOthers ==
    ASSUME WholeInv, NEW p \in Procs, Import(p) \/ Export(p) \/ Interrupt(p),
           NEW q \in Procs, q # p
    PROVE  Whole(q)'
  <1>0. TypeOK /\ Sequences /\ Whole(q)
    BY DEF WholeInv, ListInv
  <1>1. /\ pc'[q] = pc[q] /\ dir'[q] = dir[q] /\ package'[q] = package[q] /\ at'[q] = at[q]
        /\ claimed'[q] = claimed[q] /\ names'[q] = names[q] /\ built'[q] = built[q]
        /\ errors'[q] = errors[q]
        /\ lock'[dir[q]] = q <=> lock[dir[q]] = q
        /\ lock[dir[q]] = q => image'[dir[q]] = image[dir[q]] /\ rows'[dir[q]] = rows[dir[q]]
    <2> USE <1>0, NoProcAssumption
    <2>1. CASE BeginImport(p) \/ BeginExport(p) \/ BeginInit(p)
      BY <2>1 DEF TypeOK, Sequences, BeginImport, BeginExport, BeginInit, Begin, cases
    <2>2. CASE \/ LoadFails(p) \/ Reject(p) \/ NotEmpty(p) \/ LockTimeout(p) \/ FileExists(p)
               \/ Interrupt(p)
      <3>1. End(p)
        BY <2>2 DEF LoadFails, Reject, NotEmpty, LockTimeout, FileExists, Interrupt
      <3> QED BY <3>1 DEF TypeOK, End, locals
    <2>3. CASE Load(p)
      BY <2>3 DEF TypeOK, Sequences, Load, cases, resolution
    <2>4. CASE Refuse(p) \/ Unresolved(p) \/ Resolve(p)
      BY <2>4 DEF TypeOK, Refuse, Unresolved, Resolve, cases
    <2>5. CASE \/ Accept(p) \/ Create(p) \/ RecordManifest(p) \/ PutTogether(p) \/ OpenFile(p)
               \/ WriteFile(p)
      BY <2>5 DEF TypeOK, Accept, Create, RecordManifest, PutTogether, OpenFile, WriteFile,
                  cases, locals
    <2>6. CASE ReadTable(p)
      BY <2>6 DEF TypeOK, Sequences, ReadTable, cases, resolution
    <2>7. CASE PutEvidence(p)
      BY <2>7 DEF TypeOK, PutEvidence, CanWrite
    <2>8. CASE Commit(p)
      BY <2>8 DEF TypeOK, Commit, CanWrite
    <2> QED BY <2>1, <2>2, <2>3, <2>4, <2>5, <2>6, <2>7, <2>8 DEF Import, Export
  <1> QED BY <1>0, <1>1, WholeSpared

\* One more evidence item is put, as if with those before it.
LEMMA WholePutEvidence ==
    ASSUME WholeInv, NEW p \in Procs, PutEvidence(p)
    PROVE  Whole(p)'
  <1>0. TypeOK /\ Whole(p) /\ dir[p] \in Dirs
    BY DEF WholeInv, ListInv, TypeOK
  <1>1. PICK o \in Evidence(built[p]) :
           /\ image' = [image EXCEPT ![dir[p]] = Merged(View(p), {o})]
           /\ built' = [built EXCEPT ![p] = @ \ {o}]
    BY DEF PutEvidence
  <1>2. /\ pc[p] = "put" /\ pc'[p] = "put" /\ dir'[p] = dir[p] /\ package'[p] = package[p]
        /\ rows' = rows /\ lock'[dir[p]] = p
        /\ image'[dir[p]] = Merged(View(p), {o})
        /\ built'[p] = built[p] \ {o}
    BY <1>0, <1>1 DEF PutEvidence, TypeOK
  <1>3. PICK done : Put(p, done)
    BY <1>0, <1>2 DEF Whole
  <1>4. o \in built[p] /\ o.kind = "evidence"
    BY DEF Evidence
  <1>5. Accepted(p)
    BY <1>0, <1>2 DEF Whole
  <1>6. image'[dir[p]] = Merged(rows[dir[p]], done \cup {o})
    <2>1. CASE lock[dir[p]] = p
      <3>1. View(p) = Merged(rows[dir[p]], done)
        BY <1>3, <2>1 DEF Put, View
      <3>2. AllRows(done) /\ AllRows({o})
        BY <1>3, <1>4, <1>5 DEF Put, Accepted, AllRows
      <3>3. Alike(done, {o})
        BY <1>3, <3>2, HashedAlike DEF Put
      <3> QED BY <1>2, <3>1, <3>2, <3>3, MergedTwice
    <2>2. CASE lock[dir[p]] # p
      <3>1. View(p) = rows[dir[p]] /\ done = {}
        BY <1>3, <2>2 DEF Put, View
      <3>2. done \cup {o} = {o}
        BY <3>1
      <3> QED BY <1>2, <3>1, <3>2
    <2> QED BY <2>1, <2>2
  <1>7. Put(p, done \cup {o})'
    <2>1. (done \cup {o}) \cup (built[p] \ {o}) = done \cup built[p]
      BY <1>4
    <2>2. \A r \in done \cup {o} : r.kind = "evidence"
      BY <1>3, <1>4 DEF Put
    <2> QED BY <1>2, <1>3, <1>6, <2>1, <2>2 DEF Put
  <1>8. Accepted(p)'
    BY <1>2, <1>5 DEF Accepted
  <1> QED BY <1>2, <1>7, <1>8 DEF Whole

\* What a step of p leaves of its own import.
LEMMA WholeOwn ==
    ASSUME WholeInv, NEW p \in Procs, Import(p) \/ Export(p) \/ Interrupt(p)
    PROVE  Whole(p)'
  <1>0. TypeOK /\ Sequences /\ Whole(p) /\ dir[p] \in Dirs
    BY DEF WholeInv, ListInv, TypeOK
  <1>1. CASE BeginImport(p) \/ BeginExport(p) \/ BeginInit(p)
    BY <1>0, <1>1 DEF TypeOK, BeginImport, BeginExport, BeginInit, Begin, Whole
  <1>2. CASE \/ LoadFails(p) \/ Reject(p) \/ NotEmpty(p) \/ LockTimeout(p) \/ FileExists(p)
             \/ Interrupt(p)
    <2>1. End(p)
      BY <1>2 DEF LoadFails, Reject, NotEmpty, LockTimeout, FileExists, Interrupt
    <2> QED BY <1>0, <2>1 DEF TypeOK, End, Whole
  \* A package is looked at from its first declaration on.
  <1>3. CASE Load(p)
    <2>1. /\ pc[p] = "load" /\ pc'[p] = "resolve" /\ Len(files[file[p]]) <= MaxDeclared
          /\ package'[p] = files[file[p]] /\ file[p] \in Files
          /\ files[file[p]] \notin {NoFile, Broken}
          /\ UNCHANGED <<at, claimed, names, built, errors>>
      BY <1>0, <1>3 DEF TypeOK, Sequences, Load, Loadable, resolution
    <2>2. IsSequence(package'[p])
      BY <1>0, <2>1 DEF Sequences
    <2>3. /\ at'[p] = 1 /\ claimed'[p] = {} /\ names'[p] = << >> /\ built'[p] = {}
          /\ errors'[p] = FALSE
      BY <1>0, <2>1 DEF Whole
    <2>4. Progress(p)'
      <3>1. Len(package'[p]) \in Nat /\ Len(package'[p]) <= MaxDeclared
        BY <2>1, <2>2, SequenceIs
      <3> DEFINE f == [n \in 1 .. 0 |-> n]
      <3>2. DOMAIN f = {} /\ 1 .. 0 = {} /\ 1 - 1 = 0 /\ DOMAIN << >> = {}
        OBVIOUS
      <3>3. Becomes(package'[p], f)
        BY <3>2 DEF Becomes
      <3> HIDE DEF f
      <3>4. Passed(p, f)'
        BY <2>3, <3>2, <3>3 DEF Passed
      <3> QED BY <2>3, <3>1, <3>4 DEF Progress
    <2> QED BY <2>1, <2>4 DEF Whole
  <1>4. CASE Refuse(p) \/ Unresolved(p) \/ Resolve(p)
    <2>1. pc[p] = "resolve" /\ pc'[p] = "resolve"
      BY <1>4 DEF Refuse, Unresolved, Resolve
    <2>2. Progress(p)'
      BY <1>0, <1>4, <2>1, ProgressResolve, ProgressRefuse DEF Whole, Sequences
    <2> QED BY <2>1, <2>2 DEF Whole
  <1>5. CASE Accept(p)
    <2>1. /\ pc[p] = "resolve" /\ at[p] > Len(package[p]) /\ ~errors[p] /\ pc'[p] = "create"
          /\ package' = package /\ built' = built
      BY <1>0, <1>5 DEF TypeOK, Accept, Resolved, locals
    <2>2. Accepted(p) /\ built[p] = Everything(package[p])
      BY <1>0, <2>1, ProgressEnds DEF Whole, Sequences
    <2> QED BY <2>1, <2>2 DEF Whole, Accepted
  <1>6. CASE Create(p)
    <2>1. /\ pc[p] = "create" /\ pc'[p] = "put"
          /\ UNCHANGED <<package, built, lock, dir, rows, image>>
      BY <1>0, <1>6 DEF TypeOK, Create, locals
    <2>2. lock[dir[p]] # p
      BY <1>0, <2>1, NoProcAssumption DEF TypeOK
    <2>3. Accepted(p) /\ built[p] = Everything(package[p])
      BY <1>0, <2>1 DEF Whole
    <2>4. Put(p, {})'
      BY <2>1, <2>2, <2>3 DEF Put
    <2> QED BY <2>1, <2>3, <2>4 DEF Whole, Accepted
  <1>7. CASE PutEvidence(p)
    BY <1>7, WholePutEvidence
  <1>8. CASE Commit(p)
    BY <1>0, <1>8 DEF TypeOK, Commit, Whole
  <1>9. CASE RecordManifest(p) \/ ReadTable(p) \/ PutTogether(p) \/ OpenFile(p) \/ WriteFile(p)
    BY <1>0, <1>9 DEF TypeOK, RecordManifest, ReadTable, PutTogether, OpenFile, WriteFile, Whole
  <1> QED BY <1>1, <1>2, <1>3, <1>4, <1>5, <1>6, <1>7, <1>8, <1>9 DEF Import, Export

\* Whole is inductive, for packages that are sequences.
LEMMA WholeNext == WholeInv /\ [Next]_vars => WholeInv'
  <1> SUFFICES ASSUME WholeInv, [Next]_vars PROVE WholeInv'
    OBVIOUS
  <1>1. ListInv'
    BY ListNext DEF WholeInv
  <1>2. CASE UNCHANGED vars
    <2>1. \A q \in Procs : Whole(q)'
      BY <1>2, WholeSpared DEF WholeInv, vars, cases, locals
    <2> QED BY <1>1, <2>1 DEF WholeInv
  <1>3. ASSUME NEW p \in Procs, Import(p) \/ Export(p) \/ Interrupt(p)
        PROVE  \A q \in Procs : Whole(q)'
    BY <1>3, WholeOwn, WholeOthers
  <1> QED BY <1>1, <1>2, <1>3 DEF WholeInv, Next, Finished

\* One pass over the declarations, in the order of the file, accepts a package exactly
\* if it is well formed, whatever it declares, and makes of it the rows that it means
\* (build.py).
THEOREM ResolutionIsExact == Spec => []ResolutionExact
  <1>1. WholeInv => ResolutionExact
    <2> SUFFICES ASSUME WholeInv, NEW p \in Procs, Resolved(p)
                 PROVE  /\ errors[p] <=> ~WellFormed(package[p])
                        /\ ~errors[p] => built[p] = Everything(package[p])
      BY DEF ResolutionExact
    <2>1. Progress(p) /\ TypeOK /\ IsSequence(package[p]) /\ at[p] > Len(package[p])
      BY DEF WholeInv, Whole, ListInv, Sequences, Resolved
    <2> QED BY <2>1, ProgressEnds DEF Accepted
  <1> QED BY <1>1, WholeInit, WholeNext, PTL DEF Spec

\* The one step that changes the tables of a case puts the rest of a package.
LEMMA StepIsWhole ==
    ASSUME WholeInv, [Next]_vars, NEW d \in Dirs, rows'[d] # rows[d]
    PROVE  \E p \in Procs : /\ pc[p] = "put" /\ dir[p] = d
                            /\ WellFormed(package[p])
                            /\ rows'[d] = Merged(rows[d], Everything(package[p]))
  <1>1. PICK p \in Procs : Commit(p)
    BY DEF Next, Finished, Import, Export, Interrupt, BeginImport, BeginExport, BeginInit, Begin,
           Load, LoadFails, Refuse, Unresolved, Resolve, Reject, Accept, NotEmpty, Create,
           PutEvidence, LockTimeout, RecordManifest, ReadTable, PutTogether, OpenFile,
           FileExists, WriteFile, End, vars, cases
  <1>2. TypeOK /\ Whole(p)
    BY DEF WholeInv, ListInv
  <1>3. /\ pc[p] = "put" /\ dir[p] = d
        /\ rows'[d] = Merged(View(p), built[p])
    BY <1>1, <1>2 DEF Commit, TypeOK
  <1>4. Accepted(p)
    BY <1>2, <1>3 DEF Whole
  <1>5. PICK done : Put(p, done)
    BY <1>2, <1>3 DEF Whole
  <1>6. Merged(View(p), built[p]) = Merged(rows[d], Everything(package[p]))
    <2>1. CASE lock[d] = p
      <3>1. View(p) = Merged(rows[d], done)
        BY <1>3, <1>5, <2>1 DEF Put, View
      <3>2. AllRows(done) /\ AllRows(built[p])
        BY <1>4, <1>5 DEF Put, Accepted, AllRows
      <3>3. Alike(done, built[p])
        BY <1>5, <3>2, HashedAlike DEF Put
      <3>4. Merged(View(p), built[p]) = Merged(rows[d], done \cup built[p])
        BY <3>1, <3>2, <3>3, MergedTwice
      <3> QED BY <1>5, <3>4 DEF Put
    <2>2. CASE lock[d] # p
      <3>1. View(p) = rows[d] /\ done = {}
        BY <1>3, <1>5, <2>2 DEF Put, View
      <3>2. built[p] = Everything(package[p])
        BY <1>5, <3>1 DEF Put
      <3> QED BY <3>1, <3>2
    <2> QED BY <2>1, <2>2
  <1> QED BY <1>3, <1>4, <1>6 DEF Accepted

\* Whatever else is imported, exported or interrupted meanwhile, the tables of a case
\* change by one whole well-formed package at a time (importer.py).
THEOREM ImportsAreWhole == Spec => ImportIsWhole
  <1>1. WholeInv /\ [Next]_vars =>
           [\A d \in Dirs : rows'[d] # rows[d] =>
               \E p \in Procs : /\ pc[p] = "put" /\ dir[p] = d
                                /\ WellFormed(package[p])
                                /\ rows'[d] = Merged(rows[d], Everything(package[p]))]_vars
    BY StepIsWhole
  <1> QED BY <1>1, WholeInit, WholeNext, PTL DEF Spec, ImportIsWhole

-----------------------------------------------------------------------------
(***************************************************************************)
(* What is stored and declared.                                            *)
(***************************************************************************)

\* Every declaration of package q has the fields of its kind.
Valid(q) == \A n \in DOMAIN q : Declarable(q[n])

\* Merging rows that can be stored makes rows that can be.
LEMMA MergedStorable ==
    ASSUME NEW some, NEW objects, \A r \in some \cup objects : Storable(r)
    PROVE  \A r \in Merged(some, objects) : Storable(r)
  <1>1. \A o \in objects : IsRow(o)
    BY DEF Storable, IsRow
  <1>2. ASSUME NEW o \in objects PROVE Storable(With(o, SourcesOf(some \cup objects, o)))
    <2> DEFINE s == SourcesOf(some \cup objects, o)
    <2>0. \A x \in s : \E r \in some \cup objects : SameRow(r, o) /\ x \in r.sources
      BY DEF SourcesOf
    <2>1. NoSource \notin s
      <3>1. \A r \in some \cup objects : NoSource \notin r.sources
        BY DEF Storable
      <3> HIDE DEF s
      <3> QED BY <2>0, <3>1
    <2>2. o.kind # "evidence" => s = {}
      <3>1. \A r \in some \cup objects : r.kind # "evidence" => r.sources = {}
        BY DEF Storable
      <3> HIDE DEF s
      <3> QED BY <2>0, <3>1 DEF SameRow
    <2> HIDE DEF s
    <2>3. Storable(With(o, s))
      BY <2>1, <2>2, WithFields DEF Storable, With
    <2> QED BY <2>3 DEF s
  <1>3. Merged(some, objects) =
           {r \in some : \A o \in objects : ~SameRow(r, o)}
           \cup {With(o, SourcesOf(some \cup objects, o)) : o \in objects}
    BY <1>1, MergedIs
  <1> QED BY <1>2, <1>3

\* What a declaration becomes can be stored.
LEMMA ObjectStorable ==
    ASSUME NEW d, Declarable(d), NEW n, NEW cites,
           \A c \in cites : /\ c = [role |-> c.role, id |-> c.id]
                            /\ c.role \in RolesOf[d.kind]
    PROVE  Storable(Object(d, cites, n))
  <1> DEFINE s == IF d.kind = "evidence" /\ d.source # NoSource THEN {d.source} ELSE {}
             id == Identity(d, cites, n)
             o == [kind |-> d.kind, id |-> id, cites |-> cites, content |-> d.content,
                   sources |-> s]
  <1>1. NoSource \notin s /\ (d.kind # "evidence" => s = {})
    OBVIOUS
  <1>2. d.kind \notin {"entity", "hypothesis"} =>
           id = [kind |-> d.kind, content |-> d.content, cites |-> cites]
    BY DEF Identity
  <1>3. d.kind \in Kinds /\ d.content \in DOMAIN Rank
    BY DEF Declarable
  <1> HIDE DEF s, id
  <1>4. Storable(o)
    BY <1>1, <1>2, <1>3 DEF Storable
  <1> QED BY <1>4 DEF Object, s, id

\* So can everything that a package means.
LEMMA EverythingStorable ==
    ASSUME NEW q, Valid(q), NEW f, DOMAIN f = DOMAIN q, Becomes(q, f)
    PROVE  \A r \in Everything(q) : Storable(r)
  <1>1. PICK g : DOMAIN g = DOMAIN q /\ Becomes(q, g) /\ Everything(q) = {g[n] : n \in DOMAIN q}
    BY EverythingIs
  <1>2. ASSUME NEW n \in DOMAIN q PROVE Storable(g[n])
    <2>1. g[n] = Object(q[n], Cited(q, g, n), n)
      BY <1>1 DEF Becomes
    <2>2. Declarable(q[n])
      BY DEF Valid
    <2>3. \A c \in Cited(q, g, n) : /\ c = [role |-> c.role, id |-> c.id]
                                    /\ c.role \in RolesOf[q[n].kind]
      BY <2>2 DEF Cited, Declarable
    <2> HIDE DEF Cited
    <2> QED BY <2>1, <2>2, <2>3, ObjectStorable
  <1> QED BY <1>1, <1>2

\* The declaration of a row that can be stored can be made.
LEMMA DeclarationDeclarable ==
    ASSUME NEW r, Storable(r), NEW source
    PROVE  Declarable(Declaration(r, source))
  <1> DEFINE cites == {[role |-> c.role, local |-> Named(c.id)] : c \in r.cites}
             d == [kind |-> r.kind, local |-> Named(r.id), content |-> r.content,
                   source |-> source, cites |-> cites, sound |-> TRUE]
  <1>1. \A c \in cites : c = [role |-> c.role, local |-> c.local] /\ c.role \in RolesOf[r.kind]
    BY DEF Storable
  <1>2. r.kind \in Kinds /\ r.content \in DOMAIN Rank
    BY DEF Storable
  <1> HIDE DEF cites
  <1>3. Declarable(d)
    BY <1>1, <1>2 DEF Declarable
  <1> QED BY <1>3 DEF Declaration, cites

\* What is listed of a table is all of it, each row once, in the order of ids.
LEMMA ListingIs ==
    ASSUME NEW table, IsFiniteSet(table), NEW list \in Listings(table)
    PROVE  /\ Cardinality(table) \in Nat
           /\ DOMAIN list = 1 .. Cardinality(table)
           /\ table = {list[i] : i \in DOMAIN list}
           /\ \A i, j \in DOMAIN list :
                 i < j => /\ list[i] # list[j]
                          /\ Rank[list[i].content] <= Rank[list[j].content]
  <1> DEFINE m == Cardinality(table)
  <1>1. m \in Nat
    BY FS_CardinalityType
  <1>2. /\ list \in [1 .. m -> table]
        /\ \A i, j \in 1 .. m : i # j => list[i] # list[j]
        /\ \A i, j \in DOMAIN list : i < j => Rank[list[i].content] <= Rank[list[j].content]
    BY DEF Listings, SetToSeqs
  <1>3. list \in Injection(1 .. m, table)
    <2>1. \A i, j \in 1 .. m : list[i] = list[j] => i = j
      BY <1>2
    <2> HIDE DEF m
    <2> QED BY <1>2, <2>1 DEF Injection, IsInjective
  <1>4. Cardinality(1 .. m) = m
    BY <1>1, FS_Interval
  <1>5. list \in Surjection(1 .. m, table)
    <2>1. Cardinality(1 .. m) = Cardinality(table)
      BY <1>4
    <2> HIDE DEF m
    <2> QED BY <1>3, <2>1, FS_Injection
  <1>6. \A r \in table : \E i \in 1 .. m : list[i] = r
    <2> HIDE DEF m
    <2> QED BY <1>5 DEF Surjection
  <1> HIDE DEF m
  <1>7. table = {list[i] : i \in DOMAIN list}
    BY <1>2, <1>6
  <1>8. \A i, j \in DOMAIN list : i < j => list[i] # list[j]
    BY <1>1, <1>2
  <1> QED BY <1>1, <1>2, <1>7, <1>8 DEF m

\* Two sequences one after the other: the second keeps its order.
LEMMA JoinedAt ==
    ASSUME NEW q, NEW r, IsSequence(q), IsSequence(r)
    PROVE  /\ Len(q \o r) = Len(q) + Len(r)
           /\ DOMAIN (q \o r) = 1 .. Len(q) + Len(r)
           /\ \A n \in 1 .. Len(q) : (q \o r)[n] = q[n]
           /\ \A n \in 1 .. Len(r) : (q \o r)[Len(q) + n] = r[n]
  <1>1. PICK S : q \in Seq(S) /\ r \in Seq(S)
    <2>1. PICK S : q \in Seq(S)
      BY DEF IsSequence
    <2>2. PICK T : r \in Seq(T)
      BY DEF IsSequence
    <2>3. \A i \in 1 .. Len(q) : q[i] \in S \cup T
      BY <2>1
    <2>4. \A i \in 1 .. Len(r) : r[i] \in S \cup T
      BY <2>2
    <2>5. q \in [1 .. Len(q) -> S \cup T] /\ Len(q) \in Nat
      BY <2>1, <2>3
    <2>6. r \in [1 .. Len(r) -> S \cup T] /\ Len(r) \in Nat
      BY <2>2, <2>4
    <2>7. q \in Seq(S \cup T) /\ r \in Seq(S \cup T)
      BY <2>5, <2>6
    <2> QED BY <2>7
  <1> QED BY <1>1

-----------------------------------------------------------------------------
(***************************************************************************)
(* How far an export is.                                                   *)
(***************************************************************************)

\* Rows, files and packages hold what the fields can.
Stored ==
    /\ \A d \in Dirs : \A r \in rows[d] : Storable(r)
    /\ \A f \in Files : files[f] \notin {NoFile, Broken} => Valid(files[f])
    /\ \A p \in Procs : Valid(package[p])

\* The place of a kind among the tables.
Place == [evidence |-> 1, event |-> 2, entity |-> 3, relationship |-> 4, assertion |-> 5,
          hypothesis |-> 6]

\* An export may list r before o.
Before(r, o) ==
    \/ Place[r.kind] < Place[o.kind]
    \/ r.kind = o.kind /\ Rank[r.content] <= Rank[o.content]

\* p has put the tables it has read together: list has their rows in the order in
\* which they are declared, and source what is declared of their custody.
Listed(p, list, source) ==
    LET m == Len(package[p])
    IN /\ at[p] \in 1 .. 7
       /\ DOMAIN list = 1 .. m
       /\ package[p] = [i \in 1 .. m |-> Declaration(list[i], source[i])]
       /\ {list[i] : i \in 1 .. m} = {r \in rows[dir[p]] : Place[r.kind] < at[p]}
       /\ \A i, j \in 1 .. m : i < j => list[i] # list[j] /\ Before(list[i], list[j])
       /\ \A i \in 1 .. m : source[i] \in AnyOf(list[i].sources)

\* What the package of an export is, while no other process has changed its case.
Telling(p) ==
    /\ pc[p] = "read" \/ (pc[p] = "open" /\ at[p] > 6)
    /\ ~torn[p]
    => \E list, source : Listed(p, list, source)

ExportInv == WholeInv /\ Stored /\ \A p \in Procs : Telling(p)

\* The six kinds, and their places.
LEMMA Places ==
    /\ Len(KindOrder) = 6
    /\ \A k \in 1 .. 6 : KindOrder[k] \in Kinds /\ Place[KindOrder[k]] = k
    /\ \A kind \in Kinds : Place[kind] \in 1 .. 6 /\ KindOrder[Place[kind]] = kind
  <1>1. Len(KindOrder) = 6 /\ DOMAIN KindOrder = 1 .. 6
    BY DEF KindOrder
  <1>2. 1 .. 6 = {1, 2, 3, 4, 5, 6}
    OBVIOUS
  <1>3. Kinds = {"evidence", "event", "entity", "relationship", "assertion", "hypothesis"}
    <2>1. Kinds = {KindOrder[k] : k \in {1, 2, 3, 4, 5, 6}}
      BY <1>1, <1>2 DEF Kinds, Range
    <2> QED BY <2>1 DEF KindOrder
  <1>4. \A k \in {1, 2, 3, 4, 5, 6} : KindOrder[k] \in Kinds /\ Place[KindOrder[k]] = k
    BY <1>3 DEF KindOrder, Place
  <1>5. \A kind \in Kinds : Place[kind] \in {1, 2, 3, 4, 5, 6} /\ KindOrder[Place[kind]] = kind
    BY <1>3 DEF KindOrder, Place
  <1> QED BY <1>1, <1>2, <1>4, <1>5

\* One more table is told: its rows come after those told before.
LEMMA ReadTableTells ==
    ASSUME ListInv, Stored, NEW p \in Procs, NEW list, NEW source, Listed(p, list, source),
           ReadTable(p)
    PROVE  \E longer, sources : Listed(p, longer, sources)'
  <1> DEFINE k == at[p]
             here == rows[dir[p]]
             table == OfKind(here, KindOrder[k])
             old == package[p]
             m == Len(old)
             c == Cardinality(table)
  <1>0. TypeOK /\ Sequences /\ Finite /\ dir[p] \in Dirs /\ IsSequence(old)
    BY DEF ListInv, TypeOK, Sequences
  <1>1. PICK q \in Declarations(here, KindOrder[k]) :
           package' = [package EXCEPT ![p] = @ \o q]
    BY DEF ReadTable
  <1>2. /\ package'[p] = old \o q /\ at'[p] = k + 1 /\ rows'[dir'[p]] = here
        /\ k \in 1 .. 6
    <2>1. k <= 6 /\ k \in Nat /\ k # 0
      BY <1>0, Places DEF ReadTable, TypeOK
    <2> QED BY <1>0, <1>1, <2>1 DEF ReadTable, TypeOK, Sequences, cases
  <1>3. IsFiniteSet(table) /\ IsFiniteSet(here)
    BY <1>0, FS_Subset DEF Finite, OfKind
  <1>4. IsSequence(q)
    BY <1>1, <1>3, DeclaredSequence
  <1>5. PICK some \in Listings(table), origin \in Origins(table) :
           q = [i \in DOMAIN some |-> Declaration(some[i], origin[some[i]])]
    BY <1>1 DEF Declarations
  <1>6. /\ c \in Nat
        /\ DOMAIN some = 1 .. c
        /\ table = {some[i] : i \in 1 .. c}
        /\ \A i, j \in 1 .. c :
              i < j => some[i] # some[j] /\ Rank[some[i].content] <= Rank[some[j].content]
    <2> HIDE DEF table
    <2> QED BY <1>3, <1>5, ListingIs
  <1>7. Len(q) = c /\ DOMAIN q = 1 .. c
    <2>1. DOMAIN q = 1 .. c
      BY <1>5, <1>6
    <2>2. Len(q) \in Nat /\ DOMAIN q = 1 .. Len(q)
      BY <1>4, SequenceIs
    <2> HIDE DEF c
    <2> QED BY <1>6, <2>1, <2>2
  <1>8. m \in Nat
    BY <1>0, SequenceIs
  <1>9. /\ Len(package'[p]) = m + c
        /\ DOMAIN package'[p] = 1 .. m + c
        /\ \A n \in 1 .. m : package'[p][n] = old[n]
        /\ \A n \in 1 .. c : package'[p][m + n] = q[n]
    <2>1. IsSequence(old) /\ IsSequence(q)
      BY <1>0, <1>4
    <2> HIDE DEF old, c, m
    <2>2. /\ Len(old \o q) = Len(old) + Len(q)
          /\ DOMAIN (old \o q) = 1 .. Len(old) + Len(q)
          /\ \A n \in 1 .. Len(old) : (old \o q)[n] = old[n]
          /\ \A n \in 1 .. Len(q) : (old \o q)[Len(old) + n] = q[n]
      BY <2>1, JoinedAt
    <2> QED BY <1>2, <1>7, <2>2 DEF m
  <1>10. \A r \in table : r.kind = KindOrder[k] /\ r \in here
    BY DEF OfKind
  <1>11. \A r \in here : r.kind = KindOrder[k] => r \in table
    BY DEF OfKind
  <1>12. \A r \in table : origin[r] \in AnyOf(r.sources)
    BY <1>5 DEF Origins
  <1>13. /\ DOMAIN list = 1 .. m
         /\ old = [i \in 1 .. m |-> Declaration(list[i], source[i])]
         /\ {list[i] : i \in 1 .. m} = {r \in here : Place[r.kind] < k}
         /\ \A i, j \in 1 .. m : i < j => list[i] # list[j] /\ Before(list[i], list[j])
         /\ \A i \in 1 .. m : source[i] \in AnyOf(list[i].sources)
    BY DEF Listed
  <1>a. PICK longer, sources :
           /\ longer = [i \in 1 .. m + c |-> IF i <= m THEN list[i] ELSE some[i - m]]
           /\ sources = [i \in 1 .. m + c |-> IF i <= m THEN source[i] ELSE origin[some[i - m]]]
    OBVIOUS
  <1>14. \A r \in here : Place[r.kind] \in 1 .. 6 /\ (Place[r.kind] = k => r.kind = KindOrder[k])
    <2>1. \A r \in here : r.kind \in Kinds
      BY <1>0 DEF Stored, Storable
    <2> QED BY <2>1, Places
  <1>15. Place[KindOrder[k]] = k
    BY <1>2, Places
  <1> HIDE DEF table, here, old, m, c, k
  <1>16. \A i \in 1 .. m : i \in 1 .. m + c /\ longer[i] = list[i] /\ sources[i] = source[i]
    BY <1>6, <1>8, <1>a
  <1>17. \A i \in 1 .. c : /\ m + i \in 1 .. m + c /\ longer[m + i] = some[i]
                           /\ sources[m + i] = origin[some[i]]
    BY <1>6, <1>8, <1>a
  <1>18. \A i \in 1 .. m + c : i \in 1 .. m \/ (i - m \in 1 .. c /\ i = m + (i - m))
    BY <1>6, <1>8
  <1>19. DOMAIN longer = 1 .. m + c
    BY <1>a
  <1>20. package'[p] = [i \in 1 .. m + c |-> Declaration(longer[i], sources[i])]
    <2>1. \A i \in 1 .. m : package'[p][i] = Declaration(longer[i], sources[i])
      BY <1>9, <1>13, <1>16
    <2>2. \A i \in 1 .. c : package'[p][m + i] = Declaration(longer[m + i], sources[m + i])
      BY <1>5, <1>6, <1>9, <1>17
    <2>3. \A i \in 1 .. m + c : package'[p][i] = Declaration(longer[i], sources[i])
      BY <2>1, <2>2, <1>18
    <2>4. IsSequence(package'[p])
      BY <1>0, <1>2, <1>4, JoinedSequence
    <2>5. package'[p] = [i \in 1 .. m + c |-> package'[p][i]]
      <3>1. PICK S : package'[p] \in Seq(S)
        BY <2>4 DEF IsSequence
      <3>2. package'[p] = [i \in 1 .. Len(package'[p]) |-> package'[p][i]]
        BY <3>1
      <3> QED BY <3>2, <1>9
    <2> QED BY <2>3, <2>5
  <1>21. {longer[i] : i \in 1 .. m + c} = {r \in here : Place[r.kind] < k + 1}
    <2>1. ASSUME NEW i \in 1 .. m + c
          PROVE  longer[i] \in here /\ Place[longer[i].kind] < k + 1
      <3>1. CASE i \in 1 .. m
        <4>1. longer[i] = list[i] /\ list[i] \in {r \in here : Place[r.kind] < k}
          BY <3>1, <1>13, <1>16
        <4>2. Place[longer[i].kind] \in 1 .. 6
          BY <4>1, <1>14
        <4> QED BY <4>1, <4>2, <1>2
      <3>2. CASE i - m \in 1 .. c /\ i = m + (i - m)
        <4>1. longer[i] = some[i - m] /\ some[i - m] \in table
          BY <3>2, <1>6, <1>17
        <4> QED BY <4>1, <1>2, <1>10, <1>15
      <3> QED BY <3>1, <3>2, <1>18
    <2>2. ASSUME NEW r \in here, Place[r.kind] < k + 1
          PROVE  \E i \in 1 .. m + c : longer[i] = r
      <3>1. CASE Place[r.kind] < k
        <4>1. PICK i \in 1 .. m : list[i] = r
          BY <3>1, <1>13
        <4> QED BY <4>1, <1>16
      <3>2. CASE Place[r.kind] = k
        <4>1. r \in table
          BY <3>2, <1>11, <1>14
        <4>2. PICK i \in 1 .. c : some[i] = r
          BY <4>1, <1>6
        <4> QED BY <4>2, <1>17
      <3>3. Place[r.kind] \in 1 .. 6
        BY <1>14
      <3> QED BY <2>2, <3>1, <3>2, <3>3, <1>2
    <2> QED BY <2>1, <2>2
  <1>22. ASSUME NEW i \in 1 .. m + c, NEW j \in 1 .. m + c, i < j
         PROVE  longer[i] # longer[j] /\ Before(longer[i], longer[j])
    <2>1. CASE i \in 1 .. m /\ j \in 1 .. m
      BY <1>22, <2>1, <1>13, <1>16
    <2>2. CASE i \in 1 .. m /\ j \notin 1 .. m
      <3>1. longer[i] = list[i] /\ list[i] \in {r \in here : Place[r.kind] < k}
        BY <2>2, <1>13, <1>16
      <3>2. longer[j] = some[j - m] /\ some[j - m] \in table
        BY <2>2, <1>6, <1>17, <1>18
      <3>3. Place[longer[i].kind] < Place[longer[j].kind] /\ Place[longer[j].kind] = k
        BY <3>1, <3>2, <1>10, <1>15
      <3>4. longer[i] # longer[j]
        BY <3>1, <3>3, <1>2
      <3> QED BY <3>3, <3>4 DEF Before
    <2>3. CASE i \notin 1 .. m
      <3>1. i - m \in 1 .. c /\ j - m \in 1 .. c /\ i - m < j - m
        BY <1>22, <2>3, <1>18, <1>6, <1>8
      <3>2. longer[i] = some[i - m] /\ longer[j] = some[j - m]
        BY <3>1, <1>17, <1>18, <1>22, <2>3, <1>8
      <3>3. some[i - m] \in table /\ some[j - m] \in table
        BY <3>1, <1>6
      <3> QED BY <3>1, <3>2, <3>3, <1>6, <1>10 DEF Before
    <2>4. i \in 1 .. m \/ j \notin 1 .. m
      BY <1>22, <1>8, <1>6
    <2> QED BY <2>1, <2>2, <2>3, <2>4
  <1>23. ASSUME NEW i \in 1 .. m + c PROVE sources[i] \in AnyOf(longer[i].sources)
    <2>1. CASE i \in 1 .. m
      BY <2>1, <1>13, <1>16
    <2>2. CASE i - m \in 1 .. c /\ i = m + (i - m)
      BY <2>2, <1>6, <1>12, <1>17
    <2> QED BY <2>1, <2>2, <1>18
  <1>24. k + 1 \in 1 .. 7
    BY <1>2
  <1>25. Listed(p, longer, sources)'
    BY <1>2, <1>9, <1>19, <1>20, <1>21, <1>22, <1>23, <1>24 DEF Listed
  <1> QED BY <1>25

\* At first nothing is told, and what is there is what was given.
LEMMA ExportInit == Init => ExportInv
  <1> SUFFICES ASSUME Init PROVE ExportInv
    OBVIOUS
  <1>1. WholeInv
    BY WholeInit
  <1>2. \A q \in Packages \cup {Demo} : Valid(q)
    BY PackagesAssumption DEF Valid
  <1>3. \A d \in Dirs : \A r \in rows[d] : Storable(r)
    BY EarlierAssumption DEF Init
  <1>4. \A f \in Files : files[f] \notin {NoFile, Broken} => Valid(files[f])
    <2>1. PICK q \in Packages : files = [f \in Files |-> IF f = Given THEN q ELSE NoFile]
      BY DEF Init
    <2> QED BY <2>1, <1>2
  <1>5. \A p \in Procs : Valid(package[p])
    <2>1. \A p \in Procs : package[p] = << >>
      BY DEF Init
    <2>2. DOMAIN << >> = {}
      OBVIOUS
    <2> QED BY <2>1, <2>2 DEF Valid
  <1>6. \A p \in Procs : Telling(p)
    BY DEF Init, Telling
  <1> QED BY <1>1, <1>3, <1>4, <1>5, <1>6 DEF ExportInv, Stored

\* The rows of a case are only ever merged with what a package means.
LEMMA RowsStored ==
    ASSUME WholeInv, Stored, [Next]_vars, NEW d \in Dirs, NEW r \in rows'[d]
    PROVE  Storable(r)
  <1>1. CASE rows'[d] = rows[d]
    BY <1>1 DEF Stored
  <1>2. CASE rows'[d] # rows[d]
    <2>1. PICK p \in Procs : /\ pc[p] = "put"
                             /\ rows'[d] = Merged(rows[d], Everything(package[p]))
      BY <1>2, StepIsWhole
    <2>2. Whole(p) /\ Valid(package[p])
      BY DEF WholeInv, Stored
    <2>3. PICK f : DOMAIN f = DOMAIN package[p] /\ Becomes(package[p], f)
      BY <2>1, <2>2 DEF Whole, Accepted
    <2>4. \A o \in Everything(package[p]) : Storable(o)
      BY <2>2, <2>3, EverythingStorable
    <2>5. \A o \in rows[d] \cup Everything(package[p]) : Storable(o)
      BY <2>4 DEF Stored
    <2> QED BY <2>1, <2>5, MergedStorable
  <1> QED BY <1>1, <1>2

\* What an export declares can be declared.
LEMMA DeclarationsValid ==
    ASSUME NEW some, IsFiniteSet(some), \A r \in some : Storable(r), NEW kind,
           NEW q \in Declarations(some, kind)
    PROVE  Valid(q)
  <1> DEFINE table == OfKind(some, kind)
  <1>1. PICK list \in Listings(table), source \in Origins(table) :
           q = [i \in DOMAIN list |-> Declaration(list[i], source[list[i]])]
    BY DEF Declarations
  <1>2. IsFiniteSet(table)
    BY FS_Subset DEF OfKind
  <1>3. \A i \in DOMAIN list : list[i] \in table
    <2> HIDE DEF table
    <2> QED BY <1>1, <1>2, ListingIs
  <1>4. \A i \in DOMAIN list : Storable(list[i])
    BY <1>3 DEF OfKind
  <1>5. \A i \in DOMAIN list : Declarable(Declaration(list[i], source[list[i]]))
    BY <1>4, DeclarationDeclarable
  <1> QED BY <1>1, <1>5 DEF Valid

\* Nor is anything else written to files or put together.
LEMMA StoredNext == WholeInv /\ Stored /\ [Next]_vars => Stored'
  <1> SUFFICES ASSUME WholeInv, Stored, [Next]_vars PROVE Stored'
    OBVIOUS
  <1>0. TypeOK /\ Sequences /\ Finite
    BY DEF WholeInv, ListInv
  <1>1. \A d \in Dirs : \A r \in rows'[d] : Storable(r)
    BY RowsStored
  <1>2. CASE UNCHANGED <<files, package>>
    BY <1>1, <1>2 DEF Stored
  <1>3. ASSUME NEW p \in Procs, NEW q, Valid(q), files' = files,
               package' = [package EXCEPT ![p] = q]
        PROVE  Stored'
    BY <1>0, <1>1, <1>3 DEF Stored, Sequences
  <1>4. Valid(<< >>)
    <2>1. DOMAIN << >> = {}
      OBVIOUS
    <2> QED BY <2>1 DEF Valid
  <1>5. ASSUME NEW p \in Procs, Import(p) \/ Export(p) \/ Interrupt(p) PROVE Stored'
    <2>0. dir[p] \in Dirs /\ file[p] \in Files
      BY <1>0 DEF TypeOK
    <2>1. CASE BeginImport(p)
      BY <2>1, <1>3, <1>4 DEF BeginImport, Begin
    <2>2. CASE BeginExport(p)
      BY <2>2, <1>3, <1>4 DEF BeginExport, Begin
    <2>3. CASE BeginInit(p)
      <3>1. Valid(Demo)
        BY PackagesAssumption DEF Valid
      <3> QED BY <2>3, <3>1, <1>3 DEF BeginInit, Begin
    <2>4. CASE Load(p)
      <3>1. Valid(files[file[p]])
        BY <2>0, <2>4 DEF Load, Loadable, Stored
      <3> QED BY <2>4, <3>1, <1>3 DEF Load
    <2>5. CASE ReadTable(p)
      <3>1. PICK q \in Declarations(rows[dir[p]], KindOrder[at[p]]) :
               package' = [package EXCEPT ![p] = @ \o q]
        BY <2>5 DEF ReadTable
      <3>2. IsFiniteSet(rows[dir[p]]) /\ \A r \in rows[dir[p]] : Storable(r)
        BY <1>0, <2>0 DEF Finite, Stored
      <3>3. Valid(q) /\ IsSequence(q)
        BY <3>1, <3>2, DeclarationsValid, DeclaredSequence
      <3>4. Valid(package[p]) /\ IsSequence(package[p])
        BY <1>0 DEF Stored, Sequences
      <3>5. Valid(package[p] \o q)
        <4> DEFINE old == package[p]
        <4>1. Len(old) \in Nat /\ DOMAIN old = 1 .. Len(old)
              /\ Len(q) \in Nat /\ DOMAIN q = 1 .. Len(q)
          BY <3>3, <3>4, SequenceIs
        <4>2. /\ DOMAIN (old \o q) = 1 .. Len(old) + Len(q)
              /\ \A n \in 1 .. Len(old) : (old \o q)[n] = old[n]
              /\ \A n \in 1 .. Len(q) : (old \o q)[Len(old) + n] = q[n]
          BY <3>3, <3>4, JoinedAt
        <4>3. Valid(old) /\ Valid(q)
          BY <3>3, <3>4
        <4> HIDE DEF old
        <4>4. \A n \in 1 .. Len(old) + Len(q) :
                 \/ n \in 1 .. Len(old)
                 \/ n - Len(old) \in 1 .. Len(q) /\ n = Len(old) + (n - Len(old))
          BY <4>1
        <4>5. Valid(old \o q)
          BY <4>1, <4>2, <4>3, <4>4 DEF Valid
        <4> QED BY <4>5 DEF old
      <3>6. files' = files
        BY <2>5 DEF ReadTable
      <3>7. package' = [package EXCEPT ![p] = package[p] \o q]
        BY <1>0, <3>1 DEF Sequences
      <3> QED BY <3>5, <3>6, <3>7, <1>3
    <2>6. CASE OpenFile(p)
      BY <2>6, <1>0, <1>1 DEF OpenFile, locals, Stored, Sequences
    <2>7. CASE WriteFile(p)
      BY <2>7, <1>0, <1>1 DEF WriteFile, locals, Stored, Sequences
    <2>8. CASE \/ LoadFails(p) \/ Refuse(p) \/ Unresolved(p) \/ Resolve(p) \/ Reject(p)
               \/ Accept(p) \/ NotEmpty(p) \/ Create(p) \/ PutEvidence(p) \/ Commit(p)
               \/ LockTimeout(p) \/ RecordManifest(p) \/ PutTogether(p) \/ FileExists(p)
               \/ Interrupt(p)
      <3>1. UNCHANGED <<files, package>>
        BY <2>8 DEF LoadFails, Refuse, Unresolved, Resolve, Reject, Accept, NotEmpty, Create,
                    PutEvidence, Commit, LockTimeout, RecordManifest, PutTogether, FileExists,
                    Interrupt, End, locals
      <3> QED BY <3>1, <1>2
    <2> QED BY <1>5, <2>1, <2>2, <2>3, <2>4, <2>5, <2>6, <2>7, <2>8 DEF Import, Export
  <1> QED BY <1>2, <1>5 DEF Next, Finished, vars, locals

\* A step that leaves a reader and its case alone leaves what it has told.
LEMMA TellingSpared ==
    ASSUME NEW q \in Procs, Telling(q),
           pc'[q] = pc[q], dir'[q] = dir[q], package'[q] = package[q], at'[q] = at[q],
           ~torn'[q] => ~torn[q],
           ~torn'[q] /\ pc[q] \in {"read", "open"} => rows'[dir[q]] = rows[dir[q]]
    PROVE  Telling(q)'
  <1> SUFFICES ASSUME pc[q] = "read" \/ (pc[q] = "open" /\ at[q] > 6), ~torn'[q]
               PROVE  \E list, source : Listed(q, list, source)'
    BY DEF Telling
  <1>1. PICK list, source : Listed(q, list, source)
    BY DEF Telling
  <1>2. Listed(q, list, source)'
    BY <1>1 DEF Listed
  <1> QED BY <1>2

\* Whoever changes a case disturbs its readers.
LEMMA TellingOthers ==
    ASSUME WholeInv, NEW p \in Procs, Import(p) \/ Export(p) \/ Interrupt(p),
           NEW q \in Procs, q # p, Telling(q)
    PROVE  Telling(q)'
  <1>0. TypeOK /\ Sequences
    BY DEF WholeInv, ListInv
  <1> USE <1>0
  <1>1. CASE Commit(p)
    <2>1. /\ pc'[q] = pc[q] /\ dir' = dir /\ package' = package /\ at' = at
          /\ torn'[q] = (torn[q] \/ (dir[q] = dir[p] /\ pc[q] \in {"read", "open"}))
          /\ rows' = [rows EXCEPT ![dir[p]] = Merged(View(p), built[p])]
      BY <1>1 DEF Commit, TypeOK, Disturb
    <2> QED BY <2>1, TellingSpared DEF TypeOK
  <1>2. CASE ~Commit(p)
    <2>1. /\ pc'[q] = pc[q] /\ dir'[q] = dir[q] /\ package'[q] = package[q] /\ at'[q] = at[q]
          /\ torn'[q] = torn[q] /\ rows' = rows
      <3>1. CASE BeginImport(p) \/ BeginExport(p) \/ BeginInit(p)
        BY <3>1 DEF TypeOK, Sequences, BeginImport, BeginExport, BeginInit, Begin, cases
      <3>2. CASE \/ LoadFails(p) \/ Reject(p) \/ NotEmpty(p) \/ LockTimeout(p) \/ FileExists(p)
                 \/ Interrupt(p)
        <4>1. End(p)
          BY <3>2 DEF LoadFails, Reject, NotEmpty, LockTimeout, FileExists, Interrupt
        <4> QED BY <4>1 DEF TypeOK, End, locals
      <3>3. CASE Load(p) \/ ReadTable(p)
        BY <3>3 DEF TypeOK, Sequences, Load, ReadTable, cases, resolution
      <3>4. CASE Refuse(p) \/ Unresolved(p) \/ Resolve(p)
        BY <3>4 DEF TypeOK, Refuse, Unresolved, Resolve, cases
      <3>5. CASE \/ Accept(p) \/ Create(p) \/ RecordManifest(p) \/ PutTogether(p) \/ OpenFile(p)
                 \/ WriteFile(p)
        BY <3>5 DEF TypeOK, Accept, Create, RecordManifest, PutTogether, OpenFile, WriteFile,
                    cases, locals
      <3>6. CASE PutEvidence(p)
        BY <3>6 DEF TypeOK, PutEvidence
      <3> QED BY <1>2, <3>1, <3>2, <3>3, <3>4, <3>5, <3>6 DEF Import, Export
    <2> QED BY <2>1, TellingSpared
  <1> QED BY <1>1, <1>2

\* An export tells one table after the other.
LEMMA TellingOwn ==
    ASSUME ExportInv, NEW p \in Procs, Import(p) \/ Export(p) \/ Interrupt(p)
    PROVE  Telling(p)'
  <1>0. TypeOK /\ Sequences /\ ListInv /\ Stored /\ Telling(p)
    BY DEF ExportInv, WholeInv, ListInv
  <1> USE <1>0
  <1>1. CASE BeginExport(p)
    <2>1. at'[p] = 1 /\ package'[p] = << >>
      BY <1>1 DEF BeginExport, Begin, TypeOK, Sequences
    <2>2. dir'[p] \in Dirs /\ rows' = rows
      BY <1>1 DEF BeginExport, Begin, TypeOK, cases
    <2>3. PICK list, source : list = << >> /\ source = << >>
      OBVIOUS
    <2>4. \A r \in rows[dir'[p]] : Place[r.kind] \in 1 .. 6
      <3>1. \A r \in rows[dir'[p]] : r.kind \in Kinds
        BY <2>2 DEF Stored, Storable
      <3> QED BY <3>1, Places
    <2>5. {r \in rows[dir'[p]] : Place[r.kind] < 1} = {}
      BY <2>4
    <2>6. 1 .. 0 = {} /\ Len(<< >>) = 0 /\ DOMAIN << >> = {}
      OBVIOUS
    <2>7. << >> = [i \in 1 .. 0 |-> Declaration(list[i], source[i])]
      BY <2>6
    <2>8. Listed(p, list, source)'
      BY <2>1, <2>2, <2>3, <2>5, <2>6, <2>7 DEF Listed
    <2> QED BY <2>8 DEF Telling
  <1>2. CASE ReadTable(p)
    <2>1. pc[p] = "read" /\ torn'[p] = torn[p]
      BY <1>2 DEF ReadTable
    <2> SUFFICES ASSUME ~torn[p] PROVE \E list, source : Listed(p, list, source)'
      BY <2>1 DEF Telling
    <2>2. PICK list, source : Listed(p, list, source)
      BY <2>1 DEF Telling
    <2> QED BY <1>2, <2>2, ReadTableTells
  <1>3. CASE PutTogether(p)
    <2>1. /\ pc[p] = "read" /\ UNCHANGED <<dir, package, at, torn, rows>>
      BY <1>3 DEF PutTogether, locals, cases
    <2> SUFFICES ASSUME ~torn[p] PROVE \E list, source : Listed(p, list, source)'
      BY <2>1 DEF Telling
    <2>2. PICK list, source : Listed(p, list, source)
      BY <2>1 DEF Telling
    <2>3. Listed(p, list, source)'
      BY <2>1, <2>2 DEF Listed
    <2> QED BY <2>3
  <1>4. CASE BeginInit(p)
    <2>1. pc'[p] = "open" /\ at'[p] = 1
      BY <1>4 DEF BeginInit, Begin, TypeOK
    <2> QED BY <2>1 DEF Telling
  <1>5. CASE ~(BeginExport(p) \/ ReadTable(p) \/ PutTogether(p) \/ BeginInit(p))
    <2>1. pc'[p] \notin {"read", "open"}
      <3>1. CASE \/ LoadFails(p) \/ Reject(p) \/ NotEmpty(p) \/ LockTimeout(p) \/ FileExists(p)
                 \/ Interrupt(p)
        <4>1. End(p)
          BY <3>1 DEF LoadFails, Reject, NotEmpty, LockTimeout, FileExists, Interrupt
        <4> QED BY <4>1 DEF TypeOK, End
      <3>2. CASE BeginImport(p)
        BY <3>2 DEF BeginImport, Begin, TypeOK
      <3>3. CASE \/ Load(p) \/ Refuse(p) \/ Unresolved(p) \/ Resolve(p) \/ Accept(p) \/ Create(p)
        BY <3>3 DEF TypeOK, Load, Refuse, Unresolved, Resolve, Accept, Create
      <3>4. CASE \/ PutEvidence(p) \/ Commit(p) \/ RecordManifest(p) \/ OpenFile(p)
                 \/ WriteFile(p)
        BY <3>4 DEF TypeOK, PutEvidence, Commit, RecordManifest, OpenFile, WriteFile
      <3> QED BY <1>5, <3>1, <3>2, <3>3, <3>4 DEF Import, Export
    <2> QED BY <2>1 DEF Telling
  <1> QED BY <1>1, <1>2, <1>3, <1>4, <1>5

LEMMA ExportNext == ExportInv /\ [Next]_vars => ExportInv'
  <1> SUFFICES ASSUME ExportInv, [Next]_vars PROVE ExportInv'
    OBVIOUS
  <1>1. WholeInv' /\ Stored'
    BY WholeNext, StoredNext DEF ExportInv
  <1>2. CASE UNCHANGED vars
    <2>1. \A q \in Procs : Telling(q)'
      BY <1>2, TellingSpared DEF ExportInv, vars, cases, locals
    <2> QED BY <1>1, <2>1 DEF ExportInv
  <1>3. ASSUME NEW p \in Procs, Import(p) \/ Export(p) \/ Interrupt(p)
        PROVE  \A q \in Procs : Telling(q)'
    <2>1. WholeInv /\ \A q \in Procs : Telling(q)
      BY DEF ExportInv
    <2> QED BY <1>3, <2>1, TellingOwn, TellingOthers
  <1> QED BY <1>1, <1>2, <1>3 DEF ExportInv, Next, Finished

-----------------------------------------------------------------------------
(***************************************************************************)
(* What becomes of an export.                                              *)
(***************************************************************************)

\* Package q declares the rows of the table, each once and each kind in the order
\* of ids.
Tells(q, table, list, source) ==
    /\ Len(q) \in Nat /\ DOMAIN q = 1 .. Len(q)
    /\ \A i \in 1 .. Len(q) : q[i] = Declaration(list[i], source[i])
    /\ table = {list[i] : i \in 1 .. Len(q)}
    /\ \A i, j \in 1 .. Len(q) : i < j => list[i] # list[j] /\ Before(list[i], list[j])
    /\ \A i \in 1 .. Len(q) : source[i] \in AnyOf(list[i].sources)
    /\ \A r \in table : Storable(r)

\* Local ids tell ids apart.
LEMMA NamedApart ==
    \A x, y : Named(x) # NoId /\ Named(x) # Blank /\ (Named(x) = Named(y) => x = y)
              /\ Named(x).id = x
  BY DEF Named, NoId, Blank

\* The fields of a row's declaration.
LEMMA DeclarationFields ==
    ASSUME NEW r, NEW source, NEW d, d = Declaration(r, source)
    PROVE  /\ d.kind = r.kind /\ d.local = Named(r.id) /\ d.content = r.content
           /\ d.source = source /\ d.sound
           /\ d.cites = {[role |-> c.role, local |-> Named(c.id)] : c \in r.cites}
  BY DEF Declaration

\* A package of rows that is well formed has no two with an id, no evidence that is
\* too large, and none that cites a row of its kind listed later.
LEMMA SurvivorsApart ==
    ASSUME NEW q, NEW table, NEW list, NEW source, Tells(q, table, list, source), WellFormed(q)
    PROVE  /\ Len(q) <= MaxDeclared
           /\ \A r \in Evidence(table) : Size[r.content] <= MaxContent
           /\ \A r, o \in table : r.id = o.id => r = o
           /\ \A r \in table : ~CitesLater(r, table)
  <1> DEFINE m == Len(q)
  <1>1. /\ m \in Nat /\ DOMAIN q = 1 .. m
        /\ \A i \in 1 .. m : q[i] = Declaration(list[i], source[i])
        /\ table = {list[i] : i \in 1 .. m}
        /\ \A i, j \in 1 .. m : i < j => list[i] # list[j] /\ Before(list[i], list[j])
        /\ \A r \in table : Storable(r)
    BY DEF Tells
  <1>2. Len(q) <= MaxDeclared
    BY DEF WellFormed
  <1>3. \A i \in 1 .. m : /\ q[i].local = Named(list[i].id)
                          /\ q[i].kind = list[i].kind /\ q[i].content = list[i].content
                          /\ q[i].cites = {[role |-> c.role, local |-> Named(c.id)] :
                                              c \in list[i].cites}
    BY <1>1, DeclarationFields
  <1> HIDE DEF m
  <1>4. ASSUME NEW i \in 1 .. m, NEW j \in 1 .. m, list[i].id = list[j].id PROVE i = j
    <2>1. q[i].local = q[j].local /\ q[j].local # NoId
      BY <1>3, <1>4, NamedApart
    <2> QED BY <1>1, <2>1 DEF WellFormed
  <1>5. ASSUME NEW r \in table, NEW o \in table, r.id = o.id PROVE r = o
    <2>1. PICK i \in 1 .. m : r = list[i]
      BY <1>1
    <2>2. PICK j \in 1 .. m : o = list[j]
      BY <1>1
    <2> QED BY <1>4, <1>5, <2>1, <2>2
  <1>6. ASSUME NEW r \in table, NEW c \in r.cites, NEW o \in table, o.kind = r.kind,
               o.id = c.id, Rank[r.content] < Rank[o.content]
        PROVE  FALSE
    <2>1. PICK n \in 1 .. m : r = list[n]
      BY <1>1
    <2>2. PICK j \in 1 .. m : o = list[j]
      BY <1>1
    <2>3. Rank[r.content] \in Int /\ Rank[o.content] \in Int
      BY <1>1, RankAssumption DEF Storable
    <2>4. Place[r.kind] \in 1 .. 6
      BY <1>1, Places DEF Storable
    <2>5. ~Before(o, r)
      BY <1>6, <2>3, <2>4 DEF Before
    <2>6. ~(j < n)
      BY <1>1, <2>1, <2>2, <2>5
    <2> DEFINE d == [role |-> c.role, local |-> Named(c.id)]
    <2>7. d \in q[n].cites
      BY <1>3, <2>1
    <2>8. Meant(q, n, d) # {}
      BY <1>1, <2>7 DEF WellFormed
    <2>9. PICK i \in 1 .. n - 1 : q[i].local = Named(c.id)
      BY <2>8 DEF Meant
    <2>10. i \in 1 .. m /\ i < n
      BY <1>1
    <2>11. list[i].id = list[j].id
      BY <1>3, <1>6, <2>2, <2>9, <2>10, NamedApart
    <2>12. i = j
      BY <1>4, <2>10, <2>11
    <2> QED BY <1>1, <2>6, <2>10, <2>12
  <1>7. \A r \in table : ~CitesLater(r, table)
    BY <1>6 DEF CitesLater
  <1>8. ASSUME NEW r \in Evidence(table) PROVE Size[r.content] <= MaxContent
    <2>1. PICK i \in 1 .. m : r = list[i]
      BY <1>1 DEF Evidence
    <2>2. q[i].kind = "evidence" /\ q[i].content = r.content
      BY <1>3, <2>1 DEF Evidence
    <2>3. Acceptable(q[i])
      BY <1>1 DEF WellFormed
    <2> QED BY <2>2, <2>3 DEF Acceptable
  <1> QED BY <1>2, <1>5, <1>7, <1>8

\* The kinds that a row of a kind cites come before it, or are its own.
LEMMA CitedPlaces ==
    \A kind \in Kinds : \A role \in RolesOf[kind] : \A cited \in Permitted[role] :
        cited \in Kinds /\ (cited = kind \/ Place[cited] < Place[kind])
  <1>1. Kinds = {"evidence", "event", "entity", "relationship", "assertion", "hypothesis"}
    <2>1. DOMAIN KindOrder = {1, 2, 3, 4, 5, 6}
      BY DEF KindOrder
    <2>2. Kinds = {KindOrder[k] : k \in {1, 2, 3, 4, 5, 6}}
      BY <2>1 DEF Kinds, Range
    <2> QED BY <2>2 DEF KindOrder
  <1> SUFFICES ASSUME NEW kind \in Kinds, NEW role \in RolesOf[kind], NEW cited \in Permitted[role]
               PROVE  cited \in Kinds /\ (cited = kind \/ Place[cited] < Place[kind])
    OBVIOUS
  <1>2. CASE kind = "evidence"
    BY <1>2 DEF RolesOf
  <1>3. CASE kind = "event"
    BY <1>1, <1>3 DEF RolesOf, Permitted, Place
  <1>4. CASE kind = "entity"
    BY <1>1, <1>4 DEF RolesOf, Permitted, Place
  <1>5. CASE kind = "relationship"
    BY <1>1, <1>5 DEF RolesOf, Permitted, Place
  <1>6. CASE kind = "assertion"
    BY <1>1, <1>6 DEF RolesOf, Permitted, Place
  <1>7. CASE kind = "hypothesis"
    BY <1>1, <1>7 DEF RolesOf, Permitted, Place
  <1> QED BY <1>1, <1>2, <1>3, <1>4, <1>5, <1>6, <1>7

\* Of the rows of a closed case it is well formed, unless one cites a row of its own
\* kind that may be listed later, evidence is too large or two have an id.
LEMMA SurvivorsTogether ==
    ASSUME NEW q, NEW table, NEW list, NEW source, Tells(q, table, list, source),
           ClosedIn(table, table), Len(q) <= MaxDeclared,
           \A r \in Evidence(table) : Size[r.content] <= MaxContent,
           \A r, o \in table : r.id = o.id => r = o,
           \A r \in table : ~MayCiteLater(r, table)
    PROVE  WellFormed(q)
  <1> DEFINE m == Len(q)
  <1>1. /\ m \in Nat /\ DOMAIN q = 1 .. m
        /\ \A i \in 1 .. m : q[i] = Declaration(list[i], source[i])
        /\ table = {list[i] : i \in 1 .. m}
        /\ \A i, j \in 1 .. m : i < j => list[i] # list[j] /\ Before(list[i], list[j])
        /\ \A r \in table : Storable(r)
    BY DEF Tells
  <1>2. \A i \in 1 .. m : /\ q[i].local = Named(list[i].id) /\ q[i].kind = list[i].kind
                          /\ q[i].sound /\ q[i].content = list[i].content
                          /\ q[i].cites = {[role |-> c.role, local |-> Named(c.id)] :
                                              c \in list[i].cites}
    BY <1>1, DeclarationFields
  <1>3. \A i \in 1 .. m : q[i].local # NoId /\ q[i].local # Blank
    BY <1>2, NamedApart
  <1> HIDE DEF m
  <1>4. ASSUME NEW n \in 1 .. m, NEW i \in 1 .. m, i # n, q[i].local = q[n].local PROVE FALSE
    <2>1. list[i].id = list[n].id /\ list[i] \in table /\ list[n] \in table
      BY <1>1, <1>2, <1>4, NamedApart
    <2>2. list[i] = list[n]
      BY <2>1
    <2>3. i < n \/ n < i
      BY <1>1, <1>4
    <2> QED BY <1>1, <2>2, <2>3
  <1>5. ASSUME NEW n \in 1 .. m, NEW d \in q[n].cites PROVE Meant(q, n, d) # {}
    <2>1. PICK c \in list[n].cites : d = [role |-> c.role, local |-> Named(c.id)]
      BY <1>2
    <2>2. list[n] \in table
      BY <1>1
    <2>3. PICK o \in table : o.id = c.id /\ o.kind \in Permitted[c.role]
      BY <2>2 DEF ClosedIn
    <2>4. PICK i \in 1 .. m : o = list[i]
      BY <1>1
    <2>5. list[n].kind \in Kinds /\ c.role \in RolesOf[list[n].kind]
      BY <1>1, <2>2 DEF Storable
    <2>6. o.kind \in Kinds /\ (o.kind = list[n].kind \/ Place[o.kind] < Place[list[n].kind])
      BY <2>3, <2>5, CitedPlaces
    <2>7. Place[list[n].kind] \in 1 .. 6 /\ Place[o.kind] \in 1 .. 6
      BY <2>5, <2>6, Places
    <2>8. Rank[list[n].content] \in Int /\ Rank[o.content] \in Int
      BY <1>1, <2>2, RankAssumption DEF Storable
    <2>9. ~MayCiteLater(list[n], table)
      BY <2>2
    <2>10. o.kind = list[n].kind => ~(Rank[list[n].content] <= Rank[o.content])
      BY <2>3, <2>9 DEF MayCiteLater
    <2>11. ~Before(list[n], o) /\ o # list[n]
      BY <2>6, <2>7, <2>8, <2>10 DEF Before
    <2>12. i < n
      <3>1. i # n /\ ~(n < i)
        BY <1>1, <2>4, <2>11
      <3> QED BY <1>1, <3>1
    <2>13. i \in 1 .. n - 1
      BY <1>1, <2>12
    <2>14. d.local = Named(o.id) /\ d.role = c.role
      BY <2>1, <2>3
    <2>15. i \in Meant(q, n, d)
      BY <1>2, <1>3, <2>3, <2>4, <2>13, <2>14 DEF Meant
    <2> QED BY <2>15
  <1>6. ASSUME NEW n \in 1 .. m PROVE Acceptable(q[n])
    <2>1. q[n].kind = "evidence" => list[n] \in Evidence(table)
      BY <1>1, <1>2 DEF Evidence
    <2> QED BY <1>2, <2>1 DEF Acceptable
  <1> QED BY <1>1, <1>3, <1>4, <1>5, <1>6 DEF WellFormed, m

\* A row becomes itself again, from one of its sources.
LEMMA ObjectAgain ==
    ASSUME NEW r, Storable(r), NEW source \in AnyOf(r.sources), NEW n
    PROVE  /\ Object(Declaration(r, source), r.cites, n).id = r.id
           /\ Again(r, Object(Declaration(r, source), r.cites, n))
  <1> DEFINE d == Declaration(r, source)
             s == IF d.kind = "evidence" /\ d.source # NoSource THEN {d.source} ELSE {}
             o == Object(d, r.cites, n)
  <1>1. d.kind = r.kind /\ d.local = Named(r.id) /\ d.content = r.content /\ d.source = source
    BY DeclarationFields
  <1>2. Identity(d, r.cites, n) = r.id
    BY <1>1, NamedApart DEF Identity, Storable
  <1>3. s \subseteq r.sources /\ (r.sources # {} => s # {})
    BY <1>1 DEF AnyOf, Storable
  <1> HIDE DEF d
  <1>4. o = [kind |-> r.kind, id |-> r.id, cites |-> r.cites, content |-> r.content, sources |-> s]
    BY <1>1, <1>2 DEF Object
  <1>5. r = [kind |-> r.kind, id |-> r.id, cites |-> r.cites, content |-> r.content,
             sources |-> r.sources]
    BY DEF Storable
  <1> HIDE DEF s, o
  <1>6. [r EXCEPT !.sources = s] =
           [kind |-> r.kind, id |-> r.id, cites |-> r.cites, content |-> r.content, sources |-> s]
    BY <1>5
  <1>7. o.sources = s /\ o.id = r.id
    BY <1>4
  <1>8. Again(r, o)
    BY <1>3, <1>4, <1>6, <1>7 DEF Again
  <1> QED BY <1>7, <1>8 DEF o, d

\* A well-formed package of rows means those rows.
LEMMA SurvivorsAgain ==
    ASSUME NEW q, NEW table, NEW list, NEW source, Tells(q, table, list, source), WellFormed(q)
    PROVE  /\ \A r \in table : \E o \in Everything(q) : Again(r, o)
           /\ \A o \in Everything(q) : \E r \in table : Again(r, o)
  <1> DEFINE m == Len(q)
             f == [n \in 1 .. m |-> Object(q[n], list[n].cites, n)]
  <1>1. /\ m \in Nat /\ DOMAIN q = 1 .. m
        /\ \A i \in 1 .. m : q[i] = Declaration(list[i], source[i])
        /\ table = {list[i] : i \in 1 .. m}
        /\ \A i \in 1 .. m : source[i] \in AnyOf(list[i].sources)
        /\ \A r \in table : Storable(r)
    BY DEF Tells
  <1>2. \A n \in 1 .. m : f[n].id = list[n].id /\ Again(list[n], f[n])
    <2>1. \A n \in 1 .. m : f[n] = Object(Declaration(list[n], source[n]), list[n].cites, n)
      BY <1>1
    <2> HIDE DEF m, f
    <2> TAKE n \in 1 .. m
    <2>2. Storable(list[n]) /\ source[n] \in AnyOf(list[n].sources)
      BY <1>1
    <2>3. /\ Object(Declaration(list[n], source[n]), list[n].cites, n).id = list[n].id
          /\ Again(list[n], Object(Declaration(list[n], source[n]), list[n].cites, n))
      BY <2>2, ObjectAgain
    <2>4. f[n] = Object(Declaration(list[n], source[n]), list[n].cites, n)
      BY <2>1
    <2> QED BY <2>3, <2>4
  <1>3. \A i \in 1 .. m : /\ q[i].local = Named(list[i].id)
                          /\ q[i].cites = {[role |-> c.role, local |-> Named(c.id)] :
                                              c \in list[i].cites}
    BY <1>1, DeclarationFields
  <1>4. \A n \in 1 .. m : Stands(q, n)
    BY <1>1, StandingApart
  <1>5. DOMAIN f = 1 .. m /\ \A n \in 1 .. m : f[n] = Object(q[n], list[n].cites, n)
    OBVIOUS
  <1>5a. f = [n \in 1 .. m |-> f[n]]
    OBVIOUS
  <1> HIDE DEF m, f
  <1>6. ASSUME NEW n \in 1 .. m PROVE Cited(q, f, n) = list[n].cites
    <2>1. ASSUME NEW c \in list[n].cites, NEW d, d = [role |-> c.role, local |-> Named(c.id)]
          PROVE  [role |-> d.role, id |-> f[CHOOSE i \in Meant(q, n, d) : TRUE].id] = c
      <3> DEFINE i == CHOOSE i \in Meant(q, n, d) : TRUE
      <3>1. d \in q[n].cites
        BY <1>3, <2>1
      <3>2. i \in Meant(q, n, d)
        BY <1>4, <3>1, MeansEarlier
      <3> HIDE DEF i
      <3>3. i \in 1 .. n - 1 /\ q[i].local = d.local
        BY <3>2 DEF Meant
      <3>4. i \in 1 .. m
        BY <1>1, <3>3
      <3>5. list[i].id = c.id
        BY <1>3, <2>1, <3>3, <3>4, NamedApart
      <3>6. f[i].id = c.id
        BY <1>2, <3>4, <3>5
      <3>7. c = [role |-> c.role, id |-> c.id]
        BY <1>1 DEF Storable
      <3>8. [role |-> d.role, id |-> f[i].id] = c
        BY <2>1, <3>6, <3>7
      <3> QED BY <3>8 DEF i
    <2>2. \A c \in list[n].cites : [role |-> c.role, local |-> Named(c.id)] \in q[n].cites
      BY <1>3
    <2>3. \A d \in q[n].cites : \E c \in list[n].cites :
             d = [role |-> c.role, local |-> Named(c.id)]
      BY <1>3
    <2>4. ASSUME NEW x \in Cited(q, f, n) PROVE x \in list[n].cites
      <3>1. PICK d \in q[n].cites :
               x = [role |-> d.role, id |-> f[CHOOSE i \in Meant(q, n, d) : TRUE].id]
        BY DEF Cited
      <3>2. PICK c \in list[n].cites : d = [role |-> c.role, local |-> Named(c.id)]
        BY <2>3
      <3> QED BY <2>1, <3>1, <3>2
    <2>5. ASSUME NEW c \in list[n].cites PROVE c \in Cited(q, f, n)
      <3>1. PICK d : d = [role |-> c.role, local |-> Named(c.id)]
        OBVIOUS
      <3>2. d \in q[n].cites
        BY <2>2, <3>1
      <3>3. [role |-> d.role, id |-> f[CHOOSE i \in Meant(q, n, d) : TRUE].id] = c
        BY <2>1, <3>1
      <3> QED BY <3>2, <3>3 DEF Cited
    <2> QED BY <2>4, <2>5
  <1>7. Becomes(q, f)
    <2>1. \A n \in 1 .. m : f[n] = Object(q[n], Cited(q, f, n), n)
      BY <1>5, <1>6
    <2> HIDE DEF Cited
    <2> QED BY <1>5, <1>5a, <2>1 DEF Becomes
  <1>8. PICK g : DOMAIN g = DOMAIN q /\ Becomes(q, g) /\ Everything(q) = {g[n] : n \in DOMAIN q}
    BY <1>1, <1>5, <1>7, EverythingIs
  <1>9. f = g
    BY <1>1, <1>4, <1>5, <1>7, <1>8, BecomesOne
  <1>10. Everything(q) = {f[n] : n \in 1 .. m}
    BY <1>1, <1>8, <1>9
  <1> QED BY <1>1, <1>2, <1>10

\* The ids survive: an export of a case that nobody changes meanwhile declares exactly
\* its rows, whatever they are and however ids sort; and what imports do of it is what
\* IdsSurvive says (exporter.py).
THEOREM IdsAlwaysSurvive == Spec => []IdsSurvive
  <1>1. ASSUME ExportInv, IInv, NEW p \in Procs, Exported(p)
        PROVE  \E list, source : Tells(package[p], rows[dir[p]], list, source)
    <2>1. PICK list, source : Listed(p, list, source)
      <3>1. Telling(p) /\ pc[p] = "open" /\ at[p] > 6 /\ ~torn[p]
        BY <1>1, Places DEF ExportInv, Exported
      <3> QED BY <3>1 DEF Telling
    <2>2. at[p] = 7
      <3>1. at[p] \in 1 .. 7 /\ at[p] > 6
        BY <1>1, <2>1, Places DEF Listed, Exported
      <3> QED BY <3>1
    <2>3. dir[p] \in Dirs /\ IsSequence(package[p])
      BY <1>1 DEF IInv, TypeOK, ExportInv, WholeInv, ListInv, Sequences
    <2>4. \A r \in rows[dir[p]] : Storable(r)
      BY <1>1, <2>3 DEF ExportInv, Stored
    <2>5. \A r \in rows[dir[p]] : Place[r.kind] < 7
      <3>1. \A r \in rows[dir[p]] : Place[r.kind] \in 1 .. 6
        BY <2>4, Places DEF Storable
      <3> QED BY <3>1
    <2>6. Len(package[p]) \in Nat /\ DOMAIN package[p] = 1 .. Len(package[p])
      BY <2>3, SequenceIs
    <2> DEFINE q == package[p]
    <2>7. q = [i \in 1 .. Len(q) |-> Declaration(list[i], source[i])]
      BY <2>1 DEF Listed
    <2>8. rows[dir[p]] = {list[i] : i \in 1 .. Len(q)}
      BY <2>1, <2>2, <2>5 DEF Listed
    <2>9. /\ \A i, j \in 1 .. Len(q) : i < j => list[i] # list[j] /\ Before(list[i], list[j])
          /\ \A i \in 1 .. Len(q) : source[i] \in AnyOf(list[i].sources)
      BY <2>1 DEF Listed
    <2> HIDE DEF q
    <2>10. \A i \in 1 .. Len(q) : q[i] = Declaration(list[i], source[i])
      BY <2>7
    <2> QED BY <2>4, <2>6, <2>8, <2>9, <2>10 DEF Tells, q
  <1>2. ExportInv /\ IInv => IdsSurvive
    <2> SUFFICES ASSUME ExportInv, IInv, NEW p \in Procs, Exported(p)
                 PROVE  LET table == rows[dir[p]]
                            again == Everything(package[p])
                            imports == Opens(file[p], package[p]) /\ WellFormed(package[p])
                            accepted ==
                                /\ Len(package[p]) <= MaxDeclared
                                /\ Opens(file[p], package[p])
                                /\ \A r \in Evidence(table) : Size[r.content] <= MaxContent
                                /\ \A r, o \in table : r.id = o.id => r = o
                        IN /\ imports => accepted /\ \A r \in table : ~CitesLater(r, table)
                           /\ accepted /\ (\A r \in table : ~MayCiteLater(r, table)) =>
                                 imports
                           /\ WellFormed(package[p]) =>
                                 /\ \A r \in table : \E o \in again : Again(r, o)
                                 /\ \A o \in again : \E r \in table : Again(r, o)
      BY DEF IdsSurvive
    <2>1. PICK list, source : Tells(package[p], rows[dir[p]], list, source)
      BY <1>1
    <2>2. ClosedIn(rows[dir[p]], rows[dir[p]])
      <3>1. Closed(rows[dir[p]], blobs[dir[p]])
        BY DEF IInv, TypeOK, CasesClosed
      <3> QED BY <3>1, ClosedParts
    <2> QED BY <2>1, <2>2, SurvivorsApart, SurvivorsTogether, SurvivorsAgain
  <1> QED BY <1>2, ExportInit, ExportNext, IInvInit, IInvNext, PTL DEF Spec
=============================================================================

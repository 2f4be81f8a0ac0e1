--------------------------- MODULE BlobStoreProofs ---------------------------
(***************************************************************************)
(* For any number of writers, digests, write calls and crashes: the types, *)
(* UncontendedSound and SettledIntact hold, and BlobStore implements       *)
(* WriteOnce.                                                              *)
(***************************************************************************)
EXTENDS BlobStore, TLAPS

\* Two puts in flight on one digest have contended for it.
Alone == \A v, w \in Writers :
            v # w /\ Busy(v) /\ Busy(w) /\ dig[v] = dig[w] => dig[w] \in contended

\* The only put in flight on a digest found nothing there and nothing came.
Absent == \A w \in Writers : Busy(w) /\ dig[w] \notin contended => path[dig[w]] = NoInode

\* The only put in flight on a digest has the staging file for itself.
Staged == \A w \in Writers : dig[w] \notin contended =>
            /\ pc[w] = "write" => /\ tmp[dig[w]] = fd[w]
                                  /\ 1 .. pos[w] \subseteq content[dig[w]][fd[w]]
            /\ pc[w] = "replace" => /\ tmp[dig[w]] # NoInode
                                    /\ content[dig[w]][tmp[dig[w]]] = Chunks

\* The inductive invariant for digests that no two puts raced for.
Quiet == Alone /\ Absent /\ Staged /\ UncontendedIntact /\ OnlyContentionFails

\* Open stages in one of the digest's inodes.
LEMMA OpenEffect ==
    ASSUME TypeOK, NEW w \in Writers, Open(w)
    PROVE  \E i \in Inodes : /\ tmp' = [tmp EXCEPT ![dig[w]] = i]
                             /\ content' = [content EXCEPT ![dig[w]][i] = {}]
                             /\ fd' = [fd EXCEPT ![w] = i]
BY NoInodeAssumption DEF TypeOK, Open, Unused

LEMMA TypeCorrect == Spec => []TypeOK
<1> USE NoInodeAssumption, NChunksAssumption, MaxCrashesAssumption
<1>1. Init => TypeOK
  BY DEF Init, TypeOK
<1>2. TypeOK /\ [Next]_vars => TypeOK'
  <2> SUFFICES ASSUME TypeOK, [Next]_vars PROVE TypeOK'
    OBVIOUS
  <2>1. CASE UNCHANGED vars
    BY <2>1 DEF TypeOK, vars
  <2>2. ASSUME NEW w \in Writers, NEW d \in Digests, PutStored(w, d) PROVE TypeOK'
    BY <2>2 DEF TypeOK, PutStored, vars
  <2>3. ASSUME NEW w \in Writers, NEW d \in Digests, Check(w, d) PROVE TypeOK'
    BY <2>3 DEF TypeOK, Check, Busy
  <2>4. ASSUME NEW w \in Writers, Open(w) PROVE TypeOK'
    <3>1. PICK i \in Inodes : /\ tmp' = [tmp EXCEPT ![dig[w]] = i]
                              /\ content' = [content EXCEPT ![dig[w]][i] = {}]
                              /\ fd' = [fd EXCEPT ![w] = i]
      BY <2>4, OpenEffect
    <3> QED BY <2>4, <3>1 DEF TypeOK, Open
  <2>5. ASSUME NEW w \in Writers, Write(w) PROVE TypeOK'
    <3>1. fd[w] \in Inodes /\ pos[w] + 1 \in Chunks
      BY <2>5 DEF TypeOK, Write, Chunks
    <3> QED BY <2>5, <3>1 DEF TypeOK, Write, Chunks
  <2>6. ASSUME NEW w \in Writers, Close(w) PROVE TypeOK'
    BY <2>6 DEF TypeOK, Close
  <2>7. ASSUME NEW w \in Writers, Replace(w) PROVE TypeOK'
    BY <2>7 DEF TypeOK, Replace
  <2>8. ASSUME NEW w \in Writers, ReplaceFails(w) PROVE TypeOK'
    BY <2>8 DEF TypeOK, ReplaceFails
  <2>9. ASSUME NEW w \in Writers, Crash(w) PROVE TypeOK'
    BY <2>9 DEF TypeOK, Crash
  <2> QED BY <2>1, <2>2, <2>3, <2>4, <2>5, <2>6, <2>7, <2>8, <2>9 DEF Next
<1> QED BY <1>1, <1>2, PTL DEF Spec

\* Typed variables (BlobStore's TypeOK) for every run of the specification.
THEOREM BlobTypes == Spec => []TypeOK
BY TypeCorrect

LEMMA QuietInit == Init => Quiet
BY DEF Init, Quiet, Alone, Absent, Staged, UncontendedIntact, OnlyContentionFails,
       Busy, Linked

LEMMA QuietStep == TypeOK /\ Quiet /\ [Next]_vars => Quiet'
<1> USE NoInodeAssumption, NChunksAssumption
<1> SUFFICES ASSUME TypeOK, Quiet, [Next]_vars PROVE Quiet'
  OBVIOUS
<1> USE DEF Quiet, Alone, Absent, Staged, UncontendedIntact, OnlyContentionFails,
            Busy, Linked, Whole
<1>1. CASE UNCHANGED vars
  BY <1>1 DEF vars
<1>2. ASSUME NEW w \in Writers, NEW d \in Digests, PutStored(w, d) PROVE Quiet'
  BY <1>2 DEF PutStored, vars
<1>3. ASSUME NEW w \in Writers, NEW d \in Digests, Check(w, d) PROVE Quiet'
  BY <1>3 DEF Check, TypeOK
<1>4. ASSUME NEW w \in Writers, Open(w) PROVE Quiet'
  <2>1. PICK i \in Inodes : /\ tmp' = [tmp EXCEPT ![dig[w]] = i]
                            /\ content' = [content EXCEPT ![dig[w]][i] = {}]
                            /\ fd' = [fd EXCEPT ![w] = i]
    BY <1>4, OpenEffect
  <2>2. pos[w] = 0
    BY <1>4 DEF Open, TypeOK
  <2>3. /\ UNCHANGED <<path, dig, pos, contended, failed>>
        /\ pc[w] = "open"
        /\ pc' = [pc EXCEPT ![w] = "write"]
    BY <1>4 DEF Open
  <2>4. ASSUME NEW v \in Writers, v # w, dig[v] = dig[w], dig[w] \notin contended
        PROVE  pc[v] = "idle"
    BY <2>3, <2>4
  <2>5. Alone' /\ Absent' /\ OnlyContentionFails'
    BY <2>3 DEF TypeOK
  <2>6. Staged'
    BY <2>1, <2>2, <2>3, <2>4 DEF TypeOK
  <2>7. UncontendedIntact'
    <3> SUFFICES ASSUME NEW d \in Digests, d \notin contended, path[d] # NoInode
                 PROVE  content'[d][path[d]] = Chunks
      BY <2>3
    <3>1. d # dig[w] /\ content[d][path[d]] = Chunks
      BY <2>3
    <3>2. content'[d] = content[d]
      BY <2>1, <3>1 DEF TypeOK
    <3> QED BY <3>1, <3>2
  <2> QED BY <2>5, <2>6, <2>7
<1>5. ASSUME NEW w \in Writers, Write(w) PROVE Quiet'
  BY <1>5 DEF Write, TypeOK, Chunks
<1>6. ASSUME NEW w \in Writers, Close(w) PROVE Quiet'
  <2>1. dig[w] \notin contended => content[dig[w]][tmp[dig[w]]] = Chunks
    <3> SUFFICES ASSUME dig[w] \notin contended PROVE content[dig[w]][fd[w]] = Chunks
      BY <1>6 DEF Close
    <3>1. Chunks \subseteq content[dig[w]][fd[w]]
      BY <1>6 DEF Close, Chunks
    <3>2. content[dig[w]][fd[w]] \subseteq Chunks
      BY <1>6 DEF Close, TypeOK
    <3> QED BY <3>1, <3>2
  <2>2. dig[w] \notin contended => tmp[dig[w]] # NoInode
    BY <1>6 DEF Close, TypeOK
  <2> QED BY <1>6, <2>1, <2>2 DEF Close, TypeOK
<1>7. ASSUME NEW w \in Writers, Replace(w) PROVE Quiet'
  BY <1>7 DEF Replace, TypeOK
<1>8. ASSUME NEW w \in Writers, ReplaceFails(w) PROVE Quiet'
  BY <1>8 DEF ReplaceFails, TypeOK
<1>9. ASSUME NEW w \in Writers, Crash(w) PROVE Quiet'
  BY <1>9 DEF Crash, TypeOK
<1> QED BY <1>1, <1>2, <1>3, <1>4, <1>5, <1>6, <1>7, <1>8, <1>9 DEF Next

\* A visible blob is whole, and put() does not raise, unless two puts of its
\* bytes raced: whatever the interleaving and the crashes.
THEOREM UncontendedPutsSound == Spec => []UncontendedSound
<1>1. Quiet => UncontendedSound
  BY DEF Quiet, UncontendedSound
<1> QED BY <1>1, TypeCorrect, QuietInit, QuietStep, PTL DEF Spec

\* How the store shows while it is quiet.
Shown(d) == IF d \in contended THEN "shared"
            ELSE IF path[d] # NoInode THEN "whole" ELSE "absent"

LEMMA ViewInit == Init => Promise!Init
BY DEF Init, Promise!Init, BlobView, Linked

\* A step leaves the view alone, but for a put that finds another in flight
\* (Contend) and a rename that nothing raced (Put).
LEMMA ViewStep ==
    ASSUME TypeOK, Quiet, Quiet', [Next]_vars
    PROVE  [Promise!Next]_BlobView
<1>1. BlobView = [d \in Digests |-> Shown(d)]
  <2>1. ASSUME NEW d \in Digests, d \notin contended PROVE Linked(d) => Whole(d)
    BY <2>1 DEF Quiet, UncontendedIntact
  <2> QED BY <2>1 DEF BlobView, Shown, Linked
<1>2. BlobView' = [d \in Digests |-> Shown(d)']
  <2>1. ASSUME NEW d \in Digests, d \notin contended' PROVE Linked(d)' => Whole(d)'
    BY <2>1 DEF Quiet, UncontendedIntact
  <2> QED BY <2>1 DEF BlobView, Shown, Linked
<1>3. ASSUME UNCHANGED <<path, contended>> PROVE BlobView' = BlobView
  BY <1>1, <1>2, <1>3 DEF Shown
<1>4. ASSUME NEW w \in Writers, NEW d \in Digests, Check(w, d)
      PROVE  [Promise!Next]_BlobView
  <2>1. path' = path /\ path[d] = NoInode
    BY <1>4 DEF Check
  <2>2. CASE contended' = contended
    BY <1>3, <2>1, <2>2
  <2>3. CASE contended' = contended \cup {d} /\ d \notin contended
    <3>1. BlobView[d] = "absent"
      BY <1>1, <2>1, <2>3 DEF Shown
    <3>2. BlobView' = [BlobView EXCEPT ![d] = "shared"]
      BY <1>1, <1>2, <2>1, <2>3 DEF Shown
    <3> QED BY <3>1, <3>2 DEF Promise!Next, Promise!Contend
  <2> QED BY <1>4, <2>2, <2>3 DEF Check
<1>5. ASSUME NEW w \in Writers, Replace(w) PROVE [Promise!Next]_BlobView
  <2> DEFINE d == dig[w]
  <2>1. d \in Digests /\ contended' = contended /\ path' = [path EXCEPT ![d] = tmp[d]]
    BY <1>5 DEF Replace, TypeOK
  <2>2. CASE d \in contended
    <3>1. \A e \in Digests : Shown(e)' = Shown(e)
      BY <2>1, <2>2 DEF Shown, TypeOK
    <3> QED BY <1>1, <1>2, <3>1
  <2>3. CASE d \notin contended
    <3>1. path[d] = NoInode
      BY <1>5, <2>3 DEF Replace, Quiet, Absent, Busy
    <3>2. BlobView[d] = "absent"
      BY <1>1, <2>1, <2>3, <3>1 DEF Shown
    <3>3. tmp[d] # NoInode
      BY <1>5 DEF Replace
    <3>4. BlobView' = [BlobView EXCEPT ![d] = "whole"]
      BY <1>1, <1>2, <2>1, <2>3, <3>3 DEF Shown, TypeOK
    <3> QED BY <2>1, <3>2, <3>4 DEF Promise!Next, Promise!Put
  <2> QED BY <2>2, <2>3
<1>6. CASE UNCHANGED <<path, contended>>
  BY <1>3, <1>6
<1> QED
  BY <1>4, <1>5, <1>6 DEF Next, PutStored, Open, Write, Close, ReplaceFails, Crash, vars

\* FileBlobStore implements WriteOnce (its docstring: "written once and never
\* modified afterward"), for the digests no two puts raced for.
THEOREM BlobStoreImplementsWriteOnce == Spec => StoredOnce
<1>1. TypeOK /\ Quiet /\ Quiet' /\ [Next]_vars => [Promise!Next]_BlobView
  BY ViewStep
<1> QED
  BY <1>1, ViewInit, TypeCorrect, QuietInit, QuietStep, PTL DEF Spec, StoredOnce, Promise!Spec

-----------------------------------------------------------------------------
\* Without crashes, whatever a named file lacks some writer has yet to write.
Promised ==
    crashes = 0 =>
        \A d \in Digests : \A i \in Inodes : i \in {path[d], tmp[d]} =>
            \A c \in Chunks \ content[d][i] :
                \E w \in Writers : pc[w] = "write" /\ dig[w] = d /\ fd[w] = i /\ pos[w] < c

LEMMA PromisedInit == Init => Promised
BY NoInodeAssumption DEF Init, Promised

LEMMA PromisedStep == TypeOK /\ Promised /\ [Next]_vars => Promised'
<1> USE NoInodeAssumption, NChunksAssumption
<1> DEFINE Pledge(d, i, c) ==
        \E w \in Writers : pc[w] = "write" /\ dig[w] = d /\ fd[w] = i /\ pos[w] < c
<1> SUFFICES ASSUME TypeOK, Promised, [Next]_vars, crashes' = 0,
                    NEW d \in Digests, NEW i \in Inodes, i \in {path'[d], tmp'[d]},
                    NEW c \in Chunks, c \notin content'[d][i]
             PROVE  Pledge(d, i, c)'
  BY DEF Promised
<1>0. c \in Nat /\ c > 0 /\ c <= NChunks
  BY DEF Chunks
<1>1. ASSUME crashes = 0, i \in {path[d], tmp[d]}, c \notin content[d][i]
      PROVE  Pledge(d, i, c)
  BY <1>1 DEF Promised
<1>2. CASE UNCHANGED vars
  BY <1>1, <1>2 DEF vars
<1>3. ASSUME NEW w \in Writers, NEW e \in Digests, PutStored(w, e) PROVE Pledge(d, i, c)'
  BY <1>1, <1>3 DEF PutStored, vars
<1>4. ASSUME NEW w \in Writers, NEW e \in Digests, Check(w, e) PROVE Pledge(d, i, c)'
  BY <1>1, <1>4 DEF Check, Busy, TypeOK
<1>5. ASSUME NEW w \in Writers, Open(w) PROVE Pledge(d, i, c)'
  <2>1. PICK j \in Inodes : /\ tmp' = [tmp EXCEPT ![dig[w]] = j]
                            /\ content' = [content EXCEPT ![dig[w]][j] = {}]
                            /\ fd' = [fd EXCEPT ![w] = j]
    BY <1>5, OpenEffect
  <2>2. /\ UNCHANGED <<path, dig, pos, crashes>>
        /\ pc[w] = "open" /\ pos[w] = 0
        /\ pc' = [pc EXCEPT ![w] = "write"]
    BY <1>5 DEF Open, TypeOK
  <2>3. CASE d = dig[w] /\ i = j
    BY <1>0, <2>1, <2>2, <2>3 DEF TypeOK
  <2>4. CASE ~(d = dig[w] /\ i = j)
    <3>1. Pledge(d, i, c)
      BY <1>1, <2>1, <2>2, <2>4 DEF TypeOK
    <3> QED BY <2>1, <2>2, <3>1 DEF TypeOK
  <2> QED BY <2>3, <2>4
<1>6. ASSUME NEW w \in Writers, Write(w) PROVE Pledge(d, i, c)'
  <2>1. /\ UNCHANGED <<path, tmp, pc, dig, fd, crashes>>
        /\ content' = [content EXCEPT ![dig[w]][fd[w]] = @ \cup {pos[w] + 1}]
        /\ pos' = [pos EXCEPT ![w] = @ + 1]
        /\ fd[w] \in Inodes
    BY <1>6 DEF Write, TypeOK
  <2>2. c \notin content[d][i]
    BY <2>1 DEF TypeOK
  <2>3. PICK v \in Writers : pc[v] = "write" /\ dig[v] = d /\ fd[v] = i /\ pos[v] < c
    BY <1>1, <2>1, <2>2
  <2>4. CASE v # w
    BY <2>1, <2>3, <2>4 DEF TypeOK
  <2>5. CASE v = w
    <3>1. c # pos[w] + 1
      BY <2>1, <2>3, <2>5 DEF TypeOK
    <3>2. pos[w] \in Nat /\ pos[w] < c
      BY <2>3, <2>5 DEF TypeOK
    <3>3. pos[w] + 1 < c
      BY <1>0, <3>1, <3>2
    <3> QED BY <2>1, <2>3, <2>5, <3>3 DEF TypeOK
  <2> QED BY <2>4, <2>5
<1>7. ASSUME NEW w \in Writers, Close(w) PROVE Pledge(d, i, c)'
  <2>1. PICK v \in Writers : pc[v] = "write" /\ dig[v] = d /\ fd[v] = i /\ pos[v] < c
    BY <1>1, <1>7 DEF Close
  <2>2. v # w
    BY <1>0, <1>7, <2>1 DEF Close
  <2> QED BY <1>7, <2>1, <2>2 DEF Close, TypeOK
<1>8. ASSUME NEW w \in Writers, Replace(w) PROVE Pledge(d, i, c)'
  <2>1. i \in {path[d], tmp[d]}
    BY <1>8 DEF Replace, TypeOK
  <2> QED BY <1>1, <1>8, <2>1 DEF Replace, TypeOK
<1>9. ASSUME NEW w \in Writers, ReplaceFails(w) PROVE Pledge(d, i, c)'
  BY <1>1, <1>9 DEF ReplaceFails, TypeOK
<1>10. ASSUME NEW w \in Writers, Crash(w) PROVE Pledge(d, i, c)'
  BY <1>10 DEF Crash, TypeOK
<1> QED BY <1>2, <1>3, <1>4, <1>5, <1>6, <1>7, <1>8, <1>9, <1>10 DEF Next

\* Puts that raced leave a whole blob behind once they have ended, if no
\* process died in them.
THEOREM SettledBlobsIntact == Spec => []SettledIntact
<1>1. TypeOK /\ Promised => SettledIntact
  <2> SUFFICES ASSUME TypeOK, Promised, crashes = 0, NEW d \in Digests,
                      path[d] # NoInode, ~InFlight(d)
               PROVE  Whole(d)
    BY DEF SettledIntact, Linked
  <2>1. path[d] \in Inodes /\ content[d][path[d]] \subseteq Chunks
    BY DEF TypeOK
  <2>2. \A c \in Chunks : c \in content[d][path[d]]
    BY <2>1 DEF Promised, InFlight, Busy
  <2> QED BY <2>1, <2>2 DEF Whole, Linked
<1> QED BY <1>1, TypeCorrect, PromisedInit, PromisedStep, PTL DEF Spec
=============================================================================

------------------------------ MODULE BlobStore ------------------------------
(***************************************************************************)
(* FileBlobStore (store/sqlite_store.py): blobs addressed by the digest of *)
(* their bytes, staged in a file with a fixed name beside the final one    *)
(* and renamed into place.  Every file system call of put() is a step, so  *)
(* that the puts of several processes interleave between them, and a       *)
(* process may die between any two.                                        *)
(*                                                                         *)
(* A file is an inode: path[d] and tmp[d] name one (or none), a writer     *)
(* holds one open while it writes, and a rename moves the name, not the    *)
(* bytes.  Each digest has inodes of its own, because no call ever moves a *)
(* file from one digest's names to another's.                              *)
(***************************************************************************)
EXTENDS Naturals, FiniteSets

CONSTANTS
    Writers,      \* processes that put blobs into one case
    Digests,      \* contents, named by their digest
    Inodes,       \* file identities available to one digest
    NoInode,      \* the name is not linked
    NChunks,      \* a blob is written in this many write calls
    MaxCrashes    \* bound on the number of crashes

ASSUME NoInodeAssumption == NoInode \notin Inodes
ASSUME NChunksAssumption == NChunks \in Nat \ {0}
ASSUME MaxCrashesAssumption == MaxCrashes \in Nat

VARIABLES
    path,         \* path[d]: inode of <root>/<d[:2]>/<d>
    tmp,          \* tmp[d]: inode of <root>/<d[:2]>/<d>.tmp
    content,      \* content[d][i]: the chunks that inode i holds
    pc,           \* pc[w]: the call writer w makes next
    dig,          \* dig[w]: the digest of w's current (or last) put
    fd,           \* fd[w]: the inode w has open
    pos,          \* pos[w]: chunks w has written through fd[w]
    crashes,      \* crashes so far
    contended,    \* history: digests two puts were in flight on at once
    failed        \* history: digests some put of which raised

vars == <<path, tmp, content, pc, dig, fd, pos, crashes, contended, failed>>

Chunks == 1 .. NChunks

\* w is between the exists() check and the return of put().
Busy(w) == pc[w] # "idle"

\* Inodes of d that no name and no open file refers to.
Unused(d) == { i \in Inodes : /\ i # path[d]
                              /\ i # tmp[d]
                              /\ \A w \in Writers : dig[w] = d => fd[w] # i }

Init == /\ path = [d \in Digests |-> NoInode]
        /\ tmp = [d \in Digests |-> NoInode]
        /\ content = [d \in Digests |-> [i \in Inodes |-> {}]]
        /\ pc = [w \in Writers |-> "idle"]
        /\ dig \in [Writers -> Digests]
        /\ fd = [w \in Writers |-> NoInode]
        /\ pos = [w \in Writers |-> 0]
        /\ crashes = 0
        /\ contended = {}
        /\ failed = {}

-----------------------------------------------------------------------------
\* put(): `if not path.exists()' is false, so put() returns at once.
PutStored(w, d) ==
    /\ ~Busy(w)
    /\ path[d] # NoInode
    /\ UNCHANGED vars

\* Variant: the blob is staged again although it exists.
CheckAlways(w, d) ==
    /\ ~Busy(w)
    /\ pc' = [pc EXCEPT ![w] = "open"]
    /\ dig' = [dig EXCEPT ![w] = d]
    /\ contended' = IF \E v \in Writers : Busy(v) /\ dig[v] = d
                    THEN contended \cup {d} ELSE contended
    /\ UNCHANGED <<path, tmp, content, fd, pos, crashes, failed>>

\* put(): `if not path.exists()' is true.
Check(w, d) ==
    /\ ~Busy(w)
    /\ path[d] = NoInode
    /\ pc' = [pc EXCEPT ![w] = "open"]
    /\ dig' = [dig EXCEPT ![w] = d]
    /\ contended' = IF \E v \in Writers : Busy(v) /\ dig[v] = d
                    THEN contended \cup {d} ELSE contended
    /\ UNCHANGED <<path, tmp, content, fd, pos, crashes, failed>>

\* Variant: the bytes are written under the final name, without staging.
OpenInPlace(w) ==
    /\ pc[w] = "open"
    /\ \E i \in IF tmp[dig[w]] = NoInode THEN Unused(dig[w]) ELSE {tmp[dig[w]]} :
          /\ tmp' = [tmp EXCEPT ![dig[w]] = i]
          /\ path' = [path EXCEPT ![dig[w]] = i]
          /\ content' = [content EXCEPT ![dig[w]][i] = {}]
          /\ fd' = [fd EXCEPT ![w] = i]
    /\ pc' = [pc EXCEPT ![w] = "write"]
    /\ UNCHANGED <<dig, pos, crashes, contended, failed>>

\* write_bytes(): open(..., "wb") creates the staging file or truncates the
\* one it finds, whoever left it there.
Open(w) ==
    /\ pc[w] = "open"
    /\ \E i \in IF tmp[dig[w]] = NoInode THEN Unused(dig[w]) ELSE {tmp[dig[w]]} :
          /\ tmp' = [tmp EXCEPT ![dig[w]] = i]
          /\ content' = [content EXCEPT ![dig[w]][i] = {}]
          /\ fd' = [fd EXCEPT ![w] = i]
    /\ pc' = [pc EXCEPT ![w] = "write"]
    /\ UNCHANGED <<path, dig, pos, crashes, contended, failed>>

\* write_bytes(): the next part of the bytes, at this writer's own offset.
Write(w) ==
    /\ pc[w] = "write"
    /\ pos[w] < NChunks
    /\ content' = [content EXCEPT ![dig[w]][fd[w]] = @ \cup {pos[w] + 1}]
    /\ pos' = [pos EXCEPT ![w] = @ + 1]
    /\ UNCHANGED <<path, tmp, pc, dig, fd, crashes, contended, failed>>

\* Variant: the file is renamed before its last part is written.
CloseEarly(w) ==
    /\ pc[w] = "write"
    /\ pos[w] \in {NChunks - 1, NChunks}
    /\ fd' = [fd EXCEPT ![w] = NoInode]
    /\ pos' = [pos EXCEPT ![w] = 0]
    /\ pc' = [pc EXCEPT ![w] = "replace"]
    /\ UNCHANGED <<path, tmp, content, dig, crashes, contended, failed>>

\* write_bytes() has written everything and closes the file.
Close(w) ==
    /\ pc[w] = "write"
    /\ pos[w] = NChunks
    /\ fd' = [fd EXCEPT ![w] = NoInode]
    /\ pos' = [pos EXCEPT ![w] = 0]
    /\ pc' = [pc EXCEPT ![w] = "replace"]
    /\ UNCHANGED <<path, tmp, content, dig, crashes, contended, failed>>

\* tmp_path.replace(path): the staging name moves, whatever inode it names by
\* now, and put() returns.
Replace(w) ==
    /\ pc[w] = "replace"
    /\ tmp[dig[w]] # NoInode
    /\ path' = [path EXCEPT ![dig[w]] = tmp[dig[w]]]
    /\ tmp' = [tmp EXCEPT ![dig[w]] = NoInode]
    /\ pc' = [pc EXCEPT ![w] = "idle"]
    /\ UNCHANGED <<content, dig, fd, pos, crashes, contended, failed>>

\* tmp_path.replace(path) finds no staging file: FileNotFoundError.
ReplaceFails(w) ==
    /\ pc[w] = "replace"
    /\ tmp[dig[w]] = NoInode
    /\ failed' = failed \cup {dig[w]}
    /\ pc' = [pc EXCEPT ![w] = "idle"]
    /\ UNCHANGED <<path, tmp, content, dig, fd, pos, crashes, contended>>

\* Variant: put() gives up and leaves its file open.
CrashLeaking(w) ==
    /\ Busy(w)
    /\ crashes < MaxCrashes
    /\ crashes' = crashes + 1
    /\ pc' = [pc EXCEPT ![w] = "idle"]
    /\ UNCHANGED <<path, tmp, content, dig, fd, pos, contended, failed>>

\* The process dies inside put(); what it staged stays where it is.  The same
\* writer may start again.
Crash(w) ==
    /\ Busy(w)
    /\ crashes < MaxCrashes
    /\ crashes' = crashes + 1
    /\ pc' = [pc EXCEPT ![w] = "idle"]
    /\ fd' = [fd EXCEPT ![w] = NoInode]
    /\ pos' = [pos EXCEPT ![w] = 0]
    /\ UNCHANGED <<path, tmp, content, dig, contended, failed>>

Next == \E w \in Writers :
            \/ \E d \in Digests : PutStored(w, d) \/ Check(w, d)
            \/ Open(w)
            \/ Write(w)
            \/ Close(w)
            \/ Replace(w)
            \/ ReplaceFails(w)
            \/ Crash(w)

Spec == Init /\ [][Next]_vars

-----------------------------------------------------------------------------
\* has(d) answers True; get(d) returns all of the bytes.
Linked(d) == path[d] # NoInode
Whole(d) == Linked(d) /\ content[d][path[d]] = Chunks

InFlight(d) == \E w \in Writers : Busy(w) /\ dig[w] = d

\* The types of the variables; an open file is one of the digest's inodes.
TypeOK ==
    /\ path \in [Digests -> Inodes \cup {NoInode}]
    /\ tmp \in [Digests -> Inodes \cup {NoInode}]
    /\ content \in [Digests -> [Inodes -> SUBSET Chunks]]
    /\ pc \in [Writers -> {"idle", "open", "write", "replace"}]
    /\ dig \in [Writers -> Digests]
    /\ fd \in [Writers -> Inodes \cup {NoInode}]
    /\ pos \in [Writers -> 0 .. NChunks]
    /\ crashes \in 0 .. MaxCrashes
    /\ contended \in SUBSET Digests
    /\ failed \in SUBSET Digests
    /\ \A w \in Writers : pc[w] = "write" <=> fd[w] # NoInode
    /\ \A w \in Writers : pc[w] # "write" => pos[w] = 0

\* A blob that is visible is whole, crashes included, as long as no two puts of
\* the same bytes were ever in flight together: the staging file a crash left
\* behind is truncated before it is renamed.
UncontendedIntact == \A d \in Digests \ contended : Linked(d) => Whole(d)

\* If no process ever died, a blob is whole once the last put of its bytes has
\* ended, even when puts raced: whoever truncated the shared file rewrote it.
SettledIntact == crashes = 0 => \A d \in Digests : Linked(d) /\ ~InFlight(d) => Whole(d)

\* put() raises (its staging file is gone) only when puts of the same bytes
\* were in flight together: a lone retry after any crash goes through.
OnlyContentionFails == failed \subseteq contended

\* Of what no two puts raced for nothing is torn and nothing fails.
UncontendedSound == UncontendedIntact /\ OnlyContentionFails

\* FileBlobStore implements WriteOnce: a digest goes from absent to whole in
\* one step and then never changes, unless two puts of it raced.
BlobView == [d \in Digests |-> IF d \in contended THEN "shared"
                                ELSE IF ~Linked(d) THEN "absent"
                                ELSE IF Whole(d) THEN "whole" ELSE "torn"]

Promise == INSTANCE WriteOnce WITH blob <- BlobView

StoredOnce == Promise!Spec
=============================================================================

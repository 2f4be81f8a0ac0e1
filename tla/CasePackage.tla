----------------------------- MODULE CasePackage -----------------------------
(***************************************************************************)
(* A case package (casepkg/): what a researcher declares in one file, and  *)
(* the rows of a case that it stands for.                                  *)
(*                                                                         *)
(* A package is the sequence of its declarations, its six collections one  *)
(* after the other, as build_case_contents resolves them.  A declaration   *)
(* cites others by their local ids; the row it becomes cites them by their *)
(* ids, which for most kinds are hashes: Identity keeps what is hashed.    *)
(***************************************************************************)
EXTENDS Integers, Sequences, SequencesExt

CONSTANTS
    NoSource,       \* no source is declared
    Rank,           \* Rank[c]: the place, in the order of ids, of what holds c
    Size,           \* Size[c]: the bytes of content c
    MaxDeclared,    \* MAX_TOTAL_DECLARED_OBJECTS
    MaxContent,     \* MAX_EVIDENCE_CONTENT_BYTES
    MaxMember       \* MAX_ARCHIVE_MEMBER_UNCOMPRESSED_BYTES

ASSUME LimitsAssumption == MaxDeclared \in Nat /\ MaxContent \in Nat /\ MaxMember \in Nat
ASSUME RankAssumption == \A c \in DOMAIN Rank : Rank[c] \in Int
ASSUME SizeAssumption == Size \in [DOMAIN Rank -> Nat]

\* In the order in which build_case_contents takes the collections.
KindOrder == <<"evidence", "event", "entity", "relationship", "assertion", "hypothesis">>
Kinds == Range(KindOrder)

\* The kinds that what is cited in a role may have.
Permitted == [derived |-> {"evidence", "event"},
              source |-> {"entity"},
              target |-> {"entity"},
              subject |-> {"event"},
              grounds |-> {"evidence"},
              evidence_item |-> {"evidence"},
              normalized_event |-> {"event"}]

\* The roles in which a declaration of each kind cites.
RolesOf == [evidence |-> {},
            event |-> {"derived"},
            entity |-> {"derived"},
            relationship |-> {"source", "target", "derived"},
            assertion |-> {"subject", "grounds"},
            hypothesis |-> {"evidence_item", "normalized_event"}]

\* The local ids: none, white space, or one that names what is declared.
NoId == [how |-> "none"]
Blank == [how |-> "blank"]
Named(id) == [how |-> "named", id |-> id]

(***************************************************************************)
(* The fields of a declaration d are its kind and local id; cites, a set   *)
(* of [role, local] records; content, what else is declared; source, the   *)
(* declared source of an evidence item; and sound, whether the models of   *)
(* the core accept its content.  Those of a row are kind and id; cites, a  *)
(* set of [role, id] records; content; and sources, the source ids in the  *)
(* chain of custody.  The evidence of a hypothesis is cited in the role of *)
(* an evidence_item or of a normalized_event.                              *)
(***************************************************************************)

\* The id of the row: declared or generated, or a hash of its contents.
Identity(d, cites, n) ==
    IF d.kind \in {"entity", "hypothesis"}
    THEN IF d.local = NoId THEN [generated |-> n] ELSE d.local.id
    ELSE [kind |-> d.kind, content |-> d.content, cites |-> cites]

\* The row of declaration d, the n-th of its package, whose citations resolve
\* to cites.
Object(d, cites, n) ==
    [kind |-> d.kind, id |-> Identity(d, cites, n), cites |-> cites,
     content |-> d.content,
     sources |-> IF d.kind = "evidence" /\ d.source # NoSource THEN {d.source} ELSE {}]

\* r and o are the same row.
SameRow(r, o) == r.kind = o.kind /\ r.id = o.id

Key(r) == <<r.kind, r.id>>
Keys(rows) == {Key(r) : r \in rows}

\* rows after put_*() of every object: an entity or a hypothesis replaces the
\* row of its id, evidence adds to the chain of custody, all else is the same.
Merged(rows, objects) ==
    {r \in rows : \A o \in objects : ~SameRow(r, o)}
    \cup {[o EXCEPT !.sources = UNION {r.sources : r \in {q \in rows \cup objects : SameRow(q, o)}}] :
            o \in objects}

\* The models of the core accept d, and no evidence item is too large. (Neither
\* an ingest nor an export looks at its size.)
Acceptable(d) == d.sound /\ (d.kind = "evidence" => Size[d.content] <= MaxContent)

\* The bytes of the text of package q, of which content makes the most.
TextSize(q) == FoldLeft(LAMBDA sum, d : sum + Size[d.content], 0, q)

\* What the fields of a declaration can hold.
Declarable(d) ==
    /\ d.kind \in Kinds
    /\ d.content \in DOMAIN Rank
    /\ \A c \in d.cites : c = [role |-> c.role, local |-> c.local] /\ c.role \in RolesOf[d.kind]

\* What those of a row can: nothing but evidence has a chain of custody, and what
\* has no declared or generated id has a hash.
Storable(r) ==
    /\ r = [kind |-> r.kind, id |-> r.id, cites |-> r.cites, content |-> r.content,
            sources |-> r.sources]
    /\ r.kind \in Kinds
    /\ r.content \in DOMAIN Rank
    /\ \A c \in r.cites : c = [role |-> c.role, id |-> c.id] /\ c.role \in RolesOf[r.kind]
    /\ NoSource \notin r.sources
    /\ r.kind # "evidence" => r.sources = {}
    /\ r.kind \notin {"entity", "hypothesis"} =>
          r.id = [kind |-> r.kind, content |-> r.content, cites |-> r.cites]

\* Everything that the rows cite is among them; their evidence has its bytes.
Closed(rows, blobs) ==
    \A r \in rows :
        /\ \A c \in r.cites : \E q \in rows : q.id = c.id /\ q.kind \in Permitted[c.role]
        /\ r.kind = "evidence" => r.content \in blobs

-----------------------------------------------------------------------------
\* sorted(store.list_*(), key=id).  What holds the same comes in either order: no
\* more is known of ids than what they are made of.
Listings(table) ==
    {list \in SetToSeqs(table) :
        \A i, j \in DOMAIN list : i < j => Rank[list[i].content] <= Rank[list[j].content]}

\* Variant: the declared source is left out, as the rest of the custody is.
AnyOfNone(sources) == {NoSource}

\* The next(iter()) of a set: whichever comes first.
AnyOf(sources) == IF sources = {} THEN {NoSource} ELSE sources

\* The declaration of row r with the given source: its local id is its id, and the
\* core has accepted its content before.
Declaration(r, source) ==
    [kind |-> r.kind, local |-> Named(r.id), content |-> r.content, source |-> source,
     cites |-> {[role |-> c.role, local |-> Named(c.id)] : c \in r.cites}, sound |-> TRUE]

\* The source that is declared of each row.
Origins(table) ==
    {f \in [table -> UNION {AnyOf(r.sources) : r \in table}] :
        \A r \in table : f[r] \in AnyOf(r.sources)}

OfKind(rows, kind) == {r \in rows : r.kind = kind}

\* What export_case_package may declare of the rows of a kind.
Declarations(rows, kind) ==
    {[i \in DOMAIN list |-> Declaration(list[i], source[list[i]])] :
        list \in Listings(OfKind(rows, kind)), source \in Origins(OfKind(rows, kind))}

-----------------------------------------------------------------------------
(***************************************************************************)
(* For comparison, what a package means, whatever the order in which it is *)
(* resolved.                                                               *)
(***************************************************************************)

\* The positions of package q that citation c of its n-th declaration may mean.
Meant(q, n, c) ==
    {i \in 1 .. n - 1 : /\ q[i].local = c.local /\ q[i].local # NoId
                       /\ q[i].kind \in Permitted[c.role]}

\* Local ids are unique in the whole package and not blank; every citation
\* means an earlier declaration of a permitted kind; the content is acceptable.
WellFormed(q) ==
    /\ Len(q) <= MaxDeclared
    /\ \A n \in DOMAIN q :
        /\ Acceptable(q[n])
        /\ q[n].local # Blank
        /\ \A i \in DOMAIN q : i # n /\ q[i].local = q[n].local => q[n].local = NoId
        /\ \A c \in q[n].cites : Meant(q, n, c) # {}

\* The rows that a well-formed package declares.
Everything(q) ==
    LET row[n \in DOMAIN q] ==
            Object(q[n],
                   {[role |-> c.role, id |-> row[CHOOSE i \in Meant(q, n, c) : TRUE].id] :
                        c \in q[n].cites}, n)
    IN {row[n] : n \in DOMAIN q}
=============================================================================

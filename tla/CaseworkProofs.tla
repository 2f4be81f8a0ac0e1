---------------------------- MODULE CaseworkProofs ----------------------------
(***************************************************************************)
(* What Casework's run checks on a small case, for any processes, ids and  *)
(* commands: types, references, kept rows, changes and manifests.          *)
(*                                                                         *)
(* Rows are never taken away (Kept), so what a command has looked up is    *)
(* still there when it writes (Looked).  That rests in turn on what the    *)
(* writes that replace a row may replace: an id is generated once (Fresh,  *)
(* Apart), and a change writes back an extension of a row that began as    *)
(* the present one does (Read).  That it extends the present one needs     *)
(* that no other change is under way (Alone).  What was read of the tables *)
(* is true of them still while nobody writes (Calm).                       *)
(***************************************************************************)
EXTENDS Casework, TLAPS

\* What a command has cited is there, or yet to be looked up.
Looked ==
    \A p \in Procs : pc[p] \in {"get", "look"} =>
        \A i \in 1 .. Len(LookUps(cmd[p])) :
            \/ IsThere(LookUps(cmd[p])[i][1], LookUps(cmd[p])[i][2])
            \/ \E j \in 1 .. Len(todo[p]) : todo[p][j] = LookUps(cmd[p])[i]

\* The ids that commands under way have generated have no row ...
Fresh ==
    \A p \in Procs : pc[p] = "look" =>
        /\ cmd[p].do = "entity" => tables.entities[cmd[p].id] = <<>>
        /\ cmd[p].do = "propose" => tables.hypotheses[cmd[p].id] = NoHypothesis

\* ... and are not the same.
Apart ==
    \A p, q \in Procs :
        /\ p # q /\ pc[p] = "look" /\ pc[q] = "look"
        /\ cmd[p].do = cmd[q].do /\ cmd[p].do \in {"entity", "propose"}
        => cmd[p].id # cmd[q].id

\* Every hypothesis was proposed with evidence.
Proposed ==
    \A h \in Hypotheses : tables.hypotheses[h] # NoHypothesis =>
        tables.hypotheses[h].supporting # <<>>

\* A hypothesis that is about to be changed is there, and what was read of it
\* begins as it does and resolves.
Read ==
    \A p \in Procs : pc[p] = "look" /\ cmd[p].do = "change" =>
        /\ tables.hypotheses[cmd[p].id] # NoHypothesis
        /\ seen[p].supporting # <<>>
        /\ Head(seen[p].supporting) = Head(tables.hypotheses[cmd[p].id].supporting)
        /\ Resolve(tables, seen[p].supporting)
        /\ Resolve(tables, seen[p].contradicting)

\* Changes of a hypothesis that did not overlap know its row.
Alone ==
    \A p \in Procs, h \in Hypotheses \ contended : Changing(p, h) =>
        /\ seen[p] = tables.hypotheses[h]
        /\ \A q \in Procs : Changing(q, h) => q = p

\* Only what was proposed has been changed.
Backed == \A h \in Hypotheses : added[h] # {} => tables.hypotheses[h] # NoHypothesis

\* The tables that compute_manifest has read when p is at a stage.
Before ==
    [evidence |-> {}, events |-> {"evidence"}, entities |-> {"evidence", "events"},
     relationships |-> {"evidence", "events", "entities"},
     assertions |-> {"evidence", "events", "entities", "relationships"},
     hypotheses |-> {"evidence", "events", "entities", "relationships", "assertions"},
     listed |-> DOMAIN AfterReading, record |-> DOMAIN AfterReading]

\* While nobody else writes, what has been read is what is there.
Calm ==
    \A p \in Procs : calm[p] /\ pc[p] \in DOMAIN Before =>
        \A k \in Before[pc[p]] : snap[p][k] = Hashed(tables)[k]

\* No row changes, and no command that is yet to write.
Resting ==
    /\ tables' = tables
    /\ \A p \in Procs : pc'[p] \in {"get", "look"} =>
          pc'[p] = pc[p] /\ cmd'[p] = cmd[p] /\ todo'[p] = todo[p] /\ seen'[p] = seen[p]

RowInv == TypeOK /\ ReferencesResolve /\ Looked /\ Fresh /\ Apart /\ Proposed /\ Read
ChangeInv == RowInv /\ Alone /\ Backed /\ ChangesKept
ManifestInv == TypeOK /\ Calm /\ ManifestCurrent

-----------------------------------------------------------------------------
\* What the kinds of commands hold.
LEMMA CommandParts ==
    ASSUME NEW c \in Commands
    PROVE  /\ c.do \in {"ingest", "entity", "relationship", "assertion", "propose",
                        "change", "verify"}
           /\ c.do = "ingest" => c.facts \subseteq Facts
           /\ c.do = "entity" => c.id \in Entities /\ c.from \in Cited
           /\ c.do = "relationship" => c.claim \in Relationships
           /\ c.do = "assertion" => c.claim \in Assertions
           /\ c.do \in {"propose", "change"} => c.id \in Hypotheses /\ c.refs \in Cited
           /\ c.do = "change" => c.status \in {"supported", "contradicted"}
BY DEF Commands

\* What the claims hold, and what is cited.
LEMMA ClaimParts ==
    /\ \A r \in Relationships : r.source \in Entities /\ r.target \in Entities /\ r.from \in Cited
    /\ \A a \in Assertions : a.subject \in Facts /\ a.evidence \in Facts
    /\ \A s \in Cited : s \in Seq(Facts) /\ s # <<>> /\ Len(s) > 0
BY RelationshipsAssumption, AssertionsAssumption, CitedAssumption

LEMMA AmongFacts ==
    ASSUME NEW ids \in Seq(Facts \cup Entities), NEW where \in SUBSET {"evidence", "events", "entities"}
    PROVE  /\ Among(ids, where) \in Seq(Citations)
           /\ Len(Among(ids, where)) = Len(ids)
           /\ \A i \in 1 .. Len(ids) : Among(ids, where)[i] = <<ids[i], where>>
<1>1. DOMAIN ids = 1 .. Len(ids) /\ Len(ids) \in Nat
  OBVIOUS
<1>2. \A i \in 1 .. Len(ids) : <<ids[i], where>> \in Citations
  <2> TAKE i \in 1 .. Len(ids)
  <2>1. ids[i] \in Facts \cup Entities
    OBVIOUS
  <2> QED BY <2>1 DEF Citations
<1>3. Among(ids, where) \in [1 .. Len(ids) -> Citations]
  BY <1>1, <1>2 DEF Among
<1> QED BY <1>1, <1>3 DEF Among

\* What a command looks up, by its kind.
LEMMA LookUpsByKind ==
    ASSUME NEW c \in Commands
    PROVE  /\ c.do = "entity" => LookUps(c) = Among(c.from, Anywhere)
           /\ c.do = "relationship" =>
                LookUps(c) = Among(<<c.claim.source, c.claim.target>>, {"entities"})
                               \o Among(c.claim.from, Anywhere)
           /\ c.do = "assertion" =>
                LookUps(c) = <<<<c.claim.subject, {"events"}>>, <<c.claim.evidence, {"evidence"}>>>>
           /\ c.do \in {"propose", "change"} => LookUps(c) = Among(c.refs, Anywhere)
           /\ c.do \in {"ingest", "verify"} => LookUps(c) = <<>>
<1>1. ASSUME c.do = "entity" PROVE LookUps(c) = Among(c.from, Anywhere)
  BY <1>1, Zenon DEF LookUps
<1>2. ASSUME c.do = "relationship"
      PROVE  LookUps(c) = Among(<<c.claim.source, c.claim.target>>, {"entities"})
                            \o Among(c.claim.from, Anywhere)
  BY <1>2, Zenon DEF LookUps
<1>3. ASSUME c.do = "assertion"
      PROVE  LookUps(c) = <<<<c.claim.subject, {"events"}>>, <<c.claim.evidence, {"evidence"}>>>>
  BY <1>3, Zenon DEF LookUps
<1>4. ASSUME c.do \in {"propose", "change"} PROVE LookUps(c) = Among(c.refs, Anywhere)
  BY <1>4, Zenon DEF LookUps
<1>5. ASSUME c.do \in {"ingest", "verify"} PROVE LookUps(c) = <<>>
  BY <1>5, Zenon DEF LookUps
<1> QED BY <1>1, <1>2, <1>3, <1>4, <1>5, Zenon

LEMMA LookUpsAreCitations ==
    ASSUME NEW c \in Commands
    PROVE  LookUps(c) \in Seq(Citations)
<1>1. CASE c.do \in {"entity", "propose", "change"}
  <2>1. PICK s \in Cited : LookUps(c) = Among(s, Anywhere)
    BY <1>1, CommandParts, LookUpsByKind
  <2>2. s \in Seq(Facts \cup Entities)
    BY CitedAssumption
  <2>3. Anywhere \in SUBSET {"evidence", "events", "entities"}
    BY DEF Anywhere
  <2> QED BY <2>1, <2>2, <2>3, AmongFacts
<1>2. CASE c.do = "relationship"
  <2>1. c.claim.source \in Entities /\ c.claim.target \in Entities /\ c.claim.from \in Cited
    BY <1>2, CommandParts, ClaimParts
  <2>2. c.claim.from \in Seq(Facts \cup Entities)
    BY <2>1, CitedAssumption
  <2>3. <<c.claim.source, c.claim.target>> \in Seq(Facts \cup Entities)
    BY <2>1
  <2>4. /\ Among(<<c.claim.source, c.claim.target>>, {"entities"}) \in Seq(Citations)
        /\ Among(c.claim.from, Anywhere) \in Seq(Citations)
    BY <2>2, <2>3, AmongFacts DEF Anywhere
  <2>5. LookUps(c) = Among(<<c.claim.source, c.claim.target>>, {"entities"})
                       \o Among(c.claim.from, Anywhere)
    BY <1>2, LookUpsByKind
  <2> QED BY <2>4, <2>5
<1>3. CASE c.do = "assertion"
  <2>1. c.claim.subject \in Facts /\ c.claim.evidence \in Facts
    BY <1>3, CommandParts, ClaimParts
  <2>2. /\ <<c.claim.subject, {"events"}>> \in Citations
        /\ <<c.claim.evidence, {"evidence"}>> \in Citations
    BY <2>1 DEF Citations
  <2>3. LookUps(c) = <<<<c.claim.subject, {"events"}>>, <<c.claim.evidence, {"evidence"}>>>>
    BY <1>3, LookUpsByKind
  <2> QED BY <2>2, <2>3
<1>4. CASE c.do \in {"ingest", "verify"}
  <2>1. LookUps(c) = <<>>
    BY <1>4, LookUpsByKind
  <2> QED BY <2>1
<1> QED BY <1>1, <1>2, <1>3, <1>4, CommandParts

-----------------------------------------------------------------------------
(***************************************************************************)
(* Types.                                                                  *)
(***************************************************************************)
LEMMA HashedManifest ==
    ASSUME NEW t \in Tables
    PROVE  Hashed(t) \in Manifests
BY DEF Tables, Manifests, Hashed

LEMMA WrittenTables ==
    ASSUME NEW c \in Commands, NEW read, tables \in Tables, started \in Nat,
           c.do = "change" => read \in Rows, Write(c, read)
    PROVE  tables' \in Tables
<1>1. CASE c.do = "ingest"
  <2>1. tables' = [tables EXCEPT !.evidence = @ \cup (c.facts \cap EvidenceItems),
                                 !.events = @ \cup (c.facts \cap Events)]
    BY <1>1 DEF Write
  <2> QED BY <2>1 DEF Tables
<1>2. CASE c.do = "entity"
  <2>1. tables' = [tables EXCEPT !.entities[c.id] = c.from]
    BY <1>2 DEF Write
  <2>2. c.from \in Cited
    BY <1>2, CommandParts
  <2> QED BY <2>1, <2>2 DEF Tables
<1>3. CASE c.do = "relationship"
  <2>1. tables' = [tables EXCEPT !.relationships = Claimed(@, c.claim)]
    BY <1>3 DEF Write
  <2>2. Claimed(tables.relationships, c.claim) \in [Relationships -> Nat]
    BY DEF Tables, Claimed
  <2> QED BY <2>1, <2>2 DEF Tables
<1>4. CASE c.do = "assertion"
  <2>1. tables' = [tables EXCEPT !.assertions = Claimed(@, c.claim)]
    BY <1>4 DEF Write
  <2>2. Claimed(tables.assertions, c.claim) \in [Assertions -> Nat]
    BY DEF Tables, Claimed
  <2> QED BY <2>1, <2>2 DEF Tables
<1>5. CASE c.do = "propose"
  <2>1. tables' = [tables EXCEPT !.hypotheses[c.id] = Proposal(c.refs)]
    BY <1>5 DEF Write
  <2>2. c.refs \in Seq(Facts)
    BY <1>5, CommandParts, CitedAssumption
  <2>3. Proposal(c.refs) \in Rows
    BY <2>2 DEF Proposal, Rows, Statuses
  <2> QED BY <2>1, <2>3 DEF Tables
<1>6. CASE c.do = "change"
  <2>1. tables' = [tables EXCEPT !.hypotheses[c.id] = WithStatus(read, c.status, c.refs)]
    BY <1>6 DEF Write
  <2>2. c.refs \in Seq(Facts) /\ c.status \in Statuses
    BY <1>6, CommandParts, CitedAssumption DEF Statuses
  <2>3. WithStatus(read, c.status, c.refs) \in Rows
    <3>1. read \in Rows
      BY <1>6
    <3>2. /\ read.supporting \in Seq(Facts) /\ read.supporting \o c.refs \in Seq(Facts)
          /\ read.contradicting \in Seq(Facts) /\ read.contradicting \o c.refs \in Seq(Facts)
      BY <2>2, <3>1 DEF Rows
    <3> QED BY <2>2, <3>1, <3>2 DEF WithStatus, Rows
  <2> QED BY <2>1, <2>3 DEF Tables
<1> QED BY <1>1, <1>2, <1>3, <1>4, <1>5, <1>6 DEF Write

LEMMA TypesInit == Init => TypeOK
<1> SUFFICES ASSUME Init PROVE TypeOK
  OBVIOUS
<1>1. tables \in Tables
  BY EarlierAssumption DEF Init
<1>2. Hashed(tables) \in Manifests
  BY <1>1, HashedManifest
<1>3. [do |-> "verify"] \in Commands
  BY DEF Commands
<1>4. \A p \in Procs : pc[p] = "idle"
  BY DEF Init
<1> QED BY <1>1, <1>2, <1>3, <1>4, MaxCommandsIsNat DEF Init, TypeOK, Stages

LEMMA TypesStep == TypeOK /\ [Next]_vars => TypeOK'
<1> SUFFICES ASSUME TypeOK, [Next]_vars PROVE TypeOK'
  OBVIOUS
<1>0. started \in Nat
  BY MaxCommandsIsNat DEF TypeOK
<1>1. CASE UNCHANGED vars
  BY <1>1 DEF vars, TypeOK
<1>2. ASSUME NEW p \in Procs, Abort(p) PROVE TypeOK'
  BY <1>2 DEF Abort, TypeOK, Stages
<1>3. ASSUME NEW p \in Procs, NEW c \in Commands, Begin(p, c) PROVE TypeOK'
  <2>1. LookUps(c) \in Seq(Citations)
    BY LookUpsAreCitations
  <2>2. First(c) \in Stages \cup DOMAIN AfterReading
    BY DEF First, Stages, AfterReading
  <2>3. /\ First(c) = "get" => c.do = "change"
        /\ First(c) = "look" => c.do # "verify" /\ c.do # "change"
        /\ First(c) # "record"
    BY DEF First
  <2>4. started' \in 0 .. MaxCommands
    BY <1>0, <1>3, MaxCommandsIsNat DEF Begin
  <2> QED BY <1>3, <2>1, <2>2, <2>3, <2>4 DEF Begin, TypeOK
<1>4. ASSUME NEW p \in Procs, GetHypothesis(p) PROVE TypeOK'
  <2>1. cmd[p].do = "change" /\ cmd[p].id \in Hypotheses
    BY <1>4, CommandParts DEF GetHypothesis, TypeOK
  <2>2. seen' \in [Procs -> Rows \cup {NoHypothesis}] /\ seen'[p] # NoHypothesis
    BY <1>4, <2>1 DEF GetHypothesis, TypeOK, Tables
  <2>3. contended' \in SUBSET Hypotheses
    BY <1>4, <2>1 DEF GetHypothesis, TypeOK
  <2> QED BY <1>4, <2>1, <2>2, <2>3 DEF GetHypothesis, TypeOK, Stages
<1>5. ASSUME NEW p \in Procs, LookUp(p) PROVE TypeOK'
  <2>1. Tail(todo[p]) \in Seq(Citations)
    BY <1>5 DEF LookUp, TypeOK
  <2> QED BY <1>5, <2>1 DEF LookUp, TypeOK
<1>6. ASSUME NEW p \in Procs, Put(p) PROVE TypeOK'
  <2>1. cmd[p] \in Commands /\ (cmd[p].do = "change" => seen[p] \in Rows)
    BY <1>6 DEF Put, TypeOK
  <2>2. tables' \in Tables
    BY <1>0, <1>6, <2>1, WrittenTables DEF Put, TypeOK
  <2>3. added' \in [Hypotheses -> SUBSET (Statuses \X Facts)]
    <3>1. CASE cmd[p].do = "change"
      <4>1. /\ cmd[p].id \in Hypotheses /\ cmd[p].status \in Statuses
            /\ cmd[p].refs \in Seq(Facts)
        BY <2>1, <3>1, CommandParts, CitedAssumption DEF Statuses
      <4>2. Range(cmd[p].refs) \subseteq Facts
        BY <4>1 DEF Range
      <4>3. {<<cmd[p].status, r>> : r \in Range(cmd[p].refs)} \subseteq Statuses \X Facts
        BY <4>1, <4>2
      <4> QED BY <1>6, <3>1, <4>1, <4>3 DEF Put, TypeOK
    <3>2. CASE cmd[p].do # "change"
      BY <1>6, <3>2 DEF Put, TypeOK
    <3> QED BY <3>1, <3>2
  <2> QED BY <1>6, <2>2, <2>3 DEF Put, TypeOK, Stages, AfterReading
<1>7. ASSUME NEW p \in Procs, ReadTable(p) PROVE TypeOK'
  <2>1. Hashed(tables) \in Manifests /\ snap[p] \in Manifests
    BY HashedManifest DEF TypeOK
  <2>2. pc[p] \in {"evidence", "events", "entities", "relationships", "assertions",
                   "hypotheses"}
    BY <1>7 DEF ReadTable, AfterReading
  <2>3. [snap[p] EXCEPT ![pc[p]] = Hashed(tables)[pc[p]]] \in Manifests
    BY <2>1, <2>2 DEF Manifests
  <2>4. snap' \in [Procs -> Manifests]
    BY <1>7, <2>3 DEF ReadTable, TypeOK
  <2>5. /\ AfterReading[pc[p]] \in DOMAIN AfterReading \cup Stages
        /\ AfterReading[pc[p]] \notin {"get", "look", "record"}
    BY <2>2 DEF AfterReading, Stages
  <2> QED BY <1>7, <2>4, <2>5 DEF ReadTable, TypeOK
<1>8. ASSUME NEW p \in Procs, TruncateManifest(p) PROVE TypeOK'
  BY <1>8 DEF TruncateManifest, TypeOK, Stages
<1>9. ASSUME NEW p \in Procs, WriteManifest(p) PROVE TypeOK'
  BY <1>9 DEF WriteManifest, TypeOK, Stages
<1>10. ASSUME NEW p \in Procs, Compare(p) PROVE TypeOK'
  <2>1. Verdict(snap[p], manifest) \in {"MATCH", "MISMATCH", "error"}
    BY DEF Verdict
  <2> QED BY <1>10, <2>1 DEF Compare, TypeOK, Stages
<1> QED BY <1>1, <1>2, <1>3, <1>4, <1>5, <1>6, <1>7, <1>8, <1>9, <1>10
        DEF Next, Step, NoSuchHypothesis, Unknown, Invalid, Interrupt, Finished

\* Every step keeps the types, for any processes, ids and commands.
THEOREM CaseworkTypes == Spec => []TypeOK
BY TypesInit, TypesStep, PTL DEF Spec

-----------------------------------------------------------------------------
(***************************************************************************)
(* Rows.                                                                   *)
(***************************************************************************)

LEMMA Pair ==
    ASSUME NEW S, NEW x \in S, NEW y \in S
    PROVE  /\ <<x, y>> \in Seq(S) /\ Len(<<x, y>>) = 2
           /\ <<x, y>>[1] = x /\ <<x, y>>[2] = y
           /\ 1 \in 1 .. Len(<<x, y>>) /\ 2 \in 1 .. Len(<<x, y>>)
OBVIOUS

\* A command that has looked up everything has found everything ...
LEMMA FoundAll ==
    ASSUME TypeOK, Looked, NEW p \in Procs, pc[p] = "look", todo[p] = <<>>
    PROVE  \A i \in 1 .. Len(LookUps(cmd[p])) :
               IsThere(LookUps(cmd[p])[i][1], LookUps(cmd[p])[i][2])
<1>1. 1 .. Len(todo[p]) = {}
  OBVIOUS
<1> QED BY <1>1 DEF Looked

\* ... where it should be.
LEMMA Found ==
    ASSUME TypeOK, Looked, NEW p \in Procs, pc[p] = "look", todo[p] = <<>>
    PROVE  /\ cmd[p].do = "entity" => Resolve(tables, cmd[p].from)
           /\ cmd[p].do = "relationship" =>
                /\ tables.entities[cmd[p].claim.source] # <<>>
                /\ tables.entities[cmd[p].claim.target] # <<>>
                /\ Resolve(tables, cmd[p].claim.from)
           /\ cmd[p].do = "assertion" => /\ cmd[p].claim.subject \in tables.events
                                         /\ cmd[p].claim.evidence \in tables.evidence
           /\ cmd[p].do \in {"propose", "change"} => Resolve(tables, cmd[p].refs)
<1> DEFINE c == cmd[p]
<1>0. c \in Commands
  BY DEF TypeOK
<1>1. \A id : IsThere(id, Anywhere) => id \in tables.evidence \cup tables.events
  BY DEF IsThere, Anywhere
<1>2. ASSUME NEW s \in Cited, NEW l, l \in Seq(Citations), NEW k \in Nat,
             \A i \in 1 .. Len(l) : IsThere(l[i][1], l[i][2]),
             \A i \in 1 .. Len(s) : k + i \in 1 .. Len(l) /\ l[k + i] = <<s[i], Anywhere>>
      PROVE  Resolve(tables, s)
  <2>1. s \in Seq(Facts) /\ DOMAIN s = 1 .. Len(s)
    BY CitedAssumption
  <2>2. ASSUME NEW i \in 1 .. Len(s) PROVE s[i] \in tables.evidence \cup tables.events
    <3>1. IsThere(<<s[i], Anywhere>>[1], <<s[i], Anywhere>>[2])
      BY <1>2
    <3> QED BY <1>1, <3>1
  <2> QED BY <2>1, <2>2 DEF Resolve
<1>3. ASSUME NEW s \in Cited, LookUps(c) = Among(s, Anywhere) PROVE Resolve(tables, s)
  <2>1. s \in Seq(Facts \cup Entities) /\ Anywhere \in SUBSET {"evidence", "events", "entities"}
    BY CitedAssumption DEF Anywhere
  <2>2. /\ Among(s, Anywhere) \in Seq(Citations) /\ Len(Among(s, Anywhere)) = Len(s)
        /\ \A i \in 1 .. Len(s) : Among(s, Anywhere)[i] = <<s[i], Anywhere>>
    BY <2>1, AmongFacts
  <2>3. \A i \in 1 .. Len(s) : 0 + i \in 1 .. Len(LookUps(c))
                                /\ LookUps(c)[0 + i] = <<s[i], Anywhere>>
    BY <1>3, <2>2
  <2> QED BY <1>2, <1>3, <2>2, <2>3, FoundAll
<1>4. ASSUME c.do = "relationship"
      PROVE  /\ tables.entities[c.claim.source] # <<>>
             /\ tables.entities[c.claim.target] # <<>>
             /\ Resolve(tables, c.claim.from)
  <2>1. PICK x \in Entities, y \in Entities, f \in Cited :
            x = c.claim.source /\ y = c.claim.target /\ f = c.claim.from
    BY <1>0, <1>4, CommandParts, ClaimParts
  <2>2. PICK s : s = <<x, y>>
    OBVIOUS
  <2>3. s \in Seq(Facts \cup Entities) /\ Len(s) = 2 /\ s[1] = x /\ s[2] = y
    BY <2>2, Pair
  <2>4. PICK u : u = Among(s, {"entities"})
    OBVIOUS
  <2>5. /\ u \in Seq(Citations) /\ Len(u) = 2
        /\ u[1] = <<x, {"entities"}>> /\ u[2] = <<y, {"entities"}>>
    BY <2>3, <2>4, AmongFacts
  <2>6. PICK w : w = Among(f, Anywhere)
    OBVIOUS
  <2>7. f \in Seq(Facts \cup Entities) /\ Len(f) \in Nat
    BY CitedAssumption
  <2>8. /\ w \in Seq(Citations) /\ Len(w) = Len(f)
        /\ \A i \in 1 .. Len(f) : w[i] = <<f[i], Anywhere>>
    BY <2>6, <2>7, AmongFacts DEF Anywhere
  <2>9. PICK l : l = u \o w
    OBVIOUS
  <2>10. /\ l \in Seq(Citations) /\ Len(l) = 2 + Len(w)
         /\ \A i \in 1 .. 2 : i \in 1 .. Len(l) /\ l[i] = u[i]
         /\ \A i \in 1 .. Len(w) : 2 + i \in 1 .. Len(l) /\ l[2 + i] = w[i]
    <3>1. /\ l \in Seq(Citations) /\ Len(l) = Len(u) + Len(w)
          /\ \A i \in 1 .. Len(u) : i \in 1 .. Len(l) /\ l[i] = u[i]
          /\ \A i \in 1 .. Len(w) : Len(u) + i \in 1 .. Len(l) /\ l[Len(u) + i] = w[i]
      <4>1. /\ u \o w \in Seq(Citations) /\ Len(u \o w) = Len(u) + Len(w)
            /\ \A i \in 1 .. Len(u) : i \in 1 .. Len(u \o w) /\ (u \o w)[i] = u[i]
            /\ \A i \in 1 .. Len(w) : /\ Len(u) + i \in 1 .. Len(u \o w)
                                      /\ (u \o w)[Len(u) + i] = w[i]
        <5>1. u \in Seq(Citations) /\ w \in Seq(Citations)
          BY <2>5, <2>8
        <5> QED BY <5>1
      <4> QED BY <2>9, <4>1, Zenon
    <3> QED BY <2>5, <3>1
  <2>11. LookUps(c) = l
    BY <1>0, <1>4, <2>1, <2>2, <2>4, <2>6, <2>9, LookUpsByKind
  <2>12. \A i \in 1 .. Len(l) : IsThere(l[i][1], l[i][2])
    BY <2>11, FoundAll
  <2>13. Resolve(tables, f)
    <3>1. \A i \in 1 .. Len(f) : 2 + i \in 1 .. Len(l) /\ l[2 + i] = <<f[i], Anywhere>>
      BY <2>8, <2>10
    <3>2. l \in Seq(Citations) /\ 2 \in Nat
      BY <2>10
    <3> QED BY <1>2, <2>12, <3>1, <3>2
  <2>14. IsThere(x, {"entities"}) /\ IsThere(y, {"entities"})
    <3>1. 1 \in 1 .. Len(l) /\ 2 \in 1 .. Len(l) /\ l[1] = u[1] /\ l[2] = u[2]
      BY <2>10
    <3>2. IsThere(l[1][1], l[1][2]) /\ IsThere(l[2][1], l[2][2])
      BY <2>12, <3>1
    <3> QED BY <2>5, <3>1, <3>2
  <2> QED BY <2>1, <2>13, <2>14 DEF IsThere
<1>5. ASSUME c.do = "assertion"
      PROVE  c.claim.subject \in tables.events /\ c.claim.evidence \in tables.evidence
  <2>1. PICK x \in Facts, y \in Facts : x = c.claim.subject /\ y = c.claim.evidence
    BY <1>0, <1>5, CommandParts, ClaimParts
  <2>2. <<x, {"events"}>> \in Citations /\ <<y, {"evidence"}>> \in Citations
    BY DEF Citations
  <2>3. PICK l : l = <<<<x, {"events"}>>, <<y, {"evidence"}>>>>
    OBVIOUS
  <2>4. /\ l[1] = <<x, {"events"}>> /\ l[2] = <<y, {"evidence"}>>
        /\ 1 \in 1 .. Len(l) /\ 2 \in 1 .. Len(l)
    BY <2>2, <2>3, Pair
  <2>5. LookUps(c) = l
    BY <1>0, <1>5, <2>1, <2>3, LookUpsByKind
  <2>6. IsThere(l[1][1], l[1][2]) /\ IsThere(l[2][1], l[2][2])
    BY <2>4, <2>5, FoundAll
  <2> QED BY <2>1, <2>4, <2>6 DEF IsThere
<1> QED BY <1>0, <1>3, <1>4, <1>5, CommandParts, LookUpsByKind

LEMMA HeadKept ==
    ASSUME NEW S, NEW s \in Seq(S), s # <<>>, NEW t \in Seq(S)
    PROVE  Head(s \o t) = Head(s)
<1>1. Len(s) \in Nat /\ Len(s) # 0 /\ Len(t) \in Nat
  OBVIOUS
<1>2. (s \o t)[1] = s[1]
  BY <1>1
<1> QED BY <1>1, <1>2

\* What replaces a row continues it: nothing is taken away.
LEMMA PutKeeps ==
    ASSUME TypeOK, Fresh, Proposed, Read, NEW p \in Procs, Put(p)
    PROVE  Kept
<1> DEFINE c == cmd[p]
<1>0. /\ c \in Commands /\ pc[p] = "look" /\ Write(c, seen[p]) /\ started \in Nat
      /\ c.do = "change" => seen[p] \in Rows
  BY MaxCommandsIsNat DEF TypeOK, Put
<1>1. CASE c.do = "ingest"
  <2>1. tables' = [tables EXCEPT !.evidence = @ \cup (c.facts \cap EvidenceItems),
                                 !.events = @ \cup (c.facts \cap Events)]
    BY <1>0, <1>1 DEF Write
  <2> QED BY <2>1 DEF TypeOK, Tables, Kept
<1>2. CASE c.do = "entity"
  <2>1. tables' = [tables EXCEPT !.entities[c.id] = c.from]
    BY <1>0, <1>2 DEF Write
  <2>2. tables.entities[c.id] = <<>>
    BY <1>0, <1>2 DEF Fresh
  <2> QED BY <2>1, <2>2 DEF TypeOK, Tables, Kept
<1>3. CASE c.do = "relationship"
  <2>1. tables' = [tables EXCEPT !.relationships = Claimed(@, c.claim)]
    BY <1>0, <1>3 DEF Write
  <2> QED BY <2>1 DEF TypeOK, Tables, Kept, Claimed
<1>4. CASE c.do = "assertion"
  <2>1. tables' = [tables EXCEPT !.assertions = Claimed(@, c.claim)]
    BY <1>0, <1>4 DEF Write
  <2> QED BY <2>1 DEF TypeOK, Tables, Kept, Claimed
<1>5. CASE c.do = "propose"
  <2>1. tables' = [tables EXCEPT !.hypotheses[c.id] = Proposal(c.refs)]
    BY <1>0, <1>5 DEF Write
  <2>2. tables.hypotheses[c.id] = NoHypothesis
    BY <1>0, <1>5 DEF Fresh
  <2> QED BY <2>1, <2>2 DEF TypeOK, Tables, Kept
<1>6. CASE c.do = "change"
  <2> DEFINE row == WithStatus(seen[p], c.status, c.refs)
  <2>1. tables' = [tables EXCEPT !.hypotheses[c.id] = row]
    BY <1>0, <1>6 DEF Write
  <2>2. /\ c.id \in Hypotheses /\ c.refs \in Seq(Facts)
        /\ c.status \in {"supported", "contradicted"}
    BY <1>0, <1>6, CommandParts, CitedAssumption
  <2>3. /\ seen[p].supporting \in Seq(Facts) /\ seen[p].supporting # <<>>
        /\ Head(seen[p].supporting) = Head(tables.hypotheses[c.id].supporting)
    BY <1>0, <1>6 DEF Read, Rows
  <2>4. Head(seen[p].supporting \o c.refs) = Head(seen[p].supporting)
    BY <2>2, <2>3, HeadKept
  <2>5. /\ row.status = c.status
        /\ row.supporting \in {seen[p].supporting, seen[p].supporting \o c.refs}
    BY <1>0, <1>6 DEF WithStatus, Rows
  <2>6. row # NoHypothesis /\ Head(row.supporting) = Head(seen[p].supporting)
    <3>1. NoHypothesis.status = "none"
      BY DEF NoHypothesis
    <3>2. row.status # "none"
      BY <2>2, <2>5
    <3> HIDE DEF row
    <3> QED BY <2>4, <2>5, <3>1, <3>2
  <2> HIDE DEF row
  <2> QED BY <2>1, <2>2, <2>3, <2>6 DEF TypeOK, Tables, Kept
<1> QED BY <1>0, <1>1, <1>2, <1>3, <1>4, <1>5, <1>6, CommandParts DEF Write

LEMMA ResolveKept ==
    ASSUME Kept, NEW ids, Resolve(tables, ids)
    PROVE  Resolve(tables', ids)
BY DEF Kept, Resolve

LEMMA ThereKept ==
    ASSUME TypeOK, Kept, NEW id, NEW where, IsThere(id, where)
    PROVE  IsThere(id, where)'
BY DEF Kept, IsThere, TypeOK, Tables

\* The row that is written refers to what was found, and to what was referred to.
LEMMA PutGrounded ==
    ASSUME TypeOK, ReferencesResolve, Looked, Read, Kept, NEW p \in Procs, Put(p)
    PROVE  ReferencesResolve'
<1> DEFINE c == cmd[p]
<1>0. /\ c \in Commands /\ pc[p] = "look" /\ todo[p] = <<>> /\ Write(c, seen[p])
      /\ c.do = "change" => seen[p] \in Rows
  BY DEF TypeOK, Put
<1> SUFFICES Grounded(tables')
  BY DEF ReferencesResolve
<1>r. \A e \in Entities : Resolve(tables', tables.entities[e])
  BY ResolveKept DEF ReferencesResolve, Grounded
<1>s. \A r \in Relationships : tables.relationships[r] # 0 =>
          /\ r.source # r.target
          /\ tables'.entities[r.source] # <<>> /\ tables'.entities[r.target] # <<>>
          /\ Resolve(tables', r.from)
  BY ResolveKept, ClaimParts DEF ReferencesResolve, Grounded, Kept
<1>t. \A a \in Assertions : tables.assertions[a] # 0 =>
          a.subject \in tables'.events /\ a.evidence \in tables'.evidence
  BY DEF ReferencesResolve, Grounded, Kept
<1>u. \A h \in Hypotheses : /\ Resolve(tables', tables.hypotheses[h].supporting)
                             /\ Resolve(tables', tables.hypotheses[h].contradicting)
  BY ResolveKept DEF ReferencesResolve, Grounded
<1>1. CASE c.do = "ingest"
  <2>1. /\ tables'.entities = tables.entities /\ tables'.relationships = tables.relationships
        /\ tables'.assertions = tables.assertions /\ tables'.hypotheses = tables.hypotheses
    BY <1>0, <1>1 DEF Write, TypeOK, Tables
  <2> QED BY <2>1, <1>r, <1>s, <1>t, <1>u DEF Grounded
<1>2. CASE c.do = "entity"
  <2>1. /\ tables'.entities = [tables.entities EXCEPT ![c.id] = c.from]
        /\ tables'.relationships = tables.relationships
        /\ tables'.assertions = tables.assertions /\ tables'.hypotheses = tables.hypotheses
    BY <1>0, <1>2 DEF Write, TypeOK, Tables
  <2>2. Resolve(tables', c.from)
    BY <1>0, <1>2, Found, ResolveKept
  <2>3. \A e \in Entities : Resolve(tables', tables'.entities[e])
    BY <2>1, <2>2, <1>r DEF TypeOK, Tables
  <2> QED BY <2>1, <2>3, <1>s, <1>t, <1>u DEF Grounded
<1>3. CASE c.do = "relationship"
  <2>1. /\ tables'.entities = tables.entities
        /\ tables'.relationships = Claimed(tables.relationships, c.claim)
        /\ tables'.assertions = tables.assertions /\ tables'.hypotheses = tables.hypotheses
        /\ c.claim.source # c.claim.target
    BY <1>0, <1>3 DEF Write, TypeOK, Tables
  <2>2. /\ tables.entities[c.claim.source] # <<>> /\ tables.entities[c.claim.target] # <<>>
        /\ Resolve(tables', c.claim.from)
    BY <1>0, <1>3, Found, ResolveKept
  <2>3. \A r \in Relationships : tables'.relationships[r] # 0 =>
            tables.relationships[r] # 0 \/ r = c.claim
    BY <2>1 DEF Claimed, TypeOK, Tables
  <2>4. \A r \in Relationships : tables'.relationships[r] # 0 =>
          /\ r.source # r.target
          /\ tables'.entities[r.source] # <<>> /\ tables'.entities[r.target] # <<>>
          /\ Resolve(tables', r.from)
    BY <2>1, <2>2, <2>3, <1>s
  <2> QED BY <2>1, <2>4, <1>r, <1>t, <1>u DEF Grounded
<1>4. CASE c.do = "assertion"
  <2>1. /\ tables'.entities = tables.entities /\ tables'.relationships = tables.relationships
        /\ tables'.assertions = Claimed(tables.assertions, c.claim)
        /\ tables'.hypotheses = tables.hypotheses
        /\ tables'.events = tables.events /\ tables'.evidence = tables.evidence
    BY <1>0, <1>4 DEF Write, TypeOK, Tables
  <2>2. c.claim.subject \in tables.events /\ c.claim.evidence \in tables.evidence
    BY <1>0, <1>4, Found
  <2>3. \A a \in Assertions : tables'.assertions[a] # 0 =>
            tables.assertions[a] # 0 \/ a = c.claim
    BY <2>1 DEF Claimed, TypeOK, Tables
  <2>4. \A a \in Assertions : tables'.assertions[a] # 0 =>
            a.subject \in tables'.events /\ a.evidence \in tables'.evidence
    BY <2>1, <2>2, <2>3, <1>t
  <2> QED BY <2>1, <2>4, <1>r, <1>s, <1>u DEF Grounded
<1>5. CASE c.do \in {"propose", "change"}
  <2> DEFINE row == IF c.do = "propose" THEN Proposal(c.refs)
                    ELSE WithStatus(seen[p], c.status, c.refs)
  <2>1. /\ tables'.entities = tables.entities /\ tables'.relationships = tables.relationships
        /\ tables'.assertions = tables.assertions
        /\ tables'.hypotheses = [tables.hypotheses EXCEPT ![c.id] = row]
    BY <1>0, <1>5 DEF Write, TypeOK, Tables
  <2>2. c.refs \in Seq(Facts) /\ Resolve(tables', c.refs)
    BY <1>0, <1>5, CommandParts, CitedAssumption, Found, ResolveKept
  <2>3. Resolve(tables', row.supporting) /\ Resolve(tables', row.contradicting)
    <3>1. CASE c.do = "propose"
      <4>1. row.supporting = c.refs /\ row.contradicting = <<>>
        BY <3>1 DEF Proposal
      <4>2. Resolve(tables', <<>>)
        BY DEF Resolve
      <4> QED BY <2>2, <4>1, <4>2
    <3>2. CASE c.do = "change"
      <4>1. /\ seen[p].supporting \in Seq(Facts) /\ seen[p].contradicting \in Seq(Facts)
            /\ Resolve(tables', seen[p].supporting) /\ Resolve(tables', seen[p].contradicting)
        BY <1>0, <3>2, ResolveKept DEF Read, Rows
      <4>2. ASSUME NEW s \in Seq(Facts), Resolve(tables', s) PROVE Resolve(tables', s \o c.refs)
        BY <2>2, <4>2 DEF Resolve
      <4>3. /\ row.supporting \in {seen[p].supporting, seen[p].supporting \o c.refs}
            /\ row.contradicting \in {seen[p].contradicting, seen[p].contradicting \o c.refs}
        BY <1>0, <3>2 DEF WithStatus, Rows
      <4> QED BY <4>1, <4>2, <4>3
    <3> QED BY <1>5, <3>1, <3>2
  <2> HIDE DEF row
  <2>4. \A h \in Hypotheses : /\ Resolve(tables', tables'.hypotheses[h].supporting)
                              /\ Resolve(tables', tables'.hypotheses[h].contradicting)
    BY <2>1, <2>3, <1>u DEF TypeOK, Tables
  <2> QED BY <2>1, <2>4, <1>r, <1>s, <1>t DEF Grounded
<1>6. c.do \in {"ingest", "entity", "relationship", "assertion", "propose", "change"}
  BY <1>0 DEF Write
<1> QED BY <1>1, <1>2, <1>3, <1>4, <1>5, <1>6

LEMMA RestingRows ==
    ASSUME RowInv, Resting, TypeOK'
    PROVE  RowInv'
<1>1. ReferencesResolve'
  BY DEF RowInv, Resting, ReferencesResolve, Grounded, Resolve
<1>2. \A id, where : IsThere(id, where)' <=> IsThere(id, where)
  BY DEF Resting, IsThere
<1>3. Looked'
  <2> SUFFICES ASSUME NEW q \in Procs, pc'[q] \in {"get", "look"},
                      NEW i \in 1 .. Len(LookUps(cmd'[q]))
               PROVE  \/ IsThere(LookUps(cmd'[q])[i][1], LookUps(cmd'[q])[i][2])
                      \/ \E j \in 1 .. Len(todo'[q]) : todo'[q][j] = LookUps(cmd'[q])[i]
    BY <1>2 DEF Looked
  <2>1. cmd'[q] = cmd[q] /\ todo'[q] = todo[q] /\ pc'[q] = pc[q]
    BY DEF Resting
  <2> QED BY <2>1 DEF RowInv, Looked
<1>4. Fresh' /\ Apart' /\ Proposed'
  BY DEF RowInv, Resting, Fresh, Apart, Proposed
<1>5. Read'
  BY DEF RowInv, Resting, Read, Resolve
<1> QED BY <1>1, <1>3, <1>4, <1>5 DEF RowInv

LEMMA BeginRows ==
    ASSUME RowInv, NEW p \in Procs, NEW c \in Commands, Begin(p, c), TypeOK'
    PROVE  RowInv'
<1>0. /\ tables' = tables /\ seen' = seen /\ pc' = [pc EXCEPT ![p] = First(c)]
      /\ cmd' = [cmd EXCEPT ![p] = c] /\ todo' = [todo EXCEPT ![p] = LookUps(c)]
      /\ c.do \in {"entity", "propose"} => IsNew(c.id)
      /\ pc \in [Procs -> Stages \cup DOMAIN AfterReading] /\ cmd \in [Procs -> Commands]
      /\ todo \in [Procs -> Seq(Citations)]
  BY DEF Begin, RowInv, TypeOK
<1>f. First(c) = "look" => c.do \notin {"change", "verify"}
  BY DEF First
<1>1. ReferencesResolve' /\ Proposed'
  BY <1>0 DEF RowInv, ReferencesResolve, Grounded, Resolve, Proposed
<1>2. \A id, where : IsThere(id, where)' <=> IsThere(id, where)
  BY <1>0 DEF IsThere
<1>3. Looked'
  <2> SUFFICES ASSUME NEW q \in Procs, pc'[q] \in {"get", "look"},
                      NEW i \in 1 .. Len(LookUps(cmd'[q]))
               PROVE  \/ IsThere(LookUps(cmd'[q])[i][1], LookUps(cmd'[q])[i][2])
                      \/ \E j \in 1 .. Len(todo'[q]) : todo'[q][j] = LookUps(cmd'[q])[i]
    BY <1>2 DEF Looked
  <2>1. CASE q = p
    BY <1>0, <2>1
  <2>2. CASE q # p
    <3>1. cmd'[q] = cmd[q] /\ todo'[q] = todo[q] /\ pc'[q] = pc[q]
      BY <1>0, <2>2
    <3> QED BY <3>1 DEF RowInv, Looked
  <2> QED BY <2>1, <2>2
<1>4. Fresh'
  <2> SUFFICES ASSUME NEW q \in Procs, pc'[q] = "look"
               PROVE  /\ cmd'[q].do = "entity" => tables.entities[cmd'[q].id] = <<>>
                      /\ cmd'[q].do = "propose" => tables.hypotheses[cmd'[q].id] = NoHypothesis
    BY <1>0 DEF Fresh
  <2>1. CASE q = p
    BY <1>0, <2>1, CommandParts DEF IsNew
  <2>2. CASE q # p
    BY <1>0, <2>2 DEF RowInv, Fresh
  <2> QED BY <2>1, <2>2
<1>5. Apart'
  <2> SUFFICES ASSUME NEW q \in Procs, NEW r \in Procs, q # r, pc'[q] = "look",
                      pc'[r] = "look", cmd'[q].do = cmd'[r].do,
                      cmd'[q].do \in {"entity", "propose"}
               PROVE  cmd'[q].id # cmd'[r].id
    BY DEF Apart
  <2>1. CASE q = p
    BY <1>0, <2>1 DEF IsNew
  <2>2. CASE r = p
    BY <1>0, <2>2 DEF IsNew
  <2>3. CASE q # p /\ r # p
    BY <1>0, <2>3 DEF RowInv, Apart
  <2> QED BY <2>1, <2>2, <2>3
<1>6. Read'
  BY <1>0, <1>f DEF RowInv, Read, Resolve
<1> QED BY <1>1, <1>3, <1>4, <1>5, <1>6 DEF RowInv

LEMMA GetHypothesisRows ==
    ASSUME RowInv, NEW p \in Procs, GetHypothesis(p), TypeOK'
    PROVE  RowInv'
<1>0. /\ tables' = tables /\ cmd' = cmd /\ todo' = todo /\ pc[p] = "get"
      /\ pc' = [pc EXCEPT ![p] = "look"]
      /\ seen' = [seen EXCEPT ![p] = tables.hypotheses[cmd[p].id]]
      /\ tables.hypotheses[cmd[p].id] # NoHypothesis
      /\ cmd[p].do = "change" /\ cmd[p].id \in Hypotheses
      /\ pc \in [Procs -> Stages \cup DOMAIN AfterReading]
      /\ seen \in [Procs -> Rows \cup {NoHypothesis}]
  BY CommandParts DEF GetHypothesis, RowInv, TypeOK
<1>1. ReferencesResolve' /\ Proposed'
  BY <1>0 DEF RowInv, ReferencesResolve, Grounded, Resolve, Proposed
<1>2. \A id, where : IsThere(id, where)' <=> IsThere(id, where)
  BY <1>0 DEF IsThere
<1>3. Looked'
  BY <1>0, <1>2 DEF RowInv, Looked
<1>4. Fresh' /\ Apart'
  BY <1>0 DEF RowInv, Fresh, Apart
<1>5. Read'
  <2>1. /\ tables.hypotheses[cmd[p].id].supporting # <<>>
        /\ Resolve(tables, tables.hypotheses[cmd[p].id].supporting)
        /\ Resolve(tables, tables.hypotheses[cmd[p].id].contradicting)
    BY <1>0 DEF RowInv, Proposed, ReferencesResolve, Grounded
  <2> QED BY <1>0, <2>1 DEF RowInv, Read, Resolve
<1> QED BY <1>1, <1>3, <1>4, <1>5 DEF RowInv

LEMMA LookUpRows ==
    ASSUME RowInv, NEW p \in Procs, LookUp(p), TypeOK'
    PROVE  RowInv'
<1>0. /\ tables' = tables /\ cmd' = cmd /\ pc' = pc /\ seen' = seen /\ todo[p] # <<>>
      /\ IsThere(Head(todo[p])[1], Head(todo[p])[2])
      /\ todo' = [todo EXCEPT ![p] = Tail(@)]
      /\ todo \in [Procs -> Seq(Citations)]
  BY DEF LookUp, RowInv, TypeOK
<1>1. ReferencesResolve' /\ Proposed'
  BY <1>0 DEF RowInv, ReferencesResolve, Grounded, Resolve, Proposed
<1>2. \A id, where : IsThere(id, where)' <=> IsThere(id, where)
  BY <1>0 DEF IsThere
<1>3. Looked'
  <2> SUFFICES ASSUME NEW q \in Procs, pc[q] \in {"get", "look"},
                      NEW i \in 1 .. Len(LookUps(cmd[q]))
               PROVE  \/ IsThere(LookUps(cmd[q])[i][1], LookUps(cmd[q])[i][2])
                      \/ \E j \in 1 .. Len(todo'[q]) : todo'[q][j] = LookUps(cmd[q])[i]
    BY <1>0, <1>2 DEF Looked
  <2>1. PICK x : x = LookUps(cmd[q])[i]
    OBVIOUS
  <2>2. IsThere(x[1], x[2]) \/ \E j \in 1 .. Len(todo[q]) : todo[q][j] = x
    BY <2>1 DEF RowInv, Looked
  <2>3. CASE IsThere(x[1], x[2])
    BY <2>1, <2>3
  <2>4. ASSUME NEW j \in 1 .. Len(todo[q]), todo[q][j] = x, q = p
        PROVE  IsThere(x[1], x[2]) \/ \E k \in 1 .. Len(todo'[q]) : todo'[q][k] = x
    <3>1. todo[q] \in Seq(Citations) /\ todo[q] # <<>> /\ todo'[q] = Tail(todo[q])
      BY <1>0, <2>4
    <3>2. CASE j = 1
      BY <1>0, <2>4, <3>1, <3>2
    <3>3. CASE j # 1
      <4>1. j - 1 \in 1 .. Len(Tail(todo[q])) /\ Tail(todo[q])[j - 1] = todo[q][j]
        BY <3>1, <3>3
      <4> QED BY <2>4, <3>1, <4>1
    <3> QED BY <3>2, <3>3
  <2>5. CASE q # p
    BY <1>0, <2>1, <2>2, <2>5
  <2> QED BY <2>1, <2>2, <2>3, <2>4, <2>5
<1>4. Fresh' /\ Apart'
  BY <1>0 DEF RowInv, Fresh, Apart
<1>5. Read'
  BY <1>0 DEF RowInv, Read, Resolve
<1> QED BY <1>1, <1>3, <1>4, <1>5 DEF RowInv

\* The entities and hypotheses after a write.
LEMMA WrittenParts ==
    ASSUME NEW c \in Commands, NEW read, tables \in Tables, Write(c, read)
    PROVE  /\ \A e \in Entities : c.do # "entity" \/ e # c.id =>
                  tables'.entities[e] = tables.entities[e]
           /\ \A h \in Hypotheses : c.do \notin {"propose", "change"} \/ h # c.id =>
                  tables'.hypotheses[h] = tables.hypotheses[h]
           /\ c.do = "propose" => tables'.hypotheses[c.id] = Proposal(c.refs)
           /\ c.do = "change" =>
                  tables'.hypotheses[c.id] = WithStatus(read, c.status, c.refs)
<1>1. CASE c.do = "ingest"
  BY <1>1 DEF Write, Tables
<1>2. CASE c.do = "entity"
  BY <1>2, CommandParts DEF Write, Tables
<1>3. CASE c.do \in {"relationship", "assertion"}
  BY <1>3 DEF Write, Tables
<1>4. CASE c.do = "propose"
  BY <1>4, CommandParts DEF Write, Tables
<1>5. CASE c.do = "change"
  BY <1>5, CommandParts DEF Write, Tables
<1>6. c.do \in {"ingest", "entity", "relationship", "assertion", "propose", "change"}
  BY DEF Write
<1> QED BY <1>1, <1>2, <1>3, <1>4, <1>5, <1>6

LEMMA ProposedWithEvidence ==
    ASSUME TypeOK, Read, NEW p \in Procs, Put(p), cmd[p].do \in {"propose", "change"}
    PROVE  tables'.hypotheses[cmd[p].id].supporting # <<>>
<1>0. /\ cmd[p] \in Commands /\ pc[p] = "look" /\ Write(cmd[p], seen[p]) /\ tables \in Tables
      /\ cmd[p].do = "change" => seen[p] \in Rows
      /\ cmd[p].refs \in Cited
  BY CommandParts DEF TypeOK, Put
<1>1. CASE cmd[p].do = "propose"
  <2>1. tables'.hypotheses[cmd[p].id] = Proposal(cmd[p].refs)
    BY <1>0, <1>1, WrittenParts
  <2> QED BY <1>0, <2>1, CitedAssumption DEF Proposal
<1>2. CASE cmd[p].do = "change"
  <2>1. tables'.hypotheses[cmd[p].id] = WithStatus(seen[p], cmd[p].status, cmd[p].refs)
    BY <1>0, <1>2, WrittenParts
  <2>2. /\ seen[p].supporting \in Seq(Facts) /\ seen[p].supporting # <<>>
        /\ cmd[p].refs \in Seq(Facts)
    BY <1>0, <1>2, CitedAssumption DEF Read, Rows
  <2>3. seen[p].supporting \o cmd[p].refs # <<>>
    BY <2>2
  <2>4. tables'.hypotheses[cmd[p].id].supporting
            \in {seen[p].supporting, seen[p].supporting \o cmd[p].refs}
    BY <1>0, <1>2, <2>1 DEF WithStatus, Rows
  <2> QED BY <2>2, <2>3, <2>4
<1> QED BY <1>1, <1>2

LEMMA PutRows ==
    ASSUME RowInv, NEW p \in Procs, Put(p), TypeOK'
    PROVE  RowInv'
<1>0. /\ cmd[p] \in Commands /\ Write(cmd[p], seen[p]) /\ tables \in Tables
      /\ cmd' = cmd /\ todo' = todo /\ seen' = seen /\ pc[p] = "look"
      /\ pc' = [pc EXCEPT ![p] = "evidence"]
      /\ pc \in [Procs -> Stages \cup DOMAIN AfterReading]
  BY DEF Put, RowInv, TypeOK
<1>p. \A q \in Procs : pc'[q] \in {"get", "look"} => q # p /\ pc'[q] = pc[q]
  BY <1>0
<1>k. Kept
  BY PutKeeps DEF RowInv
<1>1. ReferencesResolve'
  BY <1>k, PutGrounded DEF RowInv
<1>2. Looked'
  <2> SUFFICES ASSUME NEW q \in Procs, pc[q] \in {"get", "look"},
                      NEW i \in 1 .. Len(LookUps(cmd[q])),
                      IsThere(LookUps(cmd[q])[i][1], LookUps(cmd[q])[i][2])
               PROVE  IsThere(LookUps(cmd[q])[i][1], LookUps(cmd[q])[i][2])'
    BY <1>0, <1>p DEF Looked, RowInv
  <2>1. PICK x : x = LookUps(cmd[q])[i]
    OBVIOUS
  <2>2. IsThere(x[1], x[2])'
    BY <1>k, <2>1, ThereKept DEF RowInv
  <2>3. LookUps(cmd[q])' = LookUps(cmd[q])
    BY <1>0
  <2> QED BY <2>1, <2>2, <2>3 DEF IsThere
<1>3. Fresh'
  <2> SUFFICES ASSUME NEW q \in Procs, pc[q] = "look", q # p
               PROVE  /\ cmd[q].do = "entity" => tables'.entities[cmd[q].id] = <<>>
                      /\ cmd[q].do = "propose" =>
                            tables'.hypotheses[cmd[q].id] = NoHypothesis
    BY <1>0, <1>p DEF Fresh
  <2>1. cmd[q] \in Commands
    BY DEF RowInv, TypeOK
  <2>2. ASSUME cmd[q].do = "entity" PROVE tables'.entities[cmd[q].id] = <<>>
    <3>1. cmd[q].id \in Entities /\ tables.entities[cmd[q].id] = <<>>
      BY <2>1, <2>2, CommandParts DEF RowInv, Fresh
    <3>2. cmd[p].do # "entity" \/ cmd[q].id # cmd[p].id
      BY <1>0, <2>2 DEF RowInv, Apart
    <3> QED BY <1>0, <3>1, <3>2, WrittenParts
  <2>3. ASSUME cmd[q].do = "propose" PROVE tables'.hypotheses[cmd[q].id] = NoHypothesis
    <3>1. cmd[q].id \in Hypotheses /\ tables.hypotheses[cmd[q].id] = NoHypothesis
      BY <2>1, <2>3, CommandParts DEF RowInv, Fresh
    <3>2. cmd[p].do = "propose" => cmd[q].id # cmd[p].id
      BY <1>0, <2>3 DEF RowInv, Apart
    <3>3. cmd[p].do = "change" => cmd[q].id # cmd[p].id
      BY <1>0, <3>1 DEF RowInv, Read
    <3> QED BY <1>0, <3>1, <3>2, <3>3, WrittenParts
  <2> QED BY <2>2, <2>3
<1>4. Apart'
  BY <1>0, <1>p DEF RowInv, Apart
<1>5. Proposed'
  <2> SUFFICES ASSUME NEW h \in Hypotheses, tables'.hypotheses[h] # NoHypothesis
               PROVE  tables'.hypotheses[h].supporting # <<>>
    BY DEF Proposed
  <2>1. CASE cmd[p].do \in {"propose", "change"} /\ h = cmd[p].id
    BY <2>1, ProposedWithEvidence DEF RowInv
  <2>2. CASE ~(cmd[p].do \in {"propose", "change"} /\ h = cmd[p].id)
    BY <1>0, <2>2, WrittenParts DEF RowInv, Proposed
  <2> QED BY <2>1, <2>2
<1>6. Read'
  <2> SUFFICES ASSUME NEW q \in Procs, pc[q] = "look", cmd[q].do = "change"
               PROVE  /\ tables'.hypotheses[cmd[q].id] # NoHypothesis
                      /\ seen[q].supporting # <<>>
                      /\ Head(seen[q].supporting)
                           = Head(tables'.hypotheses[cmd[q].id].supporting)
                      /\ Resolve(tables', seen[q].supporting)
                      /\ Resolve(tables', seen[q].contradicting)
    BY <1>0, <1>p DEF Read
  <2>1. cmd[q].id \in Hypotheses
    BY CommandParts DEF RowInv, TypeOK
  <2> QED BY <1>k, <2>1, ResolveKept DEF RowInv, Read, Kept
<1> QED BY <1>1, <1>2, <1>3, <1>4, <1>5, <1>6 DEF RowInv

LEMMA RowsInit == Init => RowInv
<1> SUFFICES ASSUME Init PROVE RowInv
  OBVIOUS
<1>1. tables \in Earlier /\ \A p \in Procs : pc[p] = "idle"
  BY DEF Init
<1>2. ReferencesResolve /\ Proposed
  BY <1>1, EarlierAssumption DEF ReferencesResolve, Proposed
<1>3. Looked /\ Fresh /\ Apart /\ Read
  BY <1>1 DEF Looked, Fresh, Apart, Read
<1> QED BY <1>2, <1>3, TypesInit DEF RowInv

LEMMA RowsStep == RowInv /\ [Next]_vars => RowInv'
<1> SUFFICES ASSUME RowInv, [Next]_vars PROVE RowInv'
  OBVIOUS
<1>0. TypeOK /\ TypeOK'
  BY TypesStep DEF RowInv
<1>1. CASE UNCHANGED vars
  BY <1>0, <1>1, RestingRows DEF vars, Resting
<1>2. ASSUME NEW p \in Procs,
             Abort(p) \/ ReadTable(p) \/ TruncateManifest(p) \/ WriteManifest(p) \/ Compare(p)
      PROVE  RowInv'
  <2>1. /\ tables' = tables /\ cmd' = cmd /\ todo' = todo /\ seen' = seen
        /\ \A q \in Procs : q # p => pc'[q] = pc[q]
        /\ pc'[p] \notin {"get", "look"}
    BY <1>0, <1>2 DEF Abort, ReadTable, TruncateManifest, WriteManifest, Compare, TypeOK,
                      AfterReading
  <2> QED BY <1>0, <2>1, RestingRows DEF Resting
<1>3. ASSUME NEW p \in Procs, NEW c \in Commands, Begin(p, c) PROVE RowInv'
  BY <1>0, <1>3, BeginRows
<1>4. ASSUME NEW p \in Procs, GetHypothesis(p) \/ LookUp(p) \/ Put(p) PROVE RowInv'
  BY <1>0, <1>4, GetHypothesisRows, LookUpRows, PutRows
<1> QED BY <1>1, <1>2, <1>3, <1>4
        DEF Next, Step, NoSuchHypothesis, Unknown, Invalid, Interrupt, Finished

\* What a row refers to is in the case, however the look-ups of one command
\* interleave with the writes of the others.
THEOREM ReferencesAlwaysResolve == Spec => []ReferencesResolve
<1>1. RowInv => ReferencesResolve
  BY DEF RowInv
<1> QED BY <1>1, RowsInit, RowsStep, PTL DEF Spec

\* No row is taken away or started over, whoever writes at the same time.
THEOREM RowsAreKept == Spec => RowsKept
<1>1. RowInv /\ [Next]_vars => [Kept]_tables
  <2> SUFFICES ASSUME RowInv, Next, tables' # tables PROVE Kept
    BY DEF vars
  <2>1. PICK p \in Procs : Put(p)
    BY DEF Next, Begin, Step, NoSuchHypothesis, GetHypothesis, LookUp, Unknown, Invalid,
           ReadTable, TruncateManifest, WriteManifest, Compare, Interrupt, Abort, Finished, vars
  <2> QED BY <2>1, PutKeeps DEF RowInv
<1> QED BY <1>1, RowsInit, RowsStep, PTL DEF Spec, RowsKept

-----------------------------------------------------------------------------
(***************************************************************************)
(* Changes of hypotheses.                                                  *)
(***************************************************************************)
LEMMA RangeOfConcatenation ==
    ASSUME NEW S, NEW s \in Seq(S), NEW t \in Seq(S)
    PROVE  Range(s) \subseteq Range(s \o t) /\ Range(t) \subseteq Range(s \o t)
<1>1. /\ s \o t \in Seq(S) /\ Len(s) \in Nat /\ Len(t) \in Nat
      /\ Len(s \o t) = Len(s) + Len(t)
      /\ DOMAIN s = 1 .. Len(s) /\ DOMAIN t = 1 .. Len(t)
      /\ DOMAIN (s \o t) = 1 .. Len(s \o t)
  OBVIOUS
<1>2. ASSUME NEW i \in 1 .. Len(s)
      PROVE  i \in 1 .. Len(s \o t) /\ (s \o t)[i] = s[i]
  BY <1>1
<1>3. ASSUME NEW i \in 1 .. Len(t)
      PROVE  Len(s) + i \in 1 .. Len(s \o t) /\ (s \o t)[Len(s) + i] = t[i]
  BY <1>1
<1> QED BY <1>1, <1>2, <1>3 DEF Range

\* What a change writes holds what the row held and what the change adds.
LEMMA ChangeAdds ==
    ASSUME NEW row \in Rows, NEW status \in {"supported", "contradicted"},
           NEW refs \in Seq(Facts), NEW new, new = WithStatus(row, status, refs)
    PROVE  /\ Range(row.supporting) \subseteq Range(new.supporting)
           /\ Range(row.contradicting) \subseteq Range(new.contradicting)
           /\ status = "supported" => Range(refs) \subseteq Range(new.supporting)
           /\ status = "contradicted" => Range(refs) \subseteq Range(new.contradicting)
<1>1. /\ new.supporting = IF status = "supported" THEN row.supporting \o refs
                          ELSE row.supporting
      /\ new.contradicting = IF status = "contradicted" THEN row.contradicting \o refs
                             ELSE row.contradicting
  BY DEF WithStatus, Rows
<1>2. row.supporting \in Seq(Facts) /\ row.contradicting \in Seq(Facts)
  BY DEF Rows
<1>3. /\ Range(row.supporting) \subseteq Range(row.supporting \o refs)
      /\ Range(row.contradicting) \subseteq Range(row.contradicting \o refs)
      /\ Range(refs) \subseteq Range(row.supporting \o refs)
      /\ Range(refs) \subseteq Range(row.contradicting \o refs)
  BY <1>2, RangeOfConcatenation
<1> QED BY <1>1, <1>3

LEMMA PutAlone ==
    ASSUME ChangeInv, NEW p \in Procs, Put(p)
    PROVE  Alone'
<1>0. /\ cmd[p] \in Commands /\ Write(cmd[p], seen[p]) /\ tables \in Tables
      /\ cmd' = cmd /\ seen' = seen /\ pc[p] = "look" /\ contended' = contended
      /\ pc' = [pc EXCEPT ![p] = "evidence"]
      /\ pc \in [Procs -> Stages \cup DOMAIN AfterReading]
  BY DEF Put, ChangeInv, RowInv, TypeOK
<1>1. \A h : \A q \in Procs : Changing(q, h)' => q # p /\ Changing(q, h)
  BY <1>0 DEF Changing
<1>2. ASSUME NEW q \in Procs, NEW h \in Hypotheses \ contended, q # p, Changing(q, h)
      PROVE  tables'.hypotheses[h] = tables.hypotheses[h]
  <2>1. tables.hypotheses[h] # NoHypothesis
    BY <1>2 DEF Changing, ChangeInv, RowInv, Read
  <2>2. cmd[p].do = "propose" => cmd[p].id # h
    BY <1>0, <2>1 DEF ChangeInv, RowInv, Fresh
  <2>3. cmd[p].do = "change" => cmd[p].id # h
    BY <1>0, <1>2 DEF ChangeInv, Alone, Changing
  <2> QED BY <1>0, <2>2, <2>3, WrittenParts
<1>3. ASSUME NEW q \in Procs, NEW h \in Hypotheses \ contended, Changing(q, h)'
      PROVE  seen'[q] = tables'.hypotheses[h] /\ \A r \in Procs : Changing(r, h)' => r = q
  BY <1>0, <1>1, <1>2, <1>3 DEF ChangeInv, Alone
<1> QED BY <1>0, <1>3 DEF Alone

LEMMA PutChanges ==
    ASSUME ChangeInv, NEW p \in Procs, Put(p)
    PROVE  Backed' /\ ChangesKept'
<1>0. /\ cmd[p] \in Commands /\ Write(cmd[p], seen[p]) /\ tables \in Tables
      /\ pc[p] = "look" /\ contended' = contended
      /\ added \in [Hypotheses -> SUBSET (Statuses \X Facts)]
      /\ cmd[p].do = "change" => seen[p] \in Rows
      /\ cmd[p].do \in {"propose", "change"} => cmd[p].id \in Hypotheses
  BY CommandParts DEF Put, ChangeInv, RowInv, TypeOK
<1>k. Kept
  BY PutKeeps DEF ChangeInv, RowInv
<1>a. /\ cmd[p].do = "change" => added' = [added EXCEPT ![cmd[p].id] =
             @ \cup {<<cmd[p].status, r>> : r \in Range(cmd[p].refs)}]
      /\ cmd[p].do # "change" => added' = added
  BY DEF Put
<1>1. Backed'
  <2> SUFFICES ASSUME NEW h \in Hypotheses, added'[h] # {}
               PROVE  tables'.hypotheses[h] # NoHypothesis
    BY DEF Backed
  <2>1. CASE cmd[p].do = "change" /\ h = cmd[p].id
    BY <1>0, <1>k, <2>1 DEF Kept, ChangeInv, RowInv, Read
  <2>2. CASE ~(cmd[p].do = "change" /\ h = cmd[p].id)
    <3>1. added'[h] = added[h]
      BY <1>0, <1>a, <2>2
    <3> QED BY <1>k, <3>1 DEF Kept, ChangeInv, Backed
  <2> QED BY <2>1, <2>2
<1>2. ChangesKept'
  <2> SUFFICES ASSUME NEW h \in Hypotheses, h \notin contended, NEW x \in added'[h]
               PROVE  x[2] \in Range(IF x[1] = "supported" THEN tables'.hypotheses[h].supporting
                                     ELSE tables'.hypotheses[h].contradicting)
    BY <1>0 DEF ChangesKept, Held
  <2>0. ASSUME x \in added[h]
        PROVE  x[2] \in Range(IF x[1] = "supported" THEN tables.hypotheses[h].supporting
                              ELSE tables.hypotheses[h].contradicting)
    BY <2>0 DEF ChangeInv, ChangesKept, Held
  <2>1. CASE cmd[p].do = "change" /\ h = cmd[p].id
    <3>1. seen[p] = tables.hypotheses[h]
      BY <1>0, <2>1 DEF ChangeInv, Alone, Changing
    <3>2. cmd[p].refs \in Seq(Facts) /\ cmd[p].status \in {"supported", "contradicted"}
      BY <1>0, <2>1, CommandParts, CitedAssumption
    <3>3. PICK new : new = tables'.hypotheses[h]
      OBVIOUS
    <3>4. new = WithStatus(seen[p], cmd[p].status, cmd[p].refs)
      BY <1>0, <2>1, <3>3, WrittenParts
    <3>5. /\ Range(seen[p].supporting) \subseteq Range(new.supporting)
          /\ Range(seen[p].contradicting) \subseteq Range(new.contradicting)
          /\ cmd[p].status = "supported" => Range(cmd[p].refs) \subseteq Range(new.supporting)
          /\ cmd[p].status = "contradicted" =>
                Range(cmd[p].refs) \subseteq Range(new.contradicting)
      <4>1. seen[p] \in Rows
        BY <1>0, <2>1
      <4>2. PICK row \in Rows, status \in {"supported", "contradicted"}, refs \in Seq(Facts) :
                row = seen[p] /\ status = cmd[p].status /\ refs = cmd[p].refs
        BY <3>2, <4>1
      <4>3. new = WithStatus(row, status, refs)
        BY <3>4, <4>2
      <4>4. /\ Range(row.supporting) \subseteq Range(new.supporting)
            /\ Range(row.contradicting) \subseteq Range(new.contradicting)
            /\ status = "supported" => Range(refs) \subseteq Range(new.supporting)
            /\ status = "contradicted" => Range(refs) \subseteq Range(new.contradicting)
        BY <4>3, ChangeAdds
      <4> QED BY <4>2, <4>4
    <3>6. x \in added[h] \/ \E r \in Range(cmd[p].refs) : x = <<cmd[p].status, r>>
      BY <1>0, <1>a, <2>1
    <3>7. CASE x \in added[h]
      BY <2>0, <3>1, <3>3, <3>5, <3>7
    <3>8. ASSUME NEW r \in Range(cmd[p].refs), x = <<cmd[p].status, r>>
          PROVE  x[2] \in Range(IF x[1] = "supported" THEN new.supporting
                                ELSE new.contradicting)
      <4>1. x[1] = cmd[p].status /\ x[2] = r
        BY <3>8
      <4> QED BY <3>2, <3>5, <4>1
    <3> QED BY <3>3, <3>6, <3>7, <3>8
  <2>2. CASE cmd[p].do = "propose" /\ h = cmd[p].id
    <3>1. added'[h] = {}
      BY <1>0, <1>a, <2>2 DEF ChangeInv, RowInv, Fresh, Backed
    <3> QED BY <3>1
  <2>3. CASE cmd[p].do \notin {"propose", "change"} \/ h # cmd[p].id
    <3>1. added'[h] = added[h] /\ tables'.hypotheses[h] = tables.hypotheses[h]
      BY <1>0, <1>a, <2>3, WrittenParts
    <3> QED BY <2>0, <3>1
  <2> QED BY <2>1, <2>2, <2>3
<1> QED BY <1>1, <1>2

LEMMA ChangesStep == ChangeInv /\ [Next]_vars => ChangeInv'
<1> SUFFICES ASSUME ChangeInv, [Next]_vars PROVE ChangeInv'
  OBVIOUS
<1>0. RowInv' /\ TypeOK
  BY RowsStep DEF ChangeInv, RowInv
<1>r. ASSUME tables' = tables, added' = added, contended' = contended,
             \A h : \A q \in Procs : Changing(q, h)' => Changing(q, h) /\ seen'[q] = seen[q]
      PROVE  Alone' /\ Backed' /\ ChangesKept'
  <2>1. Backed' /\ ChangesKept'
    BY <1>r DEF ChangeInv, Backed, ChangesKept, Held
  <2>2. ASSUME NEW q \in Procs, NEW h \in Hypotheses \ contended, Changing(q, h)'
        PROVE  seen'[q] = tables'.hypotheses[h] /\ \A r \in Procs : Changing(r, h)' => r = q
    BY <1>r, <2>2 DEF ChangeInv, Alone
  <2> QED BY <1>r, <2>1, <2>2 DEF Alone
<1>1. CASE UNCHANGED vars
  BY <1>0, <1>1, <1>r DEF vars, Changing, ChangeInv
<1>2. ASSUME NEW p \in Procs,
             Abort(p) \/ ReadTable(p) \/ TruncateManifest(p) \/ WriteManifest(p) \/ Compare(p)
      PROVE  ChangeInv'
  <2>1. /\ tables' = tables /\ cmd' = cmd /\ seen' = seen
        /\ added' = added /\ contended' = contended
        /\ \A q \in Procs : q # p => pc'[q] = pc[q]
        /\ pc'[p] # "look"
    BY <1>0, <1>2 DEF Abort, ReadTable, TruncateManifest, WriteManifest, Compare, TypeOK,
                      AfterReading
  <2>2. \A h : \A q \in Procs : Changing(q, h)' => Changing(q, h) /\ seen'[q] = seen[q]
    BY <2>1 DEF Changing
  <2> QED BY <1>0, <1>r, <2>1, <2>2 DEF ChangeInv
<1>3. ASSUME NEW p \in Procs, NEW c \in Commands, Begin(p, c) PROVE ChangeInv'
  <2>1. /\ tables' = tables /\ seen' = seen /\ added' = added /\ contended' = contended
        /\ \A q \in Procs : q # p => pc'[q] = pc[q] /\ cmd'[q] = cmd[q]
        /\ pc'[p] = First(c) /\ cmd'[p] = c
    BY <1>0, <1>3 DEF Begin, TypeOK
  <2>2. \A h : \A q \in Procs : Changing(q, h)' => Changing(q, h) /\ seen'[q] = seen[q]
    BY <2>1 DEF Changing, First
  <2> QED BY <1>0, <1>r, <2>1, <2>2 DEF ChangeInv
<1>4. ASSUME NEW p \in Procs, LookUp(p) PROVE ChangeInv'
  BY <1>0, <1>4, <1>r DEF LookUp, Changing, ChangeInv
<1>5. ASSUME NEW p \in Procs, GetHypothesis(p) PROVE ChangeInv'
  <2>0. /\ tables' = tables /\ cmd' = cmd /\ added' = added
        /\ pc' = [pc EXCEPT ![p] = "look"] /\ pc[p] = "get"
        /\ seen' = [seen EXCEPT ![p] = tables.hypotheses[cmd[p].id]]
        /\ contended' = IF \E q \in Procs : Changing(q, cmd[p].id)
                        THEN contended \cup {cmd[p].id} ELSE contended
        /\ pc \in [Procs -> Stages \cup DOMAIN AfterReading]
        /\ seen \in [Procs -> Rows \cup {NoHypothesis}]
    BY <1>0, <1>5 DEF GetHypothesis, TypeOK
  <2>1. Backed' /\ ChangesKept'
    BY <2>0 DEF ChangeInv, Backed, ChangesKept, Held
  <2>2. \A h : \A q \in Procs : Changing(q, h)' /\ q # p => Changing(q, h) /\ seen'[q] = seen[q]
    BY <2>0 DEF Changing
  <2>3. \A h : Changing(p, h)' => /\ h = cmd[p].id /\ seen'[p] = tables.hypotheses[h]
    BY <2>0 DEF Changing
  <2>4. ASSUME NEW q \in Procs, NEW h \in Hypotheses \ contended', Changing(q, h)'
        PROVE  seen'[q] = tables.hypotheses[h] /\ \A r \in Procs : Changing(r, h)' => r = q
    <3>1. h \notin contended
      BY <2>0
    <3>2. CASE h = cmd[p].id
      <4>1. \A r \in Procs : ~Changing(r, h)
        BY <2>0, <3>1, <3>2
      <4> QED BY <2>2, <2>3, <2>4, <4>1
    <3>3. CASE h # cmd[p].id
      BY <2>2, <2>3, <2>4, <3>1, <3>3 DEF ChangeInv, Alone
    <3> QED BY <3>2, <3>3
  <2> QED BY <1>0, <2>0, <2>1, <2>4 DEF ChangeInv, Alone
<1>6. ASSUME NEW p \in Procs, Put(p) PROVE ChangeInv'
  BY <1>0, <1>6, PutAlone, PutChanges DEF ChangeInv
<1> QED BY <1>1, <1>2, <1>3, <1>4, <1>5, <1>6
        DEF Next, Step, NoSuchHypothesis, Unknown, Invalid, Interrupt, Finished

\* What a change has added to a hypothesis is lost to an overlapping change only.
THEOREM ChangesAreKept == Spec => []ChangesKept
<1>1. Init => ChangeInv
  <2> SUFFICES ASSUME Init PROVE ChangeInv
    OBVIOUS
  <2>1. /\ \A p \in Procs : pc[p] = "idle"
        /\ \A h \in Hypotheses : added[h] = {}
    BY DEF Init
  <2> QED BY <2>1, RowsInit DEF ChangeInv, Alone, Changing, Backed, ChangesKept
<1>2. ChangeInv => ChangesKept
  BY DEF ChangeInv
<1> QED BY <1>1, <1>2, ChangesStep, PTL DEF Spec

-----------------------------------------------------------------------------
(***************************************************************************)
(* Manifests.                                                              *)
(***************************************************************************)
LEMMA WholeSnapshot ==
    ASSUME NEW s \in Manifests, NEW t \in Manifests, \A k \in DOMAIN AfterReading : s[k] = t[k]
    PROVE  s = t
<1>1. /\ s.evidence = t.evidence /\ s.events = t.events /\ s.entities = t.entities
      /\ s.relationships = t.relationships /\ s.assertions = t.assertions
      /\ s.hypotheses = t.hypotheses
  BY DEF AfterReading
<1> QED BY <1>1 DEF Manifests

LEMMA ReadTableCalm ==
    ASSUME TypeOK, Calm, NEW p \in Procs, ReadTable(p)
    PROVE  Calm'
<1>0. /\ snap' = [snap EXCEPT ![p][pc[p]] = Hashed(tables)[pc[p]]]
      /\ pc' = [pc EXCEPT ![p] = AfterReading[pc[p]]]
      /\ tables' = tables /\ calm' = calm
      /\ snap \in [Procs -> Manifests] /\ pc \in [Procs -> Stages \cup DOMAIN AfterReading]
      /\ pc[p] \in {"evidence", "events", "entities", "relationships", "assertions",
                    "hypotheses"}
  BY DEF ReadTable, TypeOK, AfterReading
<1>h. Hashed(tables)' = Hashed(tables)
  BY <1>0 DEF Hashed
<1> SUFFICES ASSUME NEW q \in Procs, calm[q], pc'[q] \in DOMAIN Before,
                    NEW k \in Before[pc'[q]]
             PROVE  snap'[q][k] = Hashed(tables)[k]
  BY <1>0, <1>h DEF Calm, Before, AfterReading
<1>1. CASE q # p
  BY <1>0, <1>1 DEF Calm
<1>2. CASE q = p
  <2>1. Before[AfterReading[pc[p]]] = Before[pc[p]] \cup {pc[p]} /\ pc[p] \in DOMAIN Before
    BY <1>0 DEF Before, AfterReading
  <2>2. k \in Before[pc[p]] \/ k = pc[p]
    BY <1>0, <1>2, <2>1
  <2>3. DOMAIN snap[p] = DOMAIN AfterReading
    BY <1>0 DEF Manifests, AfterReading
  <2>4. snap'[p] = [snap[p] EXCEPT ![pc[p]] = Hashed(tables)[pc[p]]]
    BY <1>0
  <2>5. snap'[p][pc[p]] = Hashed(tables)[pc[p]]
    BY <1>0, <2>3, <2>4 DEF AfterReading
  <2>6. ASSUME k # pc[p] PROVE snap'[p][k] = snap[p][k]
    BY <2>4, <2>6
  <2> QED BY <1>2, <2>1, <2>2, <2>5, <2>6 DEF Calm
<1> QED BY <1>1, <1>2

LEMMA CalmSnapshot ==
    ASSUME TypeOK, Calm, NEW p \in Procs, calm[p], pc[p] \in {"listed", "record"}
    PROVE  snap[p] = Hashed(tables)
<1>1. snap[p] \in Manifests /\ Hashed(tables) \in Manifests
  BY HashedManifest DEF TypeOK
<1>2. pc[p] \in DOMAIN Before /\ Before[pc[p]] = DOMAIN AfterReading
  BY DEF Before
<1>3. \A k \in DOMAIN AfterReading : snap[p][k] = Hashed(tables)[k]
  BY <1>2 DEF Calm
<1> QED BY <1>1, <1>3, WholeSnapshot

LEMMA ManifestStep == ManifestInv /\ [Next]_vars => ManifestInv'
<1> SUFFICES ASSUME ManifestInv, [Next]_vars PROVE ManifestInv'
  OBVIOUS
<1>0. TypeOK' /\ TypeOK /\ pc \in [Procs -> Stages \cup DOMAIN AfterReading]
  BY TypesStep DEF ManifestInv, TypeOK
<1>r. ASSUME tables' = tables, snap' = snap,
             \A q \in Procs : calm'[q] /\ pc'[q] \in DOMAIN Before =>
                 /\ calm[q] /\ pc[q] \in DOMAIN Before
                 /\ Before[pc'[q]] = Before[pc[q]]
      PROVE  Calm'
  <2>1. Hashed(tables)' = Hashed(tables)
    BY <1>r DEF Hashed
  <2> SUFFICES ASSUME NEW q \in Procs, calm'[q], pc'[q] \in DOMAIN Before,
                      NEW k \in Before[pc'[q]]
               PROVE  snap[q][k] = Hashed(tables)[k]
    BY <1>r, <2>1 DEF Calm, Before
  <2> QED BY <1>r DEF ManifestInv, Calm
<1>m. ASSUME tables' = tables, manifest' = manifest, vouched' = vouched
      PROVE  ManifestCurrent'
  BY <1>m DEF ManifestInv, ManifestCurrent, Hashed
<1>1. CASE UNCHANGED vars
  BY <1>0, <1>1, <1>r, <1>m DEF vars, ManifestInv
<1>2. ASSUME NEW p \in Procs, Abort(p) PROVE ManifestInv'
  <2>1. \A q \in Procs : pc'[q] \in DOMAIN Before => pc'[q] = pc[q]
    BY <1>0, <1>2 DEF Abort, Before
  <2> QED BY <1>0, <1>2, <1>r, <1>m, <2>1 DEF Abort, ManifestInv
<1>3. ASSUME NEW p \in Procs, NEW c \in Commands, Begin(p, c) PROVE ManifestInv'
  <2>1. /\ tables' = tables /\ snap' = snap /\ manifest' = manifest /\ vouched' = vouched
        /\ pc' = [pc EXCEPT ![p] = First(c)] /\ calm' = [calm EXCEPT ![p] = (c.do = "verify")]
        /\ calm \in [Procs -> BOOLEAN]
    BY <1>3, <1>0 DEF Begin, TypeOK
  <2>2. Hashed(tables)' = Hashed(tables)
    BY <2>1 DEF Hashed
  <2>3. pc'[p] \in {"evidence", "get", "look"}
    BY <1>0, <2>1 DEF First
  <2>4. Calm'
    <3> SUFFICES ASSUME NEW q \in Procs, calm'[q], pc'[q] \in DOMAIN Before,
                        NEW k \in Before[pc'[q]]
                 PROVE  snap[q][k] = Hashed(tables)[k]
      BY <2>1, <2>2 DEF Calm, Before
    <3>1. CASE q = p
      BY <2>3, <3>1 DEF Before
    <3>2. CASE q # p
      BY <1>0, <2>1, <3>2 DEF ManifestInv, Calm
    <3> QED BY <3>1, <3>2
  <2> QED BY <1>0, <1>m, <2>1, <2>4 DEF ManifestInv
<1>4. ASSUME NEW p \in Procs, GetHypothesis(p) \/ LookUp(p) PROVE ManifestInv'
  <2>1. /\ \A q \in Procs : pc'[q] \in DOMAIN Before => pc'[q] = pc[q]
        /\ tables' = tables /\ snap' = snap /\ manifest' = manifest /\ vouched' = vouched
        /\ calm' = calm
    BY <1>0, <1>4 DEF GetHypothesis, LookUp, Before
  <2> QED BY <1>0, <1>r, <1>m, <2>1 DEF ManifestInv
<1>5. ASSUME NEW p \in Procs, Put(p) PROVE ManifestInv'
  <2>1. /\ \A q \in Procs : calm'[q] => q = p
        /\ pc'[p] = "evidence" /\ ~vouched'
    BY <1>0, <1>5 DEF Put
  <2>2. Calm'
    BY <2>1 DEF Calm, Before
  <2> QED BY <1>0, <2>1, <2>2 DEF ManifestInv, ManifestCurrent
<1>6. ASSUME NEW p \in Procs, ReadTable(p) PROVE ManifestInv'
  BY <1>0, <1>6, <1>m, ReadTableCalm DEF ReadTable, ManifestInv
<1>7. ASSUME NEW p \in Procs, TruncateManifest(p) PROVE ManifestInv'
  <2>1. /\ tables' = tables /\ snap' = snap /\ ~vouched'
        /\ \A q \in Procs : calm'[q] => q = p /\ calm[p]
        /\ pc'[p] = "record" /\ pc[p] = "listed"
    BY <1>0, <1>7 DEF TruncateManifest
  <2>2. Calm'
    BY <1>r, <2>1 DEF Before
  <2> QED BY <1>0, <2>1, <2>2 DEF ManifestInv, ManifestCurrent
<1>8. ASSUME NEW p \in Procs, WriteManifest(p) PROVE ManifestInv'
  <2>1. /\ tables' = tables /\ snap' = snap /\ vouched' = calm[p] /\ manifest' = snap[p]
        /\ \A q \in Procs : calm'[q] => q = p
        /\ pc'[p] = "idle" /\ pc[p] = "record"
    BY <1>0, <1>8 DEF WriteManifest
  <2>2. Calm'
    BY <2>1 DEF Calm, Before
  <2>3. vouched' => manifest' = Hashed(tables)
    BY <1>0, <2>1, CalmSnapshot DEF ManifestInv
  <2>4. Hashed(tables)' = Hashed(tables)
    BY <2>1 DEF Hashed
  <2> QED BY <1>0, <2>2, <2>3, <2>4 DEF ManifestInv, ManifestCurrent
<1>9. ASSUME NEW p \in Procs, Compare(p) PROVE ManifestInv'
  <2>1. \A q \in Procs : pc'[q] \in DOMAIN Before => pc'[q] = pc[q]
    BY <1>0, <1>9 DEF Compare, Before
  <2> QED BY <1>0, <1>9, <1>r, <1>m, <2>1 DEF Compare, ManifestInv
<1> QED BY <1>1, <1>2, <1>3, <1>4, <1>5, <1>6, <1>7, <1>8, <1>9
        DEF Next, Step, NoSuchHypothesis, Unknown, Invalid, Interrupt, Finished

LEMMA ManifestInit == Init => ManifestInv
<1> SUFFICES ASSUME Init PROVE ManifestInv
  OBVIOUS
<1>1. /\ manifest \in {Hashed(tables), NoManifest} /\ \A p \in Procs : ~calm[p]
  BY DEF Init
<1> QED BY <1>1, TypesInit DEF ManifestInv, Calm, ManifestCurrent

\* A manifest recorded in calm is that of the case, until the next commit.
THEOREM RecordedManifestIsCurrent == Spec => []ManifestCurrent
<1>1. ManifestInv => ManifestCurrent
  BY DEF ManifestInv
<1> QED BY <1>1, ManifestInit, ManifestStep, PTL DEF Spec

\* And `verify' says so.
THEOREM VerifyAgrees == Spec => IntactCaseMatches
<1>1. ASSUME ManifestInv, NEW p \in Procs, Compare(p), calm[p], vouched
      PROVE  verdict'[p] = "MATCH"
  <2>1. snap[p] = Hashed(tables) /\ Hashed(tables) \in Manifests
    BY <1>1, CalmSnapshot, HashedManifest DEF ManifestInv, Compare, TypeOK
  <2>2. manifest \in {snap[p], NoManifest} /\ manifest # Torn
    BY <1>1, <2>1, ManifestsAssumption DEF ManifestInv, ManifestCurrent
  <2>3. Verdict(snap[p], manifest) = "MATCH"
    BY <2>2 DEF Verdict
  <2>4. verdict' = [verdict EXCEPT ![p] = Verdict(snap[p], manifest)] /\ p \in DOMAIN verdict
    BY <1>1 DEF Compare, ManifestInv, TypeOK
  <2> QED BY <2>3, <2>4
<1>2. ManifestInv =>
        [\A p \in Procs : Compare(p) /\ calm[p] /\ vouched => verdict'[p] = "MATCH"]_vars
  BY <1>1
<1> QED BY <1>2, ManifestInit, ManifestStep, PTL DEF Spec, IntactCaseMatches
=============================================================================

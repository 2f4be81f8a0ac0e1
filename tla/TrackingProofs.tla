---------------------------- MODULE TrackingProofs ----------------------------
(***************************************************************************)
(* For any case, any way in which it grows and any number of processes cut *)
(* short anywhere: the types of Tracking, and ReviewKept, TrackIsWhole,    *)
(* ContradictionsStand and ThresholdsNeverMatter.                          *)
(*                                                                         *)
(* For any case: FindingsExact, what the one pass of find_gaps over the    *)
(* claims in order, with the end that those before have reached, finds.    *)
(***************************************************************************)
EXTENDS Tracking, FiniteSetTheorems, WellFoundedInduction, TLAPS

-----------------------------------------------------------------------------
(* Types. *)

\* Growing keeps the types of the observations and loses nothing.
LEMMA ObserveGrows ==
    ASSUME ObservationsOK, Observe
    PROVE  ObservationsOK' /\ claims \subseteq claims'
<1> USE ClaimsAssumption
<1>1. ASSUME NEW l \in Lines, NEW ids \in Declarations, IngestLine(l, ids)
      PROVE  ObservationsOK' /\ claims \subseteq claims'
  <2>1. \A c \in DerivedFrom({l}) : c \in Claims /\ Event(c) = l /\ Evidence(c) = l
    BY DEF DerivedFrom, Event, Evidence
  <2>2. declared' \in [Lines -> SUBSET SourceIds]
    BY <1>1 DEF ObservationsOK, IngestLine, Declarations
  <2>3. claims' = claims \cup DerivedFrom({l}) /\ known' = known \cup {l}
    BY <1>1 DEF IngestLine
  <2> QED BY <2>1, <2>2, <2>3 DEF ObservationsOK, Event, Evidence
<1>2. ASSUME NEW c \in Claims, AssertTime(c)
      PROVE  ObservationsOK' /\ claims \subseteq claims'
  BY <1>2 DEF ObservationsOK, AssertTime, Event, Evidence
<1> QED BY <1>1, <1>2 DEF Observe

LEMMA AbortType == ASSUME TypeOK, NEW p \in Procs, Abort(p) PROVE TypeOK'
<1>1. /\ image' \in {image, rows} /\ lock' = (IF lock = p THEN NoProc ELSE lock)
      /\ pc' = [pc EXCEPT ![p] = "idle"]
      /\ UNCHANGED <<observations, rows, started, cmd, read, found, todo, now, new>>
  BY DEF Abort
<1>2. \A q \in Procs : pc'[q] # "idle" => pc'[q] = pc[q]
  BY <1>1 DEF TypeOK
<1>3. \A q \in Procs : lock' = q => lock = q /\ q # p /\ pc'[q] = pc[q]
  BY <1>1, NoProcIsNone DEF TypeOK
<1>4. lock' \in Procs \cup {NoProc}
  BY <1>1 DEF TypeOK
<1>5. ObservationsOK'
  BY <1>1 DEF TypeOK, ObservationsOK, observations, Event, Evidence
<1> QED BY <1>1, <1>2, <1>3, <1>4, <1>5 DEF TypeOK

LEMMA ObservationsKept ==
    ASSUME ObservationsOK, UNCHANGED observations PROVE ObservationsOK'
BY DEF ObservationsOK, observations, Event, Evidence

LEMMA TypeStep == TypeOK /\ [Next]_vars => TypeOK'
<1> USE NoProcIsNone, MaxCommandsIsNat
<1> SUFFICES ASSUME TypeOK, [Next]_vars PROVE TypeOK'
  OBVIOUS
<1> USE DEF TypeOK, Kinds, CanWrite
<1>1. CASE UNCHANGED vars
  BY <1>1, ObservationsKept DEF vars, tracking
<1>2. ASSUME NEW p \in Procs, NEW c \in TrackCommands, BeginTrack(p, c) PROVE TypeOK'
  BY <1>2, ObservationsKept DEF BeginTrack, TrackCommands
<1>3. ASSUME NEW p \in Procs, NEW of \in Kinds, NEW review \in Reviews, NEW f,
             BeginAck(p, of, f, review) PROVE TypeOK'
  BY <1>3, ObservationsKept DEF BeginAck, AckCommands
<1>4. ASSUME NEW p \in Procs, ReadEvents(p) PROVE TypeOK'
  BY <1>4, ObservationsKept DEF ReadEvents
<1>5. ASSUME NEW p \in Procs, ReadEvidence(p) PROVE TypeOK'
  BY <1>5, ObservationsKept DEF ReadEvidence
<1>6. ASSUME NEW p \in Procs, Analyse(p) PROVE TypeOK'
  BY <1>6, ObservationsKept DEF Analyse
<1>7. ASSUME NEW p \in Procs, LookUp(p) PROVE TypeOK'
  BY <1>7, ObservationsKept DEF LookUp
<1>8. ASSUME NEW p \in Procs, LeaveTracked(p) PROVE TypeOK'
  BY <1>8, ObservationsKept DEF LeaveTracked, Advance
<1>9. ASSUME NEW p \in Procs, Miss(p) PROVE TypeOK'
  BY <1>9, ObservationsKept DEF Miss
<1>10. ASSUME NEW p \in Procs, Insert(p) PROVE TypeOK'
  <2>1. /\ image' = View(p) \cup {Candidate(p)} /\ lock' = p
        /\ pc[p] = "insert" /\ pc' = [pc EXCEPT ![p] = "track"]
        /\ todo' = [todo EXCEPT ![p] = @ \ {now[p]}]
        /\ UNCHANGED <<observations, rows, started, cmd, read, found, now, new>>
    BY <1>10 DEF Insert, Advance
  <2>2. cmd[p] \in TrackCommands
    BY <2>1 DEF AckCommands
  <2>3. IsRow(Candidate(p))
    BY <2>2 DEF Candidate, TrackCommands, IsRow
  <2>4. View(p) \in {image, rows}
    BY DEF View
  <2>5. \A q \in Procs : lock' = q => q = p
    BY <2>1
  <2> QED BY <2>1, <2>3, <2>4, <2>5, ObservationsKept
<1>11. ASSUME NEW p \in Procs, Commit(p) PROVE TypeOK'
  BY <1>11, ObservationsKept DEF Commit, View
<1>12. ASSUME NEW p \in Procs, AckKnown(p) PROVE TypeOK'
  BY <1>12, ObservationsKept DEF AckKnown, Rows, RowsOf, View
<1>13. ASSUME NEW p \in Procs, Annotate(p) PROVE TypeOK'
  <2> DEFINE New(r) == [r EXCEPT !.review = cmd[p].review]
  <2>1. /\ pc[p] = "annotate" /\ pc' = [pc EXCEPT ![p] = "idle"]
        /\ rows' = (rows \ Rows(p)) \cup {New(r) : r \in found[p]}
        /\ image' = rows'
        /\ UNCHANGED <<observations, lock, started, cmd, read, found, todo, now, new>>
    BY <1>13 DEF Annotate
  <2>2. cmd[p].review \in Reviews
    BY <2>1 DEF AckCommands, TrackCommands
  <2>3. ASSUME NEW r \in found[p] PROVE IsRow(New(r))
    BY <2>1, <2>2 DEF IsRow
  <2>4. \A r \in rows' : IsRow(r)
    BY <2>1, <2>3
  <2>5. \A q \in Procs : lock = q => q # p
    BY <2>1
  <2> QED BY <2>1, <2>4, <2>5, ObservationsKept
<1>14. ASSUME NEW p \in Procs, Abort(p) PROVE TypeOK'
  BY <1>14, AbortType
<1>15. CASE CaseGrows
  BY <1>15, ObserveGrows DEF CaseGrows
<1> QED
  BY <1>1, <1>2, <1>3, <1>4, <1>5, <1>6, <1>7, <1>8, <1>9, <1>10, <1>11, <1>12,
     <1>13, <1>14, <1>15
  DEF Next, Begin, Step, InsertRejected, AckUnknown, LockTimeout, Interrupt, Finished

-----------------------------------------------------------------------------
(* Thresholds: what they keep out of a finding can be told from the finding. *)

Passes(f, param) == /\ f.end - f.start >= param.minGap
                    /\ Cardinality(f.corroborating) >= param.minCorroborating

LEMMA PairPasses ==
    ASSUME NEW absent, NEW present, NEW silent, NEW active, NEW param, NEW f
    PROVE  /\ f \in FindingsOf(absent, present, silent, active, param) => Passes(f, param)
           /\ \A q : f \in FindingsOf(absent, present, silent, active, param) /\ Passes(f, q)
                => f \in FindingsOf(absent, present, silent, active, q)
<1> DEFINE s == InOrder(silent)
           Bounds(k) == <<FurthestOf(s)[k - 1], s[k]>>
           Active(k) == ActiveDuring(active, Upto(Bounds(k)[1]), From(Bounds(k)[2]))
           Silent(k) == Upto(Bounds(k)[1]) < From(Bounds(k)[2])
           Long(k, q) == From(Bounds(k)[2]) - Upto(Bounds(k)[1]) >= q.minGap
           Busy(k, q) == Cardinality(Active(k)) >= q.minCorroborating
           Finding(k) == GapFinding(absent, present, Bounds(k), Active(k))
<1>1. ASSUME NEW q
      PROVE  FindingsOf(absent, present, silent, active, q) =
                {Finding(k) : k \in {i \in 2 .. Len(s) : Silent(i) /\ Long(i, q) /\ Busy(i, q)}}
  BY DEF FindingsOf
<1>2. ASSUME NEW k, NEW q PROVE Passes(Finding(k), q) <=> Long(k, q) /\ Busy(k, q)
  <2>1. /\ Finding(k).end = From(Bounds(k)[2]) /\ Finding(k).start = Upto(Bounds(k)[1])
        /\ Finding(k).corroborating = Active(k)
    BY DEF GapFinding
  <2> QED BY <2>1 DEF Passes
<1> HIDE DEF s, Bounds, Active, Silent, Long, Busy, Finding
<1>3. f \in FindingsOf(absent, present, silent, active, param) => Passes(f, param)
  BY <1>1, <1>2
<1>4. ASSUME NEW q, f \in FindingsOf(absent, present, silent, active, param), Passes(f, q)
      PROVE  f \in FindingsOf(absent, present, silent, active, q)
  <2>1. PICK k \in 2 .. Len(s) : Silent(k) /\ f = Finding(k)
    BY <1>1, <1>4
  <2>2. Long(k, q) /\ Busy(k, q)
    BY <1>2, <1>4, <2>1
  <2> QED BY <1>1, <2>1, <2>2
<1> QED BY <1>3, <1>4

LEMMA GapsPass ==
    ASSUME NEW of, NEW events, NEW lines, NEW sources, NEW param, NEW f,
           f \in FindGaps(of, events, lines, sources, param)
    PROVE  /\ Passes(f, param)
           /\ \A q : q.refined = param.refined /\ Passes(f, q)
                => f \in FindGaps(of, events, lines, sources, q)
<1> DEFINE Key(q, c) == GroupKey(c, sources, q.refined)
           Keys(q) == {Key(q, c) : c \in Resolved(of, events, lines, sources)}
           Group(q, k) == {c \in Resolved(of, events, lines, sources) : Key(q, c) = k}
           Pairs(q) == {x \in Keys(q) \X Keys(q) :
                           /\ Comparable(x[1], x[2])
                           /\ SpansOverlap(Group(q, x[1]), Group(q, x[2]))}
           Of(q, x) == FindingsOf(x[1], x[2], Group(q, x[1]), Group(q, x[2]), q)
<1>1. ASSUME NEW q
      PROVE  FindGaps(of, events, lines, sources, q) = UNION {Of(q, x) : x \in Pairs(q)}
  BY DEF FindGaps
<1> HIDE DEF Pairs, Of
<1>2. PICK x \in Pairs(param) : f \in Of(param, x)
  BY <1>1
<1>3. Passes(f, param)
  BY <1>2, PairPasses DEF Of
<1>4. ASSUME NEW q, q.refined = param.refined, Passes(f, q)
      PROVE  f \in FindGaps(of, events, lines, sources, q)
  <2>1. \A k : Group(q, k) = Group(param, k)
    BY <1>4
  <2>2. Keys(q) = Keys(param)
    BY <1>4
  <2>3. Pairs(q) = Pairs(param)
    BY <2>1, <2>2 DEF Pairs
  <2>4. f \in FindingsOf(x[1], x[2], Group(q, x[1]), Group(q, x[2]), q)
    BY <1>2, <1>4, <2>1, PairPasses DEF Of
  <2>5. x \in Pairs(q) /\ f \in Of(q, x)
    BY <1>2, <2>3, <2>4 DEF Of
  <2> QED BY <1>1, <2>5
<1> QED BY <1>3, <1>4

-----------------------------------------------------------------------------
(* The invariant. *)

\* A finding has one row, and the lock holder sees every committed one.
OneRow == /\ \A r, s \in image : r.of = s.of /\ r.finding = s.finding => r = s
          /\ rows \subseteq image
          /\ lock = NoProc => image = rows

\* The row an annotation has read is there still, but for its review.
AckHolds ==
    \A p \in Procs : pc[p] = "annotate" =>
        /\ found[p] # {}
        /\ \A s \in found[p] : /\ s.of = cmd[p].of
                               /\ s.finding = now[p]
                               /\ \E r \in rows : /\ r.of = s.of
                                                  /\ r.finding = s.finding
                                                  /\ r.param = s.param

InBlock(p) == pc[p] \in {"track", "create", "insert"}

\* What an analysis found is tracked already, or yet to be looked at.
Underway ==
    \A p \in Procs : InBlock(p) =>
        /\ todo[p] \subseteq found[p]
        /\ \A f \in found[p] : f \in todo[p] \/ RowsOf(View(p), cmd[p].of, f) # {}
        /\ pc[p] # "track" => now[p] \in todo[p]

\* An uncommitted row is of the lock holder's findings.
Fresh == \A r \in image : r \notin rows =>
            /\ lock \in Procs
            /\ cmd[lock].of = r.of
            /\ r.finding \in found[lock]

\* Contradictions found, tracked or not, are contradictions for good.
Stand ==
    /\ \A r \in image : r.of = "contradictions" => r.finding \in TimeContradictions(claims)
    /\ \A p \in Procs : InBlock(p) /\ cmd[p].of = "contradictions" =>
          found[p] \subseteq TimeContradictions(claims)

\* A gap finding passes the thresholds it was tracked with.
Recorded ==
    /\ \A r \in image : r.of = "gaps" => Passes(r.finding, r.param)
    /\ \A p \in Procs : InBlock(p) /\ cmd[p].of = "gaps" =>
          \A f \in found[p] : Passes(f, cmd[p].param)

IInv == TypeOK /\ OneRow /\ AckHolds /\ Underway /\ Fresh /\ Stand /\ Recorded
\* Steps that leave the two tables and the lock alone.
Quiet == UNCHANGED <<rows, image, lock>>

LEMMA QuietSteps ==
    ASSUME NEW p \in Procs
    PROVE  /\ \A c \in TrackCommands : BeginTrack(p, c) => Quiet
           /\ \A of, f, review : BeginAck(p, of, f, review) => Quiet
           /\ ReadEvents(p) \/ ReadEvidence(p) \/ Analyse(p) \/ LookUp(p) => Quiet
           /\ LeaveTracked(p) \/ Miss(p) \/ AckKnown(p) => Quiet
BY DEF Quiet, BeginTrack, BeginAck, ReadEvents, ReadEvidence, Analyse, LookUp,
       LeaveTracked, Miss, AckKnown

\* The other steps, by what they do to the tables.
LEMMA Steps ==
    ASSUME TypeOK, [Next]_vars
    PROVE  \/ Quiet
           \/ \E p \in Procs : Abort(p) \/ Insert(p) \/ Commit(p) \/ Annotate(p)
<1>1. CASE UNCHANGED vars
  BY <1>1 DEF vars, tracking, Quiet
<1>2. CASE CaseGrows
  BY <1>2 DEF CaseGrows, Quiet
<1>3. ASSUME NEW p \in Procs, Begin(p) PROVE Quiet
  BY <1>3, QuietSteps DEF Begin
<1>4. ASSUME NEW p \in Procs, Step(p)
      PROVE  Quiet \/ Abort(p) \/ Insert(p) \/ Commit(p) \/ Annotate(p)
  BY <1>4, QuietSteps DEF Step, InsertRejected, AckUnknown, LockTimeout
<1>5. ASSUME NEW p \in Procs, Interrupt(p) PROVE Abort(p)
  BY <1>5 DEF Interrupt
<1> QED BY <1>1, <1>2, <1>3, <1>4, <1>5 DEF Next, Finished

LEMMA OneRowStep == IInv /\ [Next]_vars => OneRow'
<1> SUFFICES ASSUME IInv, [Next]_vars PROVE OneRow'
  OBVIOUS
<1>0. TypeOK /\ OneRow /\ AckHolds
  BY DEF IInv
<1>1. CASE Quiet
  BY <1>0, <1>1 DEF OneRow, Quiet
<1>2. ASSUME NEW p \in Procs, Abort(p) PROVE OneRow'
  <2>1. /\ rows' = rows
        /\ image' = IF lock = p THEN rows ELSE image
        /\ lock' = IF lock = p THEN NoProc ELSE lock
    BY <1>2 DEF Abort
  <2> QED BY <1>0, <2>1 DEF OneRow
<1>3. ASSUME NEW p \in Procs, Insert(p) PROVE OneRow'
  <2>1. /\ lock' = p /\ rows' = rows /\ image' = View(p) \cup {Candidate(p)}
        /\ CanWrite(p) /\ Rows(p) = {}
    BY <1>3 DEF Insert
  <2>2. View(p) = image
    BY <1>0, <2>1 DEF View, CanWrite, OneRow
  <2>3. Candidate(p).of = cmd[p].of /\ Candidate(p).finding = now[p]
    BY DEF Candidate
  <2>4. \A r \in image : ~(r.of = cmd[p].of /\ r.finding = now[p])
    BY <2>1, <2>2 DEF Rows, RowsOf
  <2>5. lock' # NoProc
    BY <2>1, NoProcIsNone
  <2> QED BY <1>0, <2>1, <2>2, <2>3, <2>4, <2>5 DEF OneRow
<1>4. ASSUME NEW p \in Procs, Commit(p) PROVE OneRow'
  <2>1. /\ rows' = View(p) /\ image' = image
        /\ lock' = IF lock = p THEN NoProc ELSE lock
    BY <1>4 DEF Commit
  <2> QED BY <1>0, <2>1 DEF OneRow, View
<1>5. ASSUME NEW p \in Procs, Annotate(p) PROVE OneRow'
  <2> DEFINE New(r) == [r EXCEPT !.review = cmd[p].review]
  <2>1. /\ pc[p] = "annotate" /\ lock = NoProc /\ lock' = lock
        /\ rows' = (rows \ Rows(p)) \cup {New(r) : r \in found[p]}
        /\ image' = rows'
    BY <1>5 DEF Annotate
  <2>2. image = rows /\ View(p) = rows
    BY <1>0, <2>1, NoProcIsNone DEF OneRow, View
  <2>3. ASSUME NEW s \in found[p]
        PROVE  /\ New(s) = [of |-> cmd[p].of, finding |-> now[p], param |-> s.param,
                            review |-> cmd[p].review]
               /\ \E r \in rows : r.of = cmd[p].of /\ r.finding = now[p] /\ r.param = s.param
    BY <1>0, <2>1 DEF TypeOK, AckHolds, IsRow
  <2>4. ASSUME NEW s \in found[p], NEW t \in found[p] PROVE New(s) = New(t)
    <3>1. PICK r \in rows : r.of = cmd[p].of /\ r.finding = now[p] /\ r.param = s.param
      BY <2>3
    <3>2. PICK q \in rows : q.of = cmd[p].of /\ q.finding = now[p] /\ q.param = t.param
      BY <2>3
    <3>3. r = q
      BY <1>0, <2>2, <3>1, <3>2 DEF OneRow
    <3> QED BY <2>3, <3>1, <3>2, <3>3
  <2>5. \A s \in found[p] : New(s).of = cmd[p].of /\ New(s).finding = now[p]
    BY <2>3
  <2>6. \A r \in rows \ Rows(p) : ~(r.of = cmd[p].of /\ r.finding = now[p])
    BY <2>2 DEF Rows, RowsOf
  <2>7. ASSUME NEW r \in rows', NEW s \in rows', r.of = s.of, r.finding = s.finding
        PROVE  r = s
    <3>1. CASE r \in rows \ Rows(p) /\ s \in rows \ Rows(p)
      BY <1>0, <2>7, <3>1 DEF OneRow
    <3>2. CASE r \in rows \ Rows(p) /\ s \in {New(t) : t \in found[p]}
      BY <2>5, <2>6, <2>7, <3>2
    <3>3. CASE r \in {New(t) : t \in found[p]} /\ s \in rows \ Rows(p)
      BY <2>5, <2>6, <2>7, <3>3
    <3>4. CASE r \in {New(t) : t \in found[p]} /\ s \in {New(t) : t \in found[p]}
      BY <2>4, <3>4
    <3> QED BY <2>1, <2>7, <3>1, <3>2, <3>3, <3>4
  <2> QED BY <2>1, <2>7 DEF OneRow
<1> QED BY <1>0, <1>1, <1>2, <1>3, <1>4, <1>5, Steps
-----------------------------------------------------------------------------
(* What a step does to the rows that were committed before it. *)

KeptBut(r, s) ==
    /\ [s EXCEPT !.review = r.review] = r
    /\ s # r => \E p \in Procs : /\ pc[p] = "annotate"
                                 /\ cmd[p].of = r.of
                                 /\ now[p] = r.finding
                                 /\ cmd[p].review = s.review

LEMMA UnchangedRow == ASSUME NEW r, IsRow(r) PROVE [r EXCEPT !.review = r.review] = r
BY DEF IsRow

LEMMA KeepStep == IInv /\ [Next]_vars => \A r \in rows : \E s \in rows' : KeptBut(r, s)
<1> SUFFICES ASSUME IInv, [Next]_vars, NEW r \in rows
             PROVE  \E s \in rows' : KeptBut(r, s)
  OBVIOUS
<1>0. TypeOK /\ OneRow /\ AckHolds /\ IsRow(r)
  BY DEF IInv, TypeOK
<1>1. KeptBut(r, r)
  BY <1>0, UnchangedRow DEF KeptBut
<1>2. CASE Quiet
  BY <1>1, <1>2 DEF Quiet
<1>3. ASSUME NEW p \in Procs, Abort(p) \/ Insert(p) PROVE r \in rows'
  BY <1>3 DEF Abort, Insert
<1>4. ASSUME NEW p \in Procs, Commit(p) PROVE r \in rows'
  BY <1>0, <1>4 DEF Commit, View, OneRow
<1>5. ASSUME NEW p \in Procs, Annotate(p) PROVE \E s \in rows' : KeptBut(r, s)
  <2> DEFINE New(s) == [s EXCEPT !.review = cmd[p].review]
  <2>1. /\ pc[p] = "annotate" /\ lock = NoProc
        /\ rows' = (rows \ Rows(p)) \cup {New(s) : s \in found[p]}
    BY <1>5 DEF Annotate
  <2>2. CASE r \notin Rows(p)
    BY <1>1, <2>1, <2>2
  <2>3. CASE r \in Rows(p)
    <3>1. r.of = cmd[p].of /\ r.finding = now[p]
      BY <2>3 DEF Rows, RowsOf
    <3>2. PICK t \in found[p] : TRUE
      BY <1>0, <2>1 DEF AckHolds
    <3>3. /\ IsRow(t) /\ t.of = cmd[p].of /\ t.finding = now[p]
          /\ \E q \in rows : q.of = t.of /\ q.finding = t.finding /\ q.param = t.param
      BY <1>0, <2>1, <3>2 DEF AckHolds, TypeOK
    <3>4. t.param = r.param
      BY <1>0, <3>1, <3>3 DEF OneRow
    <3>5. New(t) = [of |-> r.of, finding |-> r.finding, param |-> r.param,
                    review |-> cmd[p].review]
      BY <3>1, <3>3, <3>4 DEF IsRow
    <3>6. [New(t) EXCEPT !.review = r.review] = r
      BY <1>0, <3>5 DEF IsRow
    <3>7. New(t).review = cmd[p].review
      BY <3>5
    <3>8. KeptBut(r, New(t))
      BY <2>1, <3>1, <3>6, <3>7 DEF KeptBut
    <3> QED BY <2>1, <3>2, <3>8
  <2> QED BY <2>2, <2>3
<1> QED BY <1>1, <1>2, <1>3, <1>4, <1>5, Steps, <1>0

\* So a row keeps its table, its finding and its parameters for good.
LEMMA AnchorKept ==
    IInv /\ [Next]_vars =>
        \A r \in rows : \E s \in rows' :
            s.of = r.of /\ s.finding = r.finding /\ s.param = r.param
<1> SUFFICES ASSUME IInv, [Next]_vars, NEW r \in rows
             PROVE  \E s \in rows' : s.of = r.of /\ s.finding = r.finding /\ s.param = r.param
  OBVIOUS
<1>1. PICK s \in rows' : [s EXCEPT !.review = r.review] = r
  BY KeepStep DEF KeptBut
<1>2. IsRow(r) /\ IsRow(s)
  <2>1. TypeOK'
    BY TypeStep DEF IInv
  <2>2. \A q \in rows' : IsRow(q)
    BY <2>1 DEF TypeOK
  <2> QED BY <2>2 DEF IInv, TypeOK
<1>3. [s EXCEPT !.review = r.review] =
        [of |-> s.of, finding |-> s.finding, param |-> s.param, review |-> r.review]
  BY <1>2 DEF IsRow
<1> QED BY <1>1, <1>3

-----------------------------------------------------------------------------
(* The other parts of the invariant. *)

\* The process that takes a step, if one does; the others are left as they are.
Others(p) == \A q \in Procs \ {p} :
                /\ pc'[q] = pc[q] /\ cmd'[q] = cmd[q] /\ found'[q] = found[q]
                /\ todo'[q] = todo[q] /\ now'[q] = now[q]

Alone == \A q \in Procs : /\ pc'[q] = pc[q] /\ cmd'[q] = cmd[q]
                          /\ found'[q] = found[q] /\ todo'[q] = todo[q]
                          /\ now'[q] = now[q]

LEMMA Movers ==
    ASSUME TypeOK, NEW p \in Procs
    PROVE  /\ \A c \in TrackCommands : BeginTrack(p, c) =>
                 Others(p) /\ pc'[p] \in {"events", "claims"}
           /\ \A of, f, review : BeginAck(p, of, f, review) =>
                 Others(p) /\ pc'[p] = "look"
           /\ ReadEvents(p) \/ ReadEvidence(p) =>
                 Others(p) /\ pc'[p] \in {"evidence", "claims"}
           /\ Abort(p) \/ Commit(p) \/ Annotate(p) => Others(p) /\ pc'[p] = "idle"
<1>1. ASSUME NEW c \in TrackCommands, BeginTrack(p, c)
      PROVE  Others(p) /\ pc'[p] \in {"events", "claims"}
  BY <1>1 DEF BeginTrack, Others, TypeOK
<1>2. ASSUME NEW of, NEW f, NEW review, BeginAck(p, of, f, review)
      PROVE  Others(p) /\ pc'[p] = "look"
  BY <1>2 DEF BeginAck, Others, TypeOK
<1>3. ASSUME ReadEvents(p) \/ ReadEvidence(p)
      PROVE  Others(p) /\ pc'[p] \in {"evidence", "claims"}
  BY <1>3 DEF ReadEvents, ReadEvidence, Others, TypeOK
<1>4. ASSUME Abort(p) \/ Commit(p) \/ Annotate(p)
      PROVE  Others(p) /\ pc'[p] = "idle"
  BY <1>4 DEF Abort, Commit, Annotate, Others, TypeOK
<1> QED BY <1>1, <1>2, <1>3, <1>4
\* Steps after which p is outside of the parts of a command that IInv tells about.
Away(p) == Others(p) /\ pc'[p] \in {"idle", "events", "evidence", "claims", "look"}

LEMMA WhoMoves ==
    ASSUME TypeOK, [Next]_vars
    PROVE  \/ Alone
           \/ \E p \in Procs : \/ Away(p)
                               \/ Analyse(p) \/ LookUp(p) \/ LeaveTracked(p)
                               \/ Miss(p) \/ Insert(p) \/ AckKnown(p)
<1>1. CASE UNCHANGED vars
  BY <1>1 DEF vars, tracking, Alone
<1>2. CASE CaseGrows
  BY <1>2 DEF CaseGrows, Alone
<1>3. ASSUME NEW p \in Procs, Begin(p) PROVE Away(p)
  BY <1>3, Movers DEF Begin, Away
<1>4. ASSUME NEW p \in Procs, Step(p) \/ Interrupt(p)
      PROVE  \/ Away(p)
             \/ Analyse(p) \/ LookUp(p) \/ LeaveTracked(p)
             \/ Miss(p) \/ Insert(p) \/ AckKnown(p)
  BY <1>4, Movers DEF Step, Interrupt, Away, InsertRejected, AckUnknown, LockTimeout
<1> QED BY <1>1, <1>2, <1>3, <1>4 DEF Next, Finished

\* Inside its block a process stays with its command and what it found; it enters
\* the block by its analysis.
LEMMA BlockKept ==
    ASSUME TypeOK, [Next]_vars, NEW q \in Procs
    PROVE  /\ InBlock(q) => cmd'[q] = cmd[q] /\ found'[q] = found[q]
           /\ InBlock(q)' => InBlock(q) \/ Analyse(q)
<1> DEFINE Claim == /\ InBlock(q) => cmd'[q] = cmd[q] /\ found'[q] = found[q]
                    /\ InBlock(q)' => InBlock(q) \/ Analyse(q)
<1>1. CASE Alone
  BY <1>1 DEF Alone, InBlock
<1>2. ASSUME NEW p \in Procs, Others(p), p # q PROVE Claim
  BY <1>2 DEF Others, InBlock
<1>3. CASE UNCHANGED vars
  BY <1>3 DEF vars, tracking, InBlock
<1>4. CASE CaseGrows
  BY <1>4 DEF CaseGrows, InBlock
<1>5. ASSUME NEW p \in Procs, Begin(p) PROVE Claim
  <2>1. Others(p)
    BY <1>5, Movers DEF Begin
  <2>2. pc[p] = "idle" /\ pc'[p] \in {"events", "claims", "look"}
    BY <1>5, Movers DEF Begin, BeginTrack, BeginAck
  <2> QED BY <1>2, <2>1, <2>2 DEF InBlock
<1>6. ASSUME NEW p \in Procs, Abort(p) \/ Commit(p) PROVE Claim
  <2>1. Others(p) /\ pc'[p] = "idle"
    BY <1>6, Movers
  <2>2. cmd' = cmd /\ found' = found
    BY <1>6 DEF Abort, Commit
  <2> QED BY <1>2, <2>1, <2>2 DEF InBlock
<1>7. ASSUME NEW p \in Procs, ReadEvents(p) \/ ReadEvidence(p) PROVE Claim
  BY <1>7 DEF ReadEvents, ReadEvidence, InBlock, TypeOK
<1>8. ASSUME NEW p \in Procs, Analyse(p) PROVE Claim
  BY <1>8 DEF Analyse, InBlock, TypeOK
<1>9. ASSUME NEW p \in Procs, LookUp(p) \/ LeaveTracked(p) \/ Miss(p) \/ Insert(p) PROVE Claim
  BY <1>9 DEF LookUp, LeaveTracked, Miss, Insert, Advance, InBlock, TypeOK
<1>10. ASSUME NEW p \in Procs, AckKnown(p) \/ Annotate(p) PROVE Claim
  BY <1>10 DEF AckKnown, Annotate, InBlock, TypeOK
<1>11. ASSUME NEW p \in Procs, Step(p) \/ Interrupt(p) PROVE Claim
  BY <1>6, <1>7, <1>8, <1>9, <1>10, <1>11
  DEF Step, Interrupt, InsertRejected, AckUnknown, LockTimeout
<1> QED BY <1>3, <1>4, <1>5, <1>11 DEF Next, Finished

\* What a process in its block has seen tracked, it goes on seeing.
LEMMA ViewKept ==
    ASSUME IInv, [Next]_vars, NEW q \in Procs, InBlock(q), InBlock(q)', NEW of, NEW f,
           RowsOf(View(q), of, f) # {}
    PROVE  RowsOf(View(q), of, f)' # {}
<1>0. TypeOK /\ OneRow
  BY DEF IInv
<1>1. PICK r \in View(q) : r.of = of /\ r.finding = f
  BY DEF RowsOf
<1>2. SUFFICES \E s \in View(q)' : s.of = of /\ s.finding = f
  BY <1>2 DEF RowsOf
<1>3. CASE lock' # q /\ lock # q
  BY <1>1, <1>3, AnchorKept DEF View
<1>4. CASE Quiet
  BY <1>1, <1>4 DEF Quiet, View
<1>5. ASSUME NEW p \in Procs, Abort(p) \/ Commit(p) \/ Annotate(p)
      PROVE  \E s \in View(q)' : s.of = of /\ s.finding = f
  <2>1. Others(p) /\ pc'[p] = "idle"
    BY <1>0, <1>5, Movers
  <2>2. p # q
    BY <2>1 DEF InBlock
  <2>3. CASE lock = q
    <3>1. ~Annotate(p)
      BY <1>0, <2>3, NoProcIsNone DEF Annotate
    <3>2. lock' = lock /\ image' = image
      BY <1>5, <2>2, <2>3, <3>1 DEF Abort, Commit
    <3> QED BY <1>1, <2>3, <3>2 DEF View
  <2>4. CASE lock # q
    <3>1. lock' # q
      BY <1>5, <2>4, NoProcIsNone DEF Abort, Commit, Annotate
    <3> QED BY <1>3, <2>4, <3>1
  <2> QED BY <2>3, <2>4
<1>6. ASSUME NEW p \in Procs, Insert(p)
      PROVE  \E s \in View(q)' : s.of = of /\ s.finding = f
  <2>1. lock' = p /\ image' = View(p) \cup {Candidate(p)} /\ lock \in {NoProc, p}
    BY <1>6 DEF Insert, CanWrite
  <2>2. CASE p = q
    BY <1>1, <2>1, <2>2 DEF View
  <2>3. CASE p # q
    BY <1>3, <2>1, <2>3, NoProcIsNone
  <2> QED BY <2>2, <2>3
<1> QED BY <1>0, <1>4, <1>5, <1>6, Steps
LEMMA AckHoldsStep == IInv /\ [Next]_vars => AckHolds'
<1> SUFFICES ASSUME IInv, [Next]_vars PROVE AckHolds'
  OBVIOUS
<1>0. TypeOK /\ OneRow /\ AckHolds
  BY DEF IInv
<1> DEFINE Held(q) == /\ found[q] # {}
                      /\ \A s \in found[q] : /\ s.of = cmd[q].of
                                             /\ s.finding = now[q]
                                             /\ \E r \in rows : /\ r.of = s.of
                                                                /\ r.finding = s.finding
                                                                /\ r.param = s.param
<1>1. ASSUME NEW q \in Procs, pc[q] = "annotate", found'[q] = found[q],
             cmd'[q] = cmd[q], now'[q] = now[q]
      PROVE  Held(q)'
  <2>1. Held(q)
    BY <1>0, <1>1 DEF AckHolds
  <2>2. ASSUME NEW s \in found[q]
        PROVE  \E r \in rows' : r.of = s.of /\ r.finding = s.finding /\ r.param = s.param
    BY <2>1, AnchorKept
  <2> QED BY <1>1, <2>1, <2>2
<1>2. SUFFICES ASSUME NEW q \in Procs, pc'[q] = "annotate" PROVE Held(q)'
  BY <1>2 DEF AckHolds
<1>3. CASE Alone
  BY <1>1, <1>2, <1>3 DEF Alone
<1>4. ASSUME NEW p \in Procs, Others(p), p # q PROVE Held(q)'
  BY <1>1, <1>2, <1>4 DEF Others
<1>5. ASSUME NEW p \in Procs, Away(p) PROVE Held(q)'
  BY <1>2, <1>4, <1>5 DEF Away
<1>6. ASSUME NEW p \in Procs,
             Analyse(p) \/ LookUp(p) \/ LeaveTracked(p) \/ Miss(p) \/ Insert(p)
      PROVE  Held(q)'
  <2>1. Others(p) /\ pc'[p] # "annotate"
    BY <1>0, <1>6
    DEF Analyse, LookUp, LeaveTracked, Miss, Insert, Advance, Others, TypeOK
  <2> QED BY <1>2, <1>4, <2>1
<1>7. ASSUME NEW p \in Procs, AckKnown(p) PROVE Held(q)'
  <2>1. Others(p)
    BY <1>0, <1>7 DEF AckKnown, Others, TypeOK
  <2>2. CASE p # q
    BY <1>4, <2>1, <2>2
  <2>3. CASE p = q
    <3>1. /\ found'[q] = Rows(q) /\ Rows(q) # {} /\ cmd' = cmd /\ now' = now
          /\ rows' = rows
      BY <1>0, <1>7, <2>3 DEF AckKnown, TypeOK
    <3>2. lock # q
      BY <1>0, <1>7, <2>3 DEF TypeOK, AckKnown
    <3>3. \A s \in Rows(q) : s \in rows /\ s.of = cmd[q].of /\ s.finding = now[q]
      BY <3>2 DEF Rows, RowsOf, View
    <3> QED BY <3>1, <3>3
  <2> QED BY <2>2, <2>3
<1> QED BY <1>0, <1>3, <1>5, <1>6, <1>7, WhoMoves

LEMMA UnderwayStep == IInv /\ [Next]_vars => Underway'
<1> SUFFICES ASSUME IInv, [Next]_vars PROVE Underway'
  OBVIOUS
<1>0. TypeOK /\ Underway
  BY DEF IInv
<1> DEFINE Has(q, f) == RowsOf(View(q), cmd[q].of, f) # {}
           Going(q) == /\ todo[q] \subseteq found[q]
                       /\ \A f \in found[q] : f \in todo[q] \/ Has(q, f)
                       /\ pc[q] # "track" => now[q] \in todo[q]
<1>1. SUFFICES ASSUME NEW q \in Procs, InBlock(q)' PROVE Going(q)'
  BY <1>1 DEF Underway
<1>2. ASSUME InBlock(q), NEW f, Has(q, f) PROVE Has(q, f)'
  <2>1. cmd'[q] = cmd[q]
    BY <1>0, <1>2, BlockKept
  <2>2. RowsOf(View(q), cmd[q].of, f) # {}
    BY <1>2
  <2> DEFINE of == cmd[q].of
  <2>3. cmd'[q].of = of
    BY <2>1
  <2>4. \A x : RowsOf(View(q), x, f) # {} => RowsOf(View(q)', x, f) # {}
    BY <1>1, <1>2, ViewKept DEF RowsOf
  <2>5. RowsOf(View(q)', of, f) # {}
    BY <2>2, <2>4
  <2> QED BY <2>3, <2>5 DEF RowsOf
<1>3. ASSUME InBlock(q), pc'[q] = pc[q], todo'[q] = todo[q], now'[q] = now[q]
      PROVE  Going(q)'
  <2>1. found'[q] = found[q]
    BY <1>0, <1>3, BlockKept
  <2>2. Going(q)
    BY <1>0, <1>3 DEF Underway
  <2> QED BY <1>2, <1>3, <2>1, <2>2
<1>4. CASE Alone
  BY <1>1, <1>3, <1>4 DEF Alone, InBlock
<1>5. ASSUME NEW p \in Procs, Others(p), p # q PROVE Going(q)'
  BY <1>1, <1>3, <1>5 DEF Others, InBlock
<1>6. ASSUME NEW p \in Procs, Away(p) PROVE Going(q)'
  BY <1>1, <1>5, <1>6 DEF Away, InBlock
<1>7. ASSUME NEW p \in Procs, Analyse(p) \/ LookUp(p) \/ LeaveTracked(p) \/ Miss(p)
                              \/ Insert(p) \/ AckKnown(p)
      PROVE  Others(p)
  BY <1>0, <1>7
  DEF Analyse, LookUp, LeaveTracked, Miss, Insert, Advance, AckKnown, Others, TypeOK
<1>8. CASE Analyse(q)
  BY <1>0, <1>8 DEF Analyse, TypeOK
<1>9. CASE LookUp(q)
  <2>1. /\ pc[q] = "track" /\ pc'[q] = "create" /\ now'[q] \in todo[q]
        /\ todo' = todo /\ found' = found
    BY <1>0, <1>9 DEF LookUp, TypeOK
  <2>2. InBlock(q) /\ Going(q)
    BY <1>0, <2>1 DEF Underway, InBlock
  <2> QED BY <1>2, <2>1, <2>2
<1>10. CASE LeaveTracked(q)
  <2>1. /\ pc[q] = "create" /\ pc'[q] = "track" /\ todo'[q] = todo[q] \ {now[q]}
        /\ found' = found /\ Has(q, now[q])
    BY <1>0, <1>10 DEF LeaveTracked, Advance, Rows, TypeOK
  <2>2. InBlock(q) /\ Going(q)
    BY <1>0, <2>1 DEF Underway, InBlock
  <2> QED BY <1>2, <2>1, <2>2
<1>11. CASE Miss(q)
  <2>1. /\ pc[q] = "create" /\ pc'[q] = "insert" /\ todo' = todo /\ now' = now
        /\ found' = found
    BY <1>0, <1>11 DEF Miss, TypeOK
  <2>2. InBlock(q) /\ Going(q)
    BY <1>0, <2>1 DEF Underway, InBlock
  <2> QED BY <1>2, <2>1, <2>2
<1>12. CASE Insert(q)
  <2>1. /\ pc[q] = "insert" /\ pc'[q] = "track" /\ todo'[q] = todo[q] \ {now[q]}
        /\ found' = found /\ cmd' = cmd /\ now' = now /\ lock' = q
        /\ Candidate(q) \in image'
    BY <1>0, <1>12 DEF Insert, Advance, TypeOK
  <2>2. InBlock(q) /\ Going(q)
    BY <1>0, <2>1 DEF Underway, InBlock
  <2>3. View(q)' = image'
    BY <2>1 DEF View
  <2>4. Candidate(q).of = cmd[q].of /\ Candidate(q).finding = now[q]
    BY DEF Candidate
  <2>5. RowsOf(View(q)', cmd'[q].of, now[q]) # {}
    BY <2>1, <2>3, <2>4 DEF RowsOf
  <2>6. ASSUME NEW f \in found[q] PROVE f \in todo'[q] \/ RowsOf(View(q)', cmd'[q].of, f) # {}
    <3>1. CASE f = now[q]
      BY <2>5, <3>1
    <3>2. CASE f # now[q] /\ f \in todo[q]
      BY <2>1, <3>2
    <3>3. CASE Has(q, f)
      <4>1. Has(q, f)'
        BY <1>2, <2>2, <3>3
      <4> QED BY <4>1 DEF RowsOf
    <3> QED BY <2>2, <3>1, <3>2, <3>3
  <2>7. todo'[q] \subseteq found'[q]
    BY <2>1, <2>2
  <2> QED BY <2>1, <2>6, <2>7 DEF RowsOf
<1>13. CASE AckKnown(q)
  BY <1>0, <1>1, <1>13 DEF AckKnown, InBlock, TypeOK
<1> QED
  BY <1>0, <1>4, <1>5, <1>6, <1>7, <1>8, <1>9, <1>10, <1>11, <1>12, <1>13, WhoMoves
LEMMA FreshStep == IInv /\ [Next]_vars => Fresh'
<1> SUFFICES ASSUME IInv, [Next]_vars, NEW r \in image', r \notin rows'
             PROVE  /\ lock' \in Procs
                    /\ cmd'[lock'].of = r.of
                    /\ r.finding \in found'[lock']
  BY DEF Fresh
<1>0. TypeOK /\ OneRow /\ Underway /\ Fresh
  BY DEF IInv
<1>1. CASE r \in image /\ r \notin rows /\ lock' = lock
  <2>1. lock \in Procs /\ cmd[lock].of = r.of /\ r.finding \in found[lock]
    BY <1>0, <1>1 DEF Fresh
  <2>2. InBlock(lock)
    BY <1>0, <2>1 DEF TypeOK, InBlock
  <2>3. cmd'[lock] = cmd[lock] /\ found'[lock] = found[lock]
    BY <1>0, <2>1, <2>2, BlockKept
  <2> QED BY <1>1, <2>1, <2>3
<1>2. CASE Quiet
  BY <1>1, <1>2 DEF Quiet
<1>3. ASSUME NEW p \in Procs, Abort(p) PROVE lock # p /\ image' = image /\ rows' = rows /\ lock' = lock
  BY <1>3 DEF Abort
<1>4. ASSUME NEW p \in Procs, Commit(p) PROVE lock # p /\ image' = image /\ rows' = rows /\ lock' = lock
  BY <1>4 DEF Commit, View
<1>5. ASSUME NEW p \in Procs, Annotate(p) PROVE FALSE
  BY <1>5 DEF Annotate
<1>6. ASSUME NEW p \in Procs, Insert(p)
      PROVE  cmd'[p].of = r.of /\ r.finding \in found'[p] /\ lock' = p
  <2>1. /\ lock' = p /\ rows' = rows /\ image' = View(p) \cup {Candidate(p)}
        /\ cmd' = cmd /\ found' = found /\ lock \in {NoProc, p} /\ pc[p] = "insert"
    BY <1>6 DEF Insert, CanWrite
  <2>2. CASE r \in View(p)
    <3>1. r \in image /\ lock = p
      BY <1>0, <2>1, <2>2 DEF View, OneRow
    <3> QED BY <1>1, <2>1, <3>1
  <2>3. CASE r = Candidate(p)
    <3>1. r.of = cmd[p].of /\ r.finding = now[p]
      BY <2>3 DEF Candidate
    <3>2. now[p] \in found[p]
      BY <1>0, <2>1 DEF Underway, InBlock
    <3> QED BY <2>1, <3>1, <3>2
  <2> QED BY <2>1, <2>2, <2>3
<1> QED BY <1>0, <1>1, <1>2, <1>3, <1>4, <1>5, <1>6, Steps

LEMMA ClaimsGrow == ASSUME TypeOK, [Next]_vars PROVE claims \subseteq claims'
<1>1. CASE CaseGrows
  BY <1>1, ObserveGrows DEF CaseGrows, TypeOK
<1>2. CASE UNCHANGED observations
  BY <1>2 DEF observations
<1>3. ASSUME NEW p \in Procs, Begin(p) \/ Step(p) \/ Interrupt(p)
      PROVE  UNCHANGED observations
  BY <1>3
  DEF Begin, BeginTrack, BeginAck, Step, ReadEvents, ReadEvidence, Analyse, LookUp,
      LeaveTracked, Miss, Insert, InsertRejected, Commit, AckUnknown, AckKnown,
      Annotate, LockTimeout, Interrupt, Abort
<1> QED BY <1>1, <1>2, <1>3 DEF Next, Finished, vars

\* More claims contradict each other no less.
LEMMA ContradictionsGrow ==
    ASSUME NEW less, NEW more, less \subseteq more
    PROVE  TimeContradictions(less) \subseteq TimeContradictions(more)
BY DEF TimeContradictions

LEMMA StandStep == IInv /\ [Next]_vars => Stand'
<1> SUFFICES ASSUME IInv, [Next]_vars PROVE Stand'
  OBVIOUS
<1> DEFINE Disputed == TimeContradictions(claims)
<1>0. TypeOK /\ OneRow /\ AckHolds /\ Underway /\ Stand
  BY DEF IInv
<1>1. Disputed \subseteq Disputed'
  <2>1. claims \subseteq claims'
    BY <1>0, ClaimsGrow
  <2>2. TimeContradictions(claims) \subseteq TimeContradictions(claims')
    BY <2>1, ContradictionsGrow
  <2> QED BY <2>2 DEF TimeContradictions, Disagree, Distance, Event
<1>2. ASSUME NEW r \in image', r.of = "contradictions" PROVE r.finding \in Disputed
  <2>1. CASE r \in image
    BY <1>0, <1>2, <2>1 DEF Stand
  <2>2. CASE Quiet
    BY <2>1, <2>2 DEF Quiet
  <2>3. ASSUME NEW p \in Procs, Abort(p) \/ Commit(p) PROVE r \in image
    BY <1>0, <2>3 DEF Abort, Commit, OneRow
  <2>4. ASSUME NEW p \in Procs, Insert(p) PROVE r.finding \in Disputed
    <3>1. image' = View(p) \cup {Candidate(p)} /\ pc[p] = "insert"
      BY <2>4 DEF Insert
    <3>2. CASE r \in View(p)
      BY <1>0, <2>1, <3>2 DEF View, OneRow
    <3>3. CASE r = Candidate(p)
      <4>1. r.of = cmd[p].of /\ r.finding = now[p]
        BY <3>3 DEF Candidate
      <4>2. now[p] \in found[p]
        BY <1>0, <3>1 DEF Underway, InBlock
      <4>3. found[p] \subseteq Disputed
        BY <1>0, <1>2, <3>1, <4>1 DEF Stand, InBlock
      <4> QED BY <4>1, <4>2, <4>3
    <3> QED BY <3>1, <3>2, <3>3
  <2>5. ASSUME NEW p \in Procs, Annotate(p) PROVE r.finding \in Disputed
    <3> DEFINE New(s) == [s EXCEPT !.review = cmd[p].review]
    <3>1. /\ pc[p] = "annotate"
          /\ image' = (rows \ Rows(p)) \cup {New(s) : s \in found[p]}
      BY <2>5 DEF Annotate
    <3>2. CASE r \in rows
      BY <1>0, <2>1, <3>2 DEF OneRow
    <3>3. ASSUME NEW s \in found[p], r = New(s) PROVE r.finding \in Disputed
      <4>1. IsRow(s) /\ \E q \in rows : q.of = s.of /\ q.finding = s.finding
        BY <1>0, <3>1 DEF TypeOK, AckHolds
      <4>2. r.of = s.of /\ r.finding = s.finding
        BY <3>3, <4>1 DEF IsRow
      <4> QED BY <1>0, <1>2, <4>1, <4>2 DEF OneRow, Stand
    <3> QED BY <3>1, <3>2, <3>3
  <2> QED BY <1>0, <2>1, <2>2, <2>3, <2>4, <2>5, Steps
<1>3. ASSUME NEW q \in Procs, InBlock(q)', cmd'[q].of = "contradictions"
      PROVE  found'[q] \subseteq Disputed
  <2>1. CASE InBlock(q)
    <3>1. cmd'[q] = cmd[q] /\ found'[q] = found[q]
      BY <1>0, <2>1, BlockKept
    <3> QED BY <1>0, <1>3, <2>1, <3>1 DEF Stand
  <2>2. CASE Analyse(q)
    BY <1>0, <1>3, <2>2 DEF Analyse, Finds, TypeOK
  <2> QED BY <1>0, <1>3, <2>1, <2>2, BlockKept
<1> QED BY <1>1, <1>2, <1>3 DEF Stand

LEMMA RecordedStep == IInv /\ [Next]_vars => Recorded'
<1> SUFFICES ASSUME IInv, [Next]_vars PROVE Recorded'
  OBVIOUS
<1>0. TypeOK /\ OneRow /\ AckHolds /\ Underway /\ Recorded
  BY DEF IInv
<1>1. ASSUME NEW r \in image', r.of = "gaps" PROVE Passes(r.finding, r.param)
  <2>1. CASE r \in image
    BY <1>0, <1>1, <2>1 DEF Recorded
  <2>2. CASE Quiet
    BY <2>1, <2>2 DEF Quiet
  <2>3. ASSUME NEW p \in Procs, Abort(p) \/ Commit(p) PROVE r \in image
    BY <1>0, <2>3 DEF Abort, Commit, OneRow
  <2>4. ASSUME NEW p \in Procs, Insert(p) PROVE Passes(r.finding, r.param)
    <3>1. image' = View(p) \cup {Candidate(p)} /\ pc[p] = "insert"
      BY <2>4 DEF Insert
    <3>2. CASE r \in View(p)
      BY <1>0, <2>1, <3>2 DEF View, OneRow
    <3>3. CASE r = Candidate(p)
      <4>1. r.of = cmd[p].of /\ r.finding = now[p] /\ r.param = cmd[p].param
        BY <3>3 DEF Candidate
      <4>2. now[p] \in found[p]
        BY <1>0, <3>1 DEF Underway, InBlock
      <4> QED BY <1>0, <1>1, <3>1, <4>1, <4>2 DEF Recorded, InBlock
    <3> QED BY <3>1, <3>2, <3>3
  <2>5. ASSUME NEW p \in Procs, Annotate(p) PROVE Passes(r.finding, r.param)
    <3> DEFINE New(s) == [s EXCEPT !.review = cmd[p].review]
    <3>1. /\ pc[p] = "annotate"
          /\ image' = (rows \ Rows(p)) \cup {New(s) : s \in found[p]}
      BY <2>5 DEF Annotate
    <3>2. CASE r \in rows
      BY <1>0, <2>1, <3>2 DEF OneRow
    <3>3. ASSUME NEW s \in found[p], r = New(s) PROVE Passes(r.finding, r.param)
      <4>1. PICK q \in rows : q.of = s.of /\ q.finding = s.finding /\ q.param = s.param
        BY <1>0, <3>1 DEF AckHolds
      <4>2. IsRow(s)
        BY <1>0, <3>1 DEF TypeOK
      <4>3. r.of = s.of /\ r.finding = s.finding /\ r.param = s.param
        BY <3>3, <4>2 DEF IsRow
      <4> QED BY <1>0, <1>1, <4>1, <4>3 DEF OneRow, Recorded
    <3> QED BY <3>1, <3>2, <3>3
  <2> QED BY <1>0, <2>1, <2>2, <2>3, <2>4, <2>5, Steps
<1>2. ASSUME NEW q \in Procs, InBlock(q)', cmd'[q].of = "gaps", NEW f \in found'[q]
      PROVE  Passes(f, cmd'[q].param)
  <2>1. CASE InBlock(q)
    <3>1. cmd'[q] = cmd[q] /\ found'[q] = found[q]
      BY <1>0, <2>1, BlockKept
    <3> QED BY <1>0, <1>2, <2>1, <3>1 DEF Recorded
  <2>2. CASE Analyse(q)
    <3>1. cmd' = cmd /\ found'[q] = Finds(q)
      BY <1>0, <2>2 DEF Analyse, TypeOK
    <3>2. f \in FindGaps(claims, read[q].events, read[q].lines, read[q].sources,
                         cmd[q].param)
      BY <1>2, <3>1 DEF Finds
    <3> QED BY <3>1, <3>2, GapsPass
  <2> QED BY <1>0, <1>2, <2>1, <2>2, BlockKept
<1> QED BY <1>1, <1>2 DEF Recorded, Passes

LEMMA InvStep == IInv /\ [Next]_vars => IInv'
BY TypeStep, OneRowStep, AckHoldsStep, UnderwayStep, FreshStep, StandStep,
   RecordedStep DEF IInv

LEMMA InvInit == Init => IInv
<1> SUFFICES ASSUME Init PROVE IInv
  OBVIOUS
<1> USE NoProcIsNone, MaxCommandsIsNat, ClaimsAssumption
<1>1. ObservationsOK
  <2>1. /\ declared = [l \in Lines |-> IF l \in DOMAIN Earlier THEN Earlier[l] ELSE {}]
        /\ known = DOMAIN Earlier /\ claims = DerivedFrom(DOMAIN Earlier)
    BY DEF Init, InitiallyObserved
  <2>2. \A l \in DOMAIN Earlier : Earlier[l] \in SUBSET SourceIds
    OBVIOUS
  <2>3. declared \in [Lines -> SUBSET SourceIds]
    BY <2>1, <2>2
  <2>4. \A c \in claims : c \in Claims /\ Event(c) \in known /\ Evidence(c) \in known
    BY <2>1 DEF DerivedFrom, Event, Evidence
  <2> QED BY <2>1, <2>3, <2>4 DEF ObservationsOK
<1>2. /\ rows = {} /\ image = {} /\ lock = NoProc /\ started = 0
      /\ pc = [p \in Procs |-> "idle"]
      /\ \E c \in TrackCommands : cmd = [p \in Procs |-> c]
      /\ read = [p \in Procs |-> Unread] /\ found = [p \in Procs |-> {}]
      /\ todo = [p \in Procs |-> {}] /\ now = [p \in Procs |-> NoFinding]
      /\ new = [p \in Procs |-> {}]
  BY DEF Init
<1>3. TypeOK
  BY <1>1, <1>2 DEF TypeOK
<1> QED BY <1>2, <1>3 DEF IInv, OneRow, AckHolds, Underway, InBlock, Fresh, Stand, Recorded

-----------------------------------------------------------------------------
(* The theorems. *)

\* The invariant the others rest on: every reachable state satisfies IInv.
THEOREM Invariant == Spec => []IInv
BY InvInit, InvStep, PTL DEF Spec

\* The types of Tracking hold throughout, and a process that holds the write lock
\* is inside its transaction block.
THEOREM TrackingTypes == Spec => []TypeOK
BY Invariant, PTL DEF IInv

\* A finding never has two rows, what an analyst wrote about it changes only by
\* another annotation, and no row or anchor is lost, however many processes track
\* and annotate at once.
THEOREM ReviewsAreKept == Spec => ReviewKept
<1>1. IInv /\ [Next]_vars =>
        [/\ \A r, s \in rows' : r.of = s.of /\ r.finding = s.finding => r = s
         /\ \A r \in rows : \E s \in rows' :
               /\ [s EXCEPT !.review = r.review] = r
               /\ s # r => \E p \in Procs : /\ pc[p] = "annotate"
                                            /\ cmd[p].of = r.of
                                            /\ now[p] = r.finding
                                            /\ cmd[p].review = s.review]_rows
  <2>1. IInv /\ [Next]_vars =>
          \A r, s \in rows' : r.of = s.of /\ r.finding = s.finding => r = s
    BY OneRowStep DEF OneRow
  <2>2. IInv /\ [Next]_vars =>
          [\A r \in rows : \E s \in rows' :
              /\ [s EXCEPT !.review = r.review] = r
              /\ s # r => \E p \in Procs : /\ pc[p] = "annotate"
                                           /\ cmd[p].of = r.of
                                           /\ now[p] = r.finding
                                           /\ cmd[p].review = s.review]_rows
    BY KeepStep DEF KeptBut
  <2> QED BY <2>1, <2>2
<1> QED BY <1>1, Invariant, PTL DEF Spec, ReviewKept

\* A tracked contradiction is found by every later analysis of its case.
THEOREM TrackedContradictionsStand == Spec => []ContradictionsStand
<1>1. IInv => ContradictionsStand
  BY DEF IInv, OneRow, Stand, ContradictionsStand
<1> QED BY <1>1, Invariant, PTL

\* A finding enters its table with all that the same analysis found.
THEOREM TrackingIsAllOrNothing == Spec => TrackIsWhole
<1>1. IInv /\ [Next]_vars =>
        [\A r \in rows' : RowsOf(rows, r.of, r.finding) = {} =>
            \E p \in Procs :
               /\ cmd[p].of = r.of
               /\ r.finding \in found[p]
               /\ \A f \in found[p] : RowsOf(rows', r.of, f) # {}]_rows
  <2> SUFFICES ASSUME IInv, [Next]_vars, rows' # rows, NEW r \in rows',
                      RowsOf(rows, r.of, r.finding) = {}
               PROVE  \E p \in Procs :
                         /\ cmd[p].of = r.of
                         /\ r.finding \in found[p]
                         /\ \A f \in found[p] : RowsOf(rows', r.of, f) # {}
    OBVIOUS
  <2>0. TypeOK /\ OneRow /\ AckHolds /\ Underway /\ Fresh
    BY DEF IInv
  <2>1. r \notin rows
    BY DEF RowsOf
  <2>2. PICK p \in Procs : Commit(p) \/ Annotate(p)
    BY <2>0, Steps DEF Quiet, Abort, Insert
  <2>3. ~Annotate(p)
    <3> SUFFICES ASSUME Annotate(p) PROVE FALSE
      OBVIOUS
    <3> DEFINE New(s) == [s EXCEPT !.review = cmd[p].review]
    <3>1. pc[p] = "annotate" /\ rows' = (rows \ Rows(p)) \cup {New(s) : s \in found[p]}
      BY DEF Annotate
    <3>2. PICK s \in found[p] : r = New(s)
      BY <2>1, <3>1
    <3>3. IsRow(s) /\ \E q \in rows : q.of = s.of /\ q.finding = s.finding
      BY <2>0, <3>1, <3>2 DEF TypeOK, AckHolds
    <3>4. r.of = s.of /\ r.finding = s.finding
      BY <3>2, <3>3 DEF IsRow
    <3> QED BY <3>3, <3>4 DEF RowsOf
  <2>4. pc[p] = "track" /\ todo[p] = {} /\ rows' = View(p)
    BY <2>2, <2>3 DEF Commit
  <2>5. lock = p
    BY <2>4 DEF View
  <2>6. r \in image
    BY <2>4, <2>5 DEF View
  <2>7. cmd[p].of = r.of /\ r.finding \in found[p]
    BY <2>0, <2>1, <2>5, <2>6 DEF Fresh
  <2>8. \A f \in found[p] : RowsOf(View(p), cmd[p].of, f) # {}
    BY <2>0, <2>4 DEF Underway, InBlock
  <2> QED BY <2>4, <2>7, <2>8
<1> QED BY <1>1, Invariant, PTL DEF Spec, TrackIsWhole

\* The thresholds a gap was first tracked with never hide that it is still found.
THEOREM ThresholdsDoNotMatter == Spec => []ThresholdsNeverMatter
<1>1. ASSUME IInv PROVE ThresholdsNeverMatter
  <2> SUFFICES ASSUME NEW r \in rows, r.of = "gaps", NEW param \in Params,
                      param.refined = r.param.refined, r.finding \in CaseGaps(param)
               PROVE  r.finding \in CaseGaps(r.param)
    BY DEF ThresholdsNeverMatter
  <2>1. Passes(r.finding, r.param)
    BY <1>1 DEF IInv, OneRow, Recorded
  <2> QED BY <2>1, GapsPass DEF CaseGaps
<1> QED BY <1>1, Invariant, PTL

-----------------------------------------------------------------------------
(* Orders. *)

\* A set of numbers has a least one, ...
LEMMA LeastNat ==
  ASSUME NEW T, T \subseteq Nat, T # {}
  PROVE  \E m \in T : \A k \in T : m <= k
<1> DEFINE R == {ss \in Nat \X Nat : ss[1] < ss[2]}
<1>1. IsWellFoundedOn(R, Nat)
  BY NatLessThanWellFounded DEF OpToRel
<1>2. \E x \in T : \A y \in T : <<y, x>> \notin R
  <2> HIDE DEF R
  <2> QED BY <1>1, WFMin
<1>3. \A x, y \in Nat : y < x => <<y, x>> \in R
  OBVIOUS
<1>4. \A x, y \in Nat : ~(y < x) => x <= y
  OBVIOUS
<1> HIDE DEF R
<1> QED BY <1>2, <1>3, <1>4

\* ... hence a set that has 0 and, of each of its numbers, the next has them all.
LEMMA SetInduction ==
  ASSUME NEW S, 0 \in S, \A n \in Nat : n \in S => n + 1 \in S
  PROVE  \A n \in Nat : n \in S
<1> DEFINE T == Nat \ S
<1> SUFFICES ASSUME T # {} PROVE FALSE
  OBVIOUS
<1>1. PICK m \in T : \A k \in T : m <= k
  <2> HIDE DEF T
  <2>1. T \subseteq Nat BY DEF T
  <2> QED BY <2>1, LeastNat
<1>2. m # 0
  OBVIOUS
<1>3. m - 1 \in Nat /\ m - 1 \notin T
  BY <1>1, <1>2
<1> QED BY <1>3

\* R orders any two members of S one way.
IsOrder(R, S) ==
    /\ \A x \in S : <<x, x>> \notin R
    /\ \A x, y \in S : x # y => <<x, y>> \in R \/ <<y, x>> \in R
    /\ \A x, y, z \in S : <<x, y>> \in R /\ <<y, z>> \in R => <<x, z>> \in R

\* The members of a finite set, numbered in that order.
RankIn(S, R, x) == Cardinality({y \in S : <<y, x>> \in R}) + 1

LEMMA Ranks ==
    ASSUME NEW S, IsFiniteSet(S), NEW R, IsOrder(R, S)
    PROVE  /\ \A x \in S : RankIn(S, R, x) \in 1 .. Cardinality(S)
           /\ \A i \in 1 .. Cardinality(S) : \E x \in S : RankIn(S, R, x) = i
           /\ \A x, y \in S : RankIn(S, R, x) = RankIn(S, R, y) => x = y
           /\ \A x, y \in S : RankIn(S, R, x) < RankIn(S, R, y) => <<x, y>> \in R
<1> DEFINE below(x) == {y \in S : <<y, x>> \in R}
           n == Cardinality(S)
           f == [x \in S |-> RankIn(S, R, x)]
           I == {f[x] : x \in S}
<1>1. n \in Nat
  BY FS_CardinalityType
<1>2. ASSUME NEW T \in SUBSET S PROVE IsFiniteSet(T) /\ Cardinality(T) \in Nat
  BY FS_Subset, FS_CardinalityType
<1>3. ASSUME NEW x \in S
      PROVE  /\ below(x) \in SUBSET S /\ x \notin below(x)
             /\ Cardinality(below(x) \cup {x}) = Cardinality(below(x)) + 1
             /\ RankIn(S, R, x) = Cardinality(below(x) \cup {x})
             /\ RankIn(S, R, x) \in 1 .. n
  <2>1. below(x) \in SUBSET S /\ x \notin below(x) /\ below(x) \cup {x} \in SUBSET S
    BY DEF IsOrder
  <2>2. RankIn(S, R, x) = Cardinality(below(x)) + 1
    BY DEF RankIn
  <2> HIDE DEF below
  <2>3. IsFiniteSet(below(x)) /\ Cardinality(below(x)) \in Nat
    BY <1>2, <2>1
  <2>4. Cardinality(below(x) \cup {x}) = Cardinality(below(x)) + 1
    BY <2>1, <2>3, FS_AddElement
  <2>5. Cardinality(below(x) \cup {x}) <= n
    BY <2>1, FS_Subset
  <2> QED BY <1>1, <2>1, <2>2, <2>3, <2>4, <2>5
<1>4. ASSUME NEW x \in S, NEW y \in S, <<x, y>> \in R
      PROVE  RankIn(S, R, x) < RankIn(S, R, y)
  <2>1. below(x) \cup {x} \in SUBSET below(y)
    BY <1>4 DEF IsOrder
  <2>2. RankIn(S, R, y) = Cardinality(below(y)) + 1
    BY DEF RankIn
  <2> HIDE DEF below
  <2>3. IsFiniteSet(below(y)) /\ Cardinality(below(y)) \in Nat
    BY <1>2, <1>3
  <2>4. Cardinality(below(x) \cup {x}) <= Cardinality(below(y))
    BY <2>1, <2>3, FS_Subset
  <2>5. RankIn(S, R, x) \in Nat /\ RankIn(S, R, x) = Cardinality(below(x) \cup {x})
    BY <1>1, <1>3
  <2> QED BY <2>2, <2>3, <2>4, <2>5
<1>5. ASSUME NEW x \in S, NEW y \in S
      PROVE  /\ RankIn(S, R, x) = RankIn(S, R, y) => x = y
             /\ RankIn(S, R, x) < RankIn(S, R, y) => <<x, y>> \in R
  <2>1. RankIn(S, R, x) \in Nat /\ RankIn(S, R, y) \in Nat
    <3>1. \A i \in 1 .. n : i \in Nat
      BY <1>1
    <3>2. RankIn(S, R, x) \in 1 .. n /\ RankIn(S, R, y) \in 1 .. n
      BY <1>3
    <3> QED BY <3>1, <3>2
  <2>2. x = y \/ <<x, y>> \in R \/ <<y, x>> \in R
    BY DEF IsOrder
  <2>3. /\ <<x, y>> \in R => RankIn(S, R, x) < RankIn(S, R, y)
        /\ <<y, x>> \in R => RankIn(S, R, y) < RankIn(S, R, x)
    BY <1>4
  <2> QED BY <2>1, <2>2, <2>3
<1>6. I = 1 .. n
  <2>1. f \in Bijection(S, I)
    BY <1>5 DEF Bijection, Injection, IsInjective, Surjection
  <2>2. ExistsBijection(S, I)
    BY <2>1 DEF ExistsBijection
  <2>3. I \in SUBSET (1 .. n)
    BY <1>3
  <2>4. IsFiniteSet(1 .. n) /\ Cardinality(1 .. n) = n
    BY <1>1, FS_Interval
  <2> HIDE DEF I, f
  <2>5. Cardinality(I) = n
    BY <2>2, FS_Bijection
  <2> QED BY <2>3, <2>4, <2>5, FS_Subset
<1> QED BY <1>3, <1>5, <1>6

\* q is the members of S in the order R.
Ordered(q, S, R) ==
    /\ q \in [1 .. Cardinality(S) -> S]
    /\ \A x \in S : \E n \in 1 .. Cardinality(S) : q[n] = x
    /\ \A i, j \in 1 .. Cardinality(S) : i < j => <<q[i], q[j]>> \in R

LEMMA SortedOrdered ==
    ASSUME NEW S, IsFiniteSet(S), NEW R, IsOrder(R, S),
           NEW q, q = [n \in 1 .. Cardinality(S) |-> CHOOSE x \in S : RankIn(S, R, x) = n]
    PROVE  Ordered(q, S, R)
<1> DEFINE n == Cardinality(S)
<1>1. /\ \A x \in S : RankIn(S, R, x) \in 1 .. n
      /\ \A i \in 1 .. n : \E x \in S : RankIn(S, R, x) = i
      /\ \A x, y \in S : RankIn(S, R, x) = RankIn(S, R, y) => x = y
      /\ \A x, y \in S : RankIn(S, R, x) < RankIn(S, R, y) => <<x, y>> \in R
  BY Ranks
<1> HIDE DEF n
<1>2. \A i \in 1 .. n : q[i] \in S /\ RankIn(S, R, q[i]) = i
  <2> TAKE i \in 1 .. n
  <2>1. q[i] = CHOOSE x \in S : RankIn(S, R, x) = i
    BY DEF n
  <2> QED BY <1>1, <2>1
<1>3. q \in [1 .. n -> S]
  <2>1. q = [i \in 1 .. n |-> q[i]]
    BY DEF n
  <2> QED BY <1>2, <2>1
<1>4. \A x \in S : \E i \in 1 .. n : q[i] = x
  <2> TAKE x \in S
  <2>1. PICK i \in 1 .. n : RankIn(S, R, x) = i
    BY <1>1
  <2>2. q[i] = x
    BY <1>1, <1>2, <2>1
  <2> QED BY <2>2
<1>5. \A i, j \in 1 .. n : i < j => <<q[i], q[j]>> \in R
  <2> SUFFICES ASSUME NEW i \in 1 .. n, NEW j \in 1 .. n, i < j PROVE <<q[i], q[j]>> \in R
    OBVIOUS
  <2>1. RankIn(S, R, q[i]) < RankIn(S, R, q[j])
    BY <1>2
  <2> QED BY <1>1, <1>2, <2>1
<1> QED BY <1>3, <1>4, <1>5 DEF Ordered, n

-----------------------------------------------------------------------------
(* The running end of find_gaps. *)

\* The bounds of a claim are numbers in order.
LEMMA ClaimBounds ==
    ASSUME NEW c \in Claims
    PROVE  From(c) \in Int /\ Upto(c) \in Int /\ From(c) <= Upto(c) /\ c \in Nat
<1>1. ClaimOf[c].value \in Int /\ ClaimOf[c].tolerance \in Nat /\ c \in Nat
  BY ClaimsAssumption
<1> QED BY <1>1 DEF From, Upto

\* The claims of a group, from the earliest start to the latest.
LEMMA GroupOrdered ==
    ASSUME NEW group \in SUBSET Claims, IsFiniteSet(group)
    PROVE  /\ Cardinality(group) \in Nat
           /\ InOrder(group) \in [1 .. Cardinality(group) -> group]
           /\ Len(InOrder(group)) = Cardinality(group)
           /\ \A c \in group : \E k \in 1 .. Cardinality(group) : InOrder(group)[k] = c
           /\ \A i, j \in 1 .. Cardinality(group) :
                 i < j => From(InOrder(group)[i]) <= From(InOrder(group)[j])
<1> DEFINE R == {p \in group \X group : Before(p[1], p[2])}
           n == Cardinality(group)
           s == InOrder(group)
<1>1. n \in Nat
  BY FS_CardinalityType
<1>2. \A c \in group : From(c) \in Int /\ c \in Nat
  BY ClaimBounds
<1>3. \A a, b \in group : <<a, b>> \in R <=> Before(a, b)
  OBVIOUS
<1>4. s = [i \in 1 .. n |->
              CHOOSE x \in group : Cardinality({y \in group : Before(y, x)}) + 1 = i]
  BY DEF InOrder, Sorted
<1> HIDE DEF R, s
<1>5. IsOrder(R, group)
  BY <1>2, <1>3 DEF IsOrder, Before
<1>6. \A x \in group : RankIn(group, R, x) = Cardinality({y \in group : Before(y, x)}) + 1
  <2> TAKE x \in group
  <2>1. {y \in group : <<y, x>> \in R} = {y \in group : Before(y, x)}
    BY <1>3
  <2> QED BY <2>1 DEF RankIn
<1>7. s = [i \in 1 .. n |-> CHOOSE x \in group : RankIn(group, R, x) = i]
  <2>1. \A i \in 1 .. n : (CHOOSE x \in group : RankIn(group, R, x) = i)
           = (CHOOSE x \in group : Cardinality({y \in group : Before(y, x)}) + 1 = i)
    BY <1>6
  <2> QED BY <1>4, <2>1
<1>8. Ordered(s, group, R)
  BY <1>5, <1>7, SortedOrdered
<1>9. /\ s \in [1 .. n -> group]
      /\ \A x \in group : \E i \in 1 .. n : s[i] = x
      /\ \A i, j \in 1 .. n : i < j => <<s[i], s[j]>> \in R
  BY <1>8 DEF Ordered
<1>10. Len(s) = n
  BY <1>1, <1>9
<1>11. \A i, j \in 1 .. n : i < j => From(s[i]) <= From(s[j])
  <2> TAKE i, j \in 1 .. n
  <2> HAVE i < j
  <2>1. s[i] \in group /\ s[j] \in group
    BY <1>9
  <2>2. Before(s[i], s[j])
    BY <1>3, <1>9, <2>1
  <2> QED BY <1>2, <2>1, <2>2 DEF Before
<1> QED BY <1>1, <1>9, <1>10, <1>11 DEF s

\* The place, among the first k of s, of the claim that reaches furthest, the first
\* if there are several.
FirstFurthest(s, k, j) ==
    /\ j \in 1 .. k
    /\ \A i \in 1 .. k : Upto(s[i]) <= Upto(s[j])
    /\ \A i \in 1 .. j - 1 : Upto(s[i]) < Upto(s[j])

LEMMA FurthestNext ==
    ASSUME NEW n \in Nat, NEW s \in [1 .. n -> Claims], NEW k \in 1 .. n, k + 1 \in 1 .. n,
           NEW j, FirstFurthest(s, k, j)
    PROVE  FirstFurthest(s, k + 1, IF Upto(s[k + 1]) > Upto(s[j]) THEN k + 1 ELSE j)
<1>1. \A i \in 1 .. n : Upto(s[i]) \in Int
  BY ClaimBounds
<1>2. j \in 1 .. k /\ k \in Nat
  BY DEF FirstFurthest
<1>3. 1 .. k + 1 = (1 .. k) \cup {k + 1} /\ 1 .. (k + 1) - 1 = 1 .. k
  BY <1>2
<1>4. \A i \in 1 .. k : Upto(s[i]) <= Upto(s[j]) /\ i \in 1 .. n
  BY DEF FirstFurthest
<1>5. CASE Upto(s[k + 1]) > Upto(s[j])
  <2>1. \A i \in 1 .. k : Upto(s[i]) < Upto(s[k + 1])
    BY <1>1, <1>2, <1>4, <1>5
  <2>2. \A i \in 1 .. k + 1 : Upto(s[i]) <= Upto(s[k + 1])
    BY <1>1, <1>3, <1>4, <2>1
  <2>3. FirstFurthest(s, k + 1, k + 1)
    BY <1>2, <1>3, <2>1, <2>2 DEF FirstFurthest
  <2> QED BY <1>5, <2>3
<1>6. CASE ~(Upto(s[k + 1]) > Upto(s[j]))
  <2>1. Upto(s[k + 1]) <= Upto(s[j])
    BY <1>1, <1>2, <1>4, <1>6
  <2>2. \A i \in 1 .. k + 1 : Upto(s[i]) <= Upto(s[j])
    BY <1>3, <1>4, <2>1
  <2>3. FirstFurthest(s, k + 1, j)
    BY <1>2, <1>3, <2>2 DEF FirstFurthest
  <2> QED BY <1>6, <2>3
<1> QED BY <1>5, <1>6

\* There is one, and only one.
LEMMA FurthestThere ==
    ASSUME NEW n \in Nat, NEW s \in [1 .. n -> Claims]
    PROVE  /\ \A k \in 1 .. n : \E j : FirstFurthest(s, k, j)
           /\ \A k \in 1 .. n : \A i, j : FirstFurthest(s, k, i) /\ FirstFurthest(s, k, j) => i = j
<1>1. \A i \in 1 .. n : Upto(s[i]) \in Int
  BY ClaimBounds
<1> DEFINE P == {k \in Nat : k + 1 \in 1 .. n => \E j : FirstFurthest(s, k + 1, j)}
<1>2. 0 \in P
  <2> SUFFICES ASSUME 1 \in 1 .. n PROVE FirstFurthest(s, 1, 1)
    OBVIOUS
  <2>1. 1 .. 1 = {1} /\ 1 .. 1 - 1 = {}
    OBVIOUS
  <2> QED BY <1>1, <2>1 DEF FirstFurthest
<1>3. \A k \in Nat : k \in P => k + 1 \in P
  <2> SUFFICES ASSUME NEW k \in Nat, k \in P, (k + 1) + 1 \in 1 .. n
               PROVE  \E j : FirstFurthest(s, (k + 1) + 1, j)
    OBVIOUS
  <2>1. k + 1 \in 1 .. n
    OBVIOUS
  <2>2. PICK j : FirstFurthest(s, k + 1, j)
    BY <2>1
  <2> DEFINE m == k + 1
  <2>3. m \in 1 .. n /\ m + 1 \in 1 .. n /\ FirstFurthest(s, m, j)
    BY <2>1, <2>2
  <2> HIDE DEF m
  <2>4. \E i : FirstFurthest(s, m + 1, i)
    BY <2>3, FurthestNext
  <2> QED BY <2>4 DEF m
<1> HIDE DEF P
<1>4. \A k \in Nat : k \in P
  BY <1>2, <1>3, SetInduction
<1>5. ASSUME NEW k \in 1 .. n PROVE \E j : FirstFurthest(s, k, j)
  <2>1. k - 1 \in Nat /\ (k - 1) + 1 = k
    OBVIOUS
  <2> DEFINE m == k - 1
  <2>2. m \in P /\ m + 1 = k
    BY <1>4, <2>1
  <2> HIDE DEF m
  <2> QED BY <2>2 DEF P
<1>6. ASSUME NEW k \in 1 .. n, NEW i, NEW j, FirstFurthest(s, k, i), FirstFurthest(s, k, j)
      PROVE  i = j
  <2>1. i \in 1 .. k /\ j \in 1 .. k /\ Upto(s[i]) \in Int /\ Upto(s[j]) \in Int
    BY <1>1, <1>6 DEF FirstFurthest
  <2>2. Upto(s[i]) <= Upto(s[j]) /\ Upto(s[j]) <= Upto(s[i])
    BY <1>6, <2>1 DEF FirstFurthest
  <2>3. ~(i < j)
    BY <1>6, <2>1, <2>2 DEF FirstFurthest
  <2>4. ~(j < i)
    BY <1>6, <2>1, <2>2 DEF FirstFurthest
  <2> QED BY <2>1, <2>3, <2>4
<1> QED BY <1>5, <1>6

\* The running end is that of the claim that reaches furthest so far.
LEMMA FurthestIs ==
    ASSUME NEW n \in Nat, NEW s \in [1 .. n -> Claims], NEW k \in 1 .. n
    PROVE  \E j \in 1 .. k : /\ FurthestOf(s)[k] = s[j]
                             /\ \A i \in 1 .. k : Upto(s[i]) <= Upto(s[j])
<1> DEFINE Is(f) == f = [i \in DOMAIN s |->
                           IF i = 1 THEN s[1]
                           ELSE IF Upto(s[i]) > Upto(f[i - 1]) THEN s[i] ELSE f[i - 1]]
           At(i) == CHOOSE j : FirstFurthest(s, i, j)
           g == [i \in DOMAIN s |-> s[At(i)]]
<1>1. DOMAIN s = 1 .. n
  OBVIOUS
<1>2. \A i \in 1 .. n : FirstFurthest(s, i, At(i))
  BY FurthestThere
<1>3. \A i \in 1 .. n : g[i] = s[At(i)]
  OBVIOUS
<1>4. DOMAIN g = 1 .. n
  OBVIOUS
<1>4a. g = [i \in 1 .. n |-> g[i]]
  OBVIOUS
<1> HIDE DEF g, At
<1>5. ASSUME NEW i \in 1 .. n
      PROVE  g[i] = IF i = 1 THEN s[1]
                    ELSE IF Upto(s[i]) > Upto(g[i - 1]) THEN s[i] ELSE g[i - 1]
  <2>1. CASE i = 1
    <3>1. At(1) = 1
      BY <1>2, <2>1 DEF FirstFurthest
    <3> QED BY <1>3, <2>1, <3>1
  <2>2. CASE i # 1
    <3> DEFINE m == i - 1
    <3>1. m \in 1 .. n /\ m + 1 = i
      BY <2>2
    <3> HIDE DEF m
    <3>2. FirstFurthest(s, m + 1, IF Upto(s[m + 1]) > Upto(s[At(m)]) THEN m + 1 ELSE At(m))
      BY <1>2, <3>1, FurthestNext
    <3>3. At(i) = IF Upto(s[i]) > Upto(s[At(m)]) THEN i ELSE At(m)
      BY <1>2, <3>1, <3>2, FurthestThere
    <3>4. g[i] = IF Upto(s[i]) > Upto(g[m]) THEN s[i] ELSE g[m]
      BY <1>3, <3>1, <3>3
    <3> QED BY <2>2, <3>4 DEF m
  <2> QED BY <2>1, <2>2
<1>6. Is(g)
  BY <1>1, <1>4a, <1>5
<1> DEFINE f == CHOOSE h : Is(h)
<1>7. Is(f)
  <2> HIDE DEF Is
  <2> QED BY <1>6
<1>8. FurthestOf(s) = f
  BY DEF FurthestOf
<1> HIDE DEF f
<1>9. /\ f[1] = s[1]
      /\ \A i \in 2 .. n : f[i] = IF Upto(s[i]) > Upto(f[i - 1]) THEN s[i] ELSE f[i - 1]
  <2>1. 1 \in 1 .. n
    OBVIOUS
  <2> QED BY <1>1, <1>7, <2>1
<1> HIDE DEF Is
<1> DEFINE P == {m \in Nat : m + 1 \in 1 .. n => f[m + 1] = g[m + 1]}
<1>10. 0 \in P
  BY <1>5, <1>9
<1>11. \A m \in Nat : m \in P => m + 1 \in P
  <2> SUFFICES ASSUME NEW m \in Nat, m \in P, (m + 1) + 1 \in 1 .. n
               PROVE  f[(m + 1) + 1] = g[(m + 1) + 1]
    OBVIOUS
  <2> DEFINE i == (m + 1) + 1
  <2>1. i \in 2 .. n /\ i \in 1 .. n /\ i # 1 /\ i - 1 = m + 1 /\ m + 1 \in 1 .. n
    OBVIOUS
  <2>2. f[i - 1] = g[i - 1]
    BY <2>1
  <2> HIDE DEF i
  <2>3. f[i] = g[i]
    BY <1>5, <1>9, <2>1, <2>2
  <2> QED BY <2>3 DEF i
<1> HIDE DEF P
<1>12. \A m \in Nat : m \in P
  BY <1>10, <1>11, SetInduction
<1>13. f[k] = g[k]
  <2>1. k - 1 \in Nat /\ (k - 1) + 1 = k
    OBVIOUS
  <2> DEFINE m == k - 1
  <2>2. m \in P /\ m + 1 = k
    BY <1>12, <2>1
  <2> HIDE DEF m
  <2> QED BY <2>2 DEF P
<1>14. FirstFurthest(s, k, At(k))
  BY <1>2
<1> QED BY <1>3, <1>8, <1>13, <1>14 DEF FirstFurthest

-----------------------------------------------------------------------------
(* What find_gaps finds. *)

\* The k-th claim of s begins after a silence: what those before it reach, and when
\* it begins.
Ends(s, k) == <<Upto(FurthestOf(s)[k - 1]), From(s[k])>>

\* Where the findings about two groups are, and what they say.
LEMMA FoundAre ==
    ASSUME NEW absent, NEW present, NEW silent, NEW active, NEW param
    PROVE  \A f : f \in FindingsOf(absent, present, silent, active, param) <=>
              \E k \in 2 .. Len(InOrder(silent)) :
                 LET s == InOrder(silent)
                     x == Ends(s, k)
                 IN /\ x[1] < x[2] /\ x[2] - x[1] >= param.minGap
                    /\ Cardinality(ActiveDuring(active, x[1], x[2])) >= param.minCorroborating
                    /\ f = [absent |-> absent, present |-> present, start |-> x[1],
                            end |-> x[2], corroborating |-> ActiveDuring(active, x[1], x[2]),
                            bounds |-> <<FurthestOf(s)[k - 1], s[k]>>]
<1> DEFINE s == InOrder(silent)
           Bounds(k) == <<FurthestOf(s)[k - 1], s[k]>>
           Active(k) == ActiveDuring(active, Upto(Bounds(k)[1]), From(Bounds(k)[2]))
           Counts(k) == /\ Upto(Bounds(k)[1]) < From(Bounds(k)[2])
                        /\ From(Bounds(k)[2]) - Upto(Bounds(k)[1]) >= param.minGap
                        /\ Cardinality(Active(k)) >= param.minCorroborating
           Finding(k) == GapFinding(absent, present, Bounds(k), Active(k))
<1>1. FindingsOf(absent, present, silent, active, param)
         = {Finding(k) : k \in {i \in 2 .. Len(s) : Counts(i)}}
  BY DEF FindingsOf
<1>2. ASSUME NEW k
      PROVE  /\ Counts(k) <=>
                   /\ Ends(s, k)[1] < Ends(s, k)[2]
                   /\ Ends(s, k)[2] - Ends(s, k)[1] >= param.minGap
                   /\ Cardinality(ActiveDuring(active, Ends(s, k)[1], Ends(s, k)[2]))
                         >= param.minCorroborating
             /\ Finding(k) = [absent |-> absent, present |-> present, start |-> Ends(s, k)[1],
                              end |-> Ends(s, k)[2],
                              corroborating |-> ActiveDuring(active, Ends(s, k)[1], Ends(s, k)[2]),
                              bounds |-> <<FurthestOf(s)[k - 1], s[k]>>]
  <2>1. Bounds(k)[1] = FurthestOf(s)[k - 1] /\ Bounds(k)[2] = s[k]
    OBVIOUS
  <2>2. Ends(s, k)[1] = Upto(Bounds(k)[1]) /\ Ends(s, k)[2] = From(Bounds(k)[2])
    BY <2>1 DEF Ends
  <2> HIDE DEF s
  <2> QED BY <2>2 DEF GapFinding
<1> HIDE DEF s, Bounds, Active, Counts, Finding
<1>3. \A f : f \in FindingsOf(absent, present, silent, active, param) <=>
          \E k \in 2 .. Len(s) : Counts(k) /\ f = Finding(k)
  BY <1>1
<1>4. \A f : f \in FindingsOf(absent, present, silent, active, param) <=>
          \E k \in 2 .. Len(s) :
             /\ Ends(s, k)[1] < Ends(s, k)[2]
             /\ Ends(s, k)[2] - Ends(s, k)[1] >= param.minGap
             /\ Cardinality(ActiveDuring(active, Ends(s, k)[1], Ends(s, k)[2]))
                   >= param.minCorroborating
             /\ f = [absent |-> absent, present |-> present, start |-> Ends(s, k)[1],
                     end |-> Ends(s, k)[2],
                     corroborating |-> ActiveDuring(active, Ends(s, k)[1], Ends(s, k)[2]),
                     bounds |-> <<FurthestOf(s)[k - 1], s[k]>>]
  BY <1>2, <1>3
<1> QED BY <1>4 DEF s

\* A claim that begins after all before it have ended begins after a silence; and
\* every silence is before such a claim, ...
LEMMA SilencesAre ==
    ASSUME NEW group \in SUBSET Claims, IsFiniteSet(group)
    PROVE  /\ \A k \in 2 .. Len(InOrder(group)) :
                 /\ {FurthestOf(InOrder(group))[k - 1], InOrder(group)[k]} \subseteq group
                 /\ Ends(InOrder(group), k)[1] < Ends(InOrder(group), k)[2]
                       => Ends(InOrder(group), k) \in Silences(group)
           /\ \A x \in Silences(group) :
                 \E k \in 2 .. Len(InOrder(group)) : x = Ends(InOrder(group), k)
           /\ \A j, k \in 2 .. Len(InOrder(group)) :
                 Ends(InOrder(group), j) = Ends(InOrder(group), k)
                    /\ Ends(InOrder(group), j)[1] < Ends(InOrder(group), j)[2] => j = k
<1> DEFINE s == InOrder(group)
           n == Cardinality(group)
           F == FurthestOf(s)
<1>1. /\ n \in Nat /\ s \in [1 .. n -> group] /\ Len(s) = n
      /\ \A c \in group : \E k \in 1 .. n : s[k] = c
      /\ \A i, j \in 1 .. n : i < j => From(s[i]) <= From(s[j])
  BY GroupOrdered
<1>2. \A c \in group : From(c) \in Int /\ Upto(c) \in Int /\ From(c) <= Upto(c)
  BY ClaimBounds
<1> HIDE DEF s, n
<1>3. ASSUME NEW k \in 1 .. n
      PROVE  \E j \in 1 .. k : F[k] = s[j] /\ \A i \in 1 .. k : Upto(s[i]) <= Upto(s[j])
  <2>1. s \in [1 .. n -> Claims]
    BY <1>1
  <2> QED BY <1>1, <2>1, FurthestIs
<1> HIDE DEF F
<1>4. ASSUME NEW k \in 2 .. n
      PROVE  /\ k - 1 \in 1 .. n /\ k \in 1 .. n /\ k \in Nat
             /\ F[k - 1] \in group /\ s[k] \in group
             /\ \A i \in 1 .. k - 1 : i \in 1 .. n /\ Upto(s[i]) <= Upto(F[k - 1])
             /\ \E i \in 1 .. k - 1 : F[k - 1] = s[i]
             /\ Ends(s, k)[1] = Upto(F[k - 1]) /\ Ends(s, k)[2] = From(s[k])
             /\ Ends(s, k) = <<Upto(F[k - 1]), From(s[k])>>
  <2>1. k - 1 \in 1 .. n /\ k \in 1 .. n /\ k \in Nat
    BY <1>1
  <2>2. PICK j \in 1 .. k - 1 : F[k - 1] = s[j] /\ \A i \in 1 .. k - 1 : Upto(s[i]) <= Upto(s[j])
    BY <1>3, <2>1
  <2>3. \A i \in 1 .. k - 1 : i \in 1 .. n
    BY <1>1
  <2>4. F[k - 1] \in group /\ s[k] \in group
    BY <1>1, <2>1, <2>2, <2>3
  <2>5. Ends(s, k) = <<Upto(F[k - 1]), From(s[k])>>
    BY DEF Ends, F
  <2> QED BY <2>1, <2>2, <2>3, <2>4, <2>5
<1>5. ASSUME NEW k \in 2 .. n, Ends(s, k)[1] < Ends(s, k)[2]
      PROVE  Ends(s, k) \in Silences(group)
  <2> DEFINE a == Upto(F[k - 1])
             b == From(s[k])
  <2>1. a \in Int /\ b \in Int /\ a < b /\ F[k - 1] \in group /\ s[k] \in group
    BY <1>2, <1>4, <1>5
  <2>2. ASSUME NEW c \in group PROVE Upto(c) =< a \/ From(c) >= b
    <3>1. PICK i \in 1 .. n : s[i] = c
      BY <1>1
    <3>2. CASE i \in 1 .. k - 1
      BY <1>4, <3>1, <3>2
    <3>3. CASE i = k
      BY <1>2, <3>1, <3>3
    <3>4. CASE k < i
      <4>1. From(s[k]) <= From(s[i])
        BY <1>1, <1>4, <3>4
      <4> QED BY <1>2, <2>1, <3>1, <4>1
    <3> QED BY <1>1, <1>4, <3>2, <3>3, <3>4
  <2>3. <<a, b>> \in {Upto(c) : c \in group} \X {From(c) : c \in group}
    BY <2>1
  <2>4. Ends(s, k) = <<a, b>>
    BY <1>4
  <2> HIDE DEF a, b
  <2>5. <<a, b>>[1] = a /\ <<a, b>>[2] = b
    OBVIOUS
  <2> QED BY <2>1, <2>2, <2>3, <2>4, <2>5 DEF Silences
<1>6. ASSUME NEW x \in Silences(group) PROVE \E k \in 2 .. n : x = Ends(s, k)
  <2>1. PICK c \in group, e \in group : x = <<Upto(c), From(e)>>
    BY DEF Silences
  <2> DEFINE a == Upto(c)
             b == From(e)
  <2>2. /\ a \in Int /\ b \in Int /\ a < b
        /\ \A o \in group : Upto(o) =< a \/ From(o) >= b
    <3>1. x[1] = Upto(c) /\ x[2] = From(e)
      BY <2>1
    <3> QED BY <1>2, <3>1 DEF Silences
  <2> HIDE DEF a, b
  <2> DEFINE T == {i \in 1 .. n : From(s[i]) >= b}
  <2>3. PICK m \in 1 .. n : s[m] = e
    BY <1>1
  <2>4. PICK l \in 1 .. n : s[l] = c
    BY <1>1
  <2>5. m \in T
    BY <1>2, <2>2, <2>3 DEF b
  <2>6. PICK k \in T : \A i \in T : k <= i
    <3>1. T \in SUBSET Nat /\ T # {}
      BY <1>1, <2>5
    <3> HIDE DEF T
    <3> QED BY <3>1, LeastNat
  <2>7. \A i \in 1 .. n : s[i] \in group /\ From(s[i]) \in Int /\ Upto(s[i]) \in Int
                          /\ From(s[i]) <= Upto(s[i]) /\ i \in Nat
    BY <1>1, <1>2
  <2>8. From(s[k]) = b
    <3>1. From(s[k]) >= b /\ k \in 1 .. n
      OBVIOUS
    <3>2. k <= m
      BY <2>5, <2>6
    <3>3. From(s[k]) <= From(s[m])
      BY <1>1, <2>7, <3>1, <3>2
    <3>4. From(s[m]) = b
      BY <2>3 DEF b
    <3> QED BY <2>2, <2>7, <3>1, <3>3, <3>4
  <2>9. l < k
    <3>1. From(s[l]) <= a
      BY <2>4, <2>7 DEF a
    <3>2. ~(From(s[l]) >= b)
      BY <2>2, <2>7, <3>1
    <3>3. l # k /\ ~(k < l)
      <4>1. ASSUME k < l PROVE FALSE
        <5>1. From(s[k]) <= From(s[l])
          BY <1>1, <4>1
        <5> QED BY <2>2, <2>7, <2>8, <3>2, <5>1
      <4> QED BY <2>2, <2>8, <3>2, <4>1
    <3> QED BY <2>7, <3>3
  <2>10. k \in 2 .. n /\ l \in 1 .. k - 1
    BY <1>1, <2>9
  <2>11. \A i \in 1 .. k - 1 : Upto(s[i]) <= a
    <3> TAKE i \in 1 .. k - 1
    <3>1. i \in 1 .. n /\ ~(k <= i)
      BY <1>4, <2>10
    <3>2. ~(From(s[i]) >= b)
      BY <2>6, <3>1
    <3> QED BY <2>2, <2>7, <3>1, <3>2
  <2>12. Upto(F[k - 1]) = a
    <3>1. PICK i \in 1 .. k - 1 : F[k - 1] = s[i]
      BY <1>4, <2>10
    <3>2. Upto(s[i]) <= a
      BY <2>11
    <3>3. Upto(s[l]) <= Upto(F[k - 1])
      BY <1>4, <2>10
    <3>4. Upto(s[l]) = a
      BY <2>4 DEF a
    <3>5. Upto(s[i]) \in Int
      BY <1>4, <2>7, <2>10
    <3> QED BY <2>2, <3>1, <3>2, <3>3, <3>4, <3>5
  <2>13. x = <<a, b>>
    BY <2>1 DEF a, b
  <2>14. x = Ends(s, k)
    BY <1>4, <2>8, <2>10, <2>12, <2>13
  <2> QED BY <2>10, <2>14
<1>7. ASSUME NEW j \in 2 .. n, NEW k \in 2 .. n, Ends(s, j) = Ends(s, k),
             Ends(s, j)[1] < Ends(s, j)[2], j < k
      PROVE  FALSE
  <2>1. j \in 1 .. k - 1 /\ j \in 1 .. n
    BY <1>1, <1>7
  <2>2. Upto(s[j]) <= Upto(F[k - 1])
    BY <1>4, <2>1
  <2>3. Upto(F[k - 1]) = Ends(s, j)[1] /\ From(s[j]) = Ends(s, j)[2]
    BY <1>4, <1>7
  <2>4. s[j] \in group /\ F[k - 1] \in group
    BY <1>4
  <2>5. From(s[j]) <= Upto(s[j]) /\ From(s[j]) \in Int /\ Upto(s[j]) \in Int /\ Upto(F[k - 1]) \in Int
    BY <1>2, <2>4
  <2> QED BY <1>7, <2>2, <2>3, <2>5
<1>8. ASSUME NEW j \in 2 .. n, NEW k \in 2 .. n, Ends(s, j) = Ends(s, k),
             Ends(s, j)[1] < Ends(s, j)[2]
      PROVE  j = k
  <2>1. ~(j < k)
    BY <1>7, <1>8
  <2>2. ~(k < j)
    BY <1>7, <1>8
  <2> QED BY <1>1, <2>1, <2>2
<1>9. \A k \in 2 .. n : {F[k - 1], s[k]} \subseteq group
  BY <1>4
<1> QED BY <1>1, <1>5, <1>6, <1>8, <1>9 DEF s, n, F

\* What FindGaps finds of two groups.
LEMMA FoundOfPair ==
    ASSUME NEW param, NEW absent \in KeysInUse(param.refined),
           NEW present \in KeysInUse(param.refined), NEW f
    PROVE  f \in CaseGaps(param) /\ f.absent = absent /\ f.present = present <=>
              /\ Comparable(absent, present)
              /\ SpansOverlap(GroupOf(absent, param.refined), GroupOf(present, param.refined))
              /\ f \in FindingsOf(absent, present, GroupOf(absent, param.refined),
                                  GroupOf(present, param.refined), param)
<1> DEFINE G(k) == GroupOf(k, param.refined)
           K == KeysInUse(param.refined)
           Pairs == {x \in K \X K : Comparable(x[1], x[2]) /\ SpansOverlap(G(x[1]), G(x[2]))}
           Of(x) == FindingsOf(x[1], x[2], G(x[1]), G(x[2]), param)
<1>1. CaseGaps(param) = UNION {Of(x) : x \in Pairs}
  BY DEF CaseGaps, FindGaps, GroupOf, KeysInUse
<1>2. ASSUME NEW x, f \in Of(x) PROVE f.absent = x[1] /\ f.present = x[2]
  BY <1>2, FoundAre
<1> HIDE DEF Of, Pairs
<1>3. f \in CaseGaps(param) <=> \E x \in Pairs : f \in Of(x)
  BY <1>1
<1>4. \A x \in Pairs : x = <<x[1], x[2]>>
  BY DEF Pairs
<1>5. <<absent, present>> \in Pairs <=>
         Comparable(absent, present) /\ SpansOverlap(G(absent), G(present))
  BY DEF Pairs
<1>6. Of(<<absent, present>>) = FindingsOf(absent, present, G(absent), G(present), param)
  BY DEF Of
<1>7. f \in CaseGaps(param) /\ f.absent = absent /\ f.present = present <=>
         <<absent, present>> \in Pairs /\ f \in Of(<<absent, present>>)
  <2>1. ASSUME f \in CaseGaps(param), f.absent = absent, f.present = present
        PROVE  <<absent, present>> \in Pairs /\ f \in Of(<<absent, present>>)
    <3>1. PICK x \in Pairs : f \in Of(x)
      BY <1>3, <2>1
    <3>2. x = <<absent, present>>
      BY <1>2, <1>4, <2>1, <3>1
    <3> QED BY <3>1, <3>2
  <2>2. ASSUME <<absent, present>> \in Pairs, f \in Of(<<absent, present>>)
        PROVE  f \in CaseGaps(param) /\ f.absent = absent /\ f.present = present
    BY <1>2, <1>3, <2>2
  <2> QED BY <2>1, <2>2
<1> HIDE DEF G
<1> QED BY <1>5, <1>6, <1>7 DEF G

\* Claims active during a silence are those that do not keep out of it.
LEMMA ActiveAre ==
    ASSUME NEW group \in SUBSET Claims, NEW a \in Int, NEW b \in Int
    PROVE  ActiveDuring(group, a, b) = {c \in group : ~(Upto(c) =< a \/ From(c) >= b)}
<1>1. \A c \in group : (From(c) < b /\ Upto(c) > a) <=> ~(Upto(c) =< a \/ From(c) >= b)
  BY ClaimBounds
<1> QED BY <1>1 DEF ActiveDuring

\* A silence of one group that another is active during makes their spans overlap.
LEMMA SilenceOverlaps ==
    ASSUME NEW g \in SUBSET Claims, NEW h \in SUBSET Claims, NEW x \in Silences(g),
           ActiveDuring(h, x[1], x[2]) # {}
    PROVE  SpansOverlap(g, h)
<1>1. PICK c \in g, e \in g : x = <<Upto(c), From(e)>>
  BY DEF Silences
<1>2. x[1] = Upto(c) /\ x[2] = From(e)
  BY <1>1
<1>3. PICK y \in h : From(y) < x[2] /\ Upto(y) > x[1]
  BY DEF ActiveDuring
<1>4. /\ From(c) \in Int /\ Upto(c) \in Int /\ From(c) <= Upto(c)
      /\ From(e) \in Int /\ Upto(e) \in Int /\ From(e) <= Upto(e)
      /\ From(y) \in Int /\ Upto(y) \in Int
  BY ClaimBounds
<1>5. From(c) < Upto(y) /\ From(y) < Upto(e)
  BY <1>2, <1>3, <1>4
<1> QED BY <1>5 DEF SpansOverlap

\* A silence is two times, the first before the second.
LEMMA SilenceIsPair ==
    ASSUME NEW g \in SUBSET Claims, NEW x \in Silences(g)
    PROVE  x = <<x[1], x[2]>> /\ x[1] \in Int /\ x[2] \in Int /\ x[1] < x[2]
<1>1. PICK c \in g, e \in g : x = <<Upto(c), From(e)>>
  BY DEF Silences
<1>2. Upto(c) \in Int /\ From(e) \in Int
  BY ClaimBounds
<1> QED BY <1>1, <1>2 DEF Silences

\* The expected findings about two groups, ...
Told(g, h, param, x) ==
    [start |-> x[1], end |-> x[2], corroborating |-> ActiveDuring(h, x[1], x[2])]

LEMMA ExpectedAre ==
    ASSUME claims \subseteq Claims, NEW absent, NEW present, NEW param
    PROVE  Expected(absent, present, param) =
              {Told(GroupOf(absent, param.refined), GroupOf(present, param.refined), param, x) :
                  x \in {y \in Silences(GroupOf(absent, param.refined)) :
                            y[2] - y[1] >= param.minGap}}
<1> DEFINE g == GroupOf(absent, param.refined)
           h == GroupOf(present, param.refined)
           X == {y \in Silences(g) : y[2] - y[1] >= param.minGap}
           E(x) == [start |-> x[1], end |-> x[2],
                    corroborating |-> {c \in h : ~(Upto(c) =< x[1] \/ From(c) >= x[2])}]
<1>1. Expected(absent, present, param) = {E(x) : x \in X}
  BY DEF Expected
<1>2. g \in SUBSET Claims /\ h \in SUBSET Claims
  BY DEF GroupOf, Resolved
<1> HIDE DEF g, h
<1>3. ASSUME NEW x \in X PROVE E(x) = Told(g, h, param, x)
  <2>1. x[1] \in Int /\ x[2] \in Int
    BY <1>2, SilenceIsPair
  <2>2. ActiveDuring(h, x[1], x[2]) = {c \in h : ~(Upto(c) =< x[1] \/ From(c) >= x[2])}
    BY <1>2, <2>1, ActiveAre
  <2> QED BY <2>2 DEF Told
<1> HIDE DEF X, E
<1>4. Expected(absent, present, param) = {Told(g, h, param, x) : x \in X}
  BY <1>1, <1>3
<1> QED BY <1>4 DEF g, h, X

\* ... are reported.
LEMMA PairFound ==
    ASSUME claims \subseteq Claims, IsFiniteSet(claims), NEW param,
           param.minCorroborating \in Nat \ {0},
           NEW absent \in KeysInUse(param.refined), NEW present \in KeysInUse(param.refined)
    PROVE  LET reported == {f \in CaseGaps(param) : f.absent = absent /\ f.present = present}
               Stripped(f) == [start |-> f.start, end |-> f.end,
                               corroborating |-> f.corroborating]
           IN /\ {Stripped(f) : f \in reported} =
                    {x \in Expected(absent, present, param) :
                       /\ Comparable(absent, present)
                       /\ Cardinality(x.corroborating) >= param.minCorroborating}
              /\ \A f, g \in reported : Stripped(f) = Stripped(g) => f = g
              /\ \A f \in reported : Range(f.bounds) \subseteq GroupOf(absent, param.refined)
<1> DEFINE reported == {f \in CaseGaps(param) : f.absent = absent /\ f.present = present}
           Stripped(f) == [start |-> f.start, end |-> f.end, corroborating |-> f.corroborating]
           g == GroupOf(absent, param.refined)
           h == GroupOf(present, param.refined)
           s == InOrder(g)
           Of(k) == [absent |-> absent, present |-> present, start |-> Ends(s, k)[1],
                     end |-> Ends(s, k)[2],
                     corroborating |-> ActiveDuring(h, Ends(s, k)[1], Ends(s, k)[2]),
                     bounds |-> <<FurthestOf(s)[k - 1], s[k]>>]
           Passing(x) == /\ x[2] - x[1] >= param.minGap
                         /\ Cardinality(ActiveDuring(h, x[1], x[2])) >= param.minCorroborating
<1>1. g \in SUBSET Claims /\ h \in SUBSET Claims /\ IsFiniteSet(g)
  <2>1. g \in SUBSET claims /\ h \in SUBSET claims
    BY DEF GroupOf, Resolved
  <2> QED BY <2>1, FS_Subset
<1>2. \A f : f \in reported <=> /\ Comparable(absent, present)
                             /\ SpansOverlap(g, h)
                             /\ f \in FindingsOf(absent, present, g, h, param)
  BY FoundOfPair
<1>3. \A f : f \in FindingsOf(absent, present, g, h, param) <=>
          \E k \in 2 .. Len(s) : Ends(s, k)[1] < Ends(s, k)[2] /\ Passing(Ends(s, k)) /\ f = Of(k)
  BY FoundAre
<1>4. /\ \A k \in 2 .. Len(s) :
            /\ {FurthestOf(s)[k - 1], s[k]} \subseteq g
            /\ Ends(s, k)[1] < Ends(s, k)[2] => Ends(s, k) \in Silences(g)
      /\ \A x \in Silences(g) : \E k \in 2 .. Len(s) : x = Ends(s, k)
      /\ \A j, k \in 2 .. Len(s) :
            Ends(s, j) = Ends(s, k) /\ Ends(s, j)[1] < Ends(s, j)[2] => j = k
  BY <1>1, SilencesAre
<1>5. \A k : /\ Stripped(Of(k)) = Told(g, h, param, Ends(s, k))
             /\ Of(k).bounds = <<FurthestOf(s)[k - 1], s[k]>>
             /\ Of(k).start = Ends(s, k)[1] /\ Of(k).end = Ends(s, k)[2]
  BY DEF Told
<1>6. \A k : Ends(s, k) = <<Ends(s, k)[1], Ends(s, k)[2]>>
  BY DEF Ends
<1>7. Expected(absent, present, param) =
         {Told(g, h, param, x) : x \in {y \in Silences(g) : y[2] - y[1] >= param.minGap}}
  BY ExpectedAre
<1>8. ASSUME NEW x \in Silences(g), Passing(x) PROVE SpansOverlap(g, h)
  <2>1. ActiveDuring(h, x[1], x[2]) # {}
    <3>1. ASSUME ActiveDuring(h, x[1], x[2]) = {} PROVE FALSE
      BY <1>8, <3>1, FS_EmptySet
    <3> QED BY <3>1
  <2> QED BY <1>1, <2>1, SilenceOverlaps
<1>9. \A x : Told(g, h, param, x).corroborating = ActiveDuring(h, x[1], x[2])
  BY DEF Told
<1>10. \A x \in Silences(g) : x[1] < x[2]
  BY <1>1, SilenceIsPair
<1>11. ASSUME NEW f \in reported
       PROVE  \E k \in 2 .. Len(s) :
                 /\ f = Of(k) /\ Passing(Ends(s, k)) /\ Ends(s, k) \in Silences(g)
                 /\ Comparable(absent, present)
  BY <1>2, <1>3, <1>4
<1>12. ASSUME NEW x \in Silences(g), Passing(x), Comparable(absent, present)
       PROVE  \E k \in 2 .. Len(s) : Of(k) \in reported /\ x = Ends(s, k)
  BY <1>2, <1>3, <1>4, <1>8, <1>10, <1>12
<1> HIDE DEF reported, g, h, s
<1>13. {Stripped(f) : f \in reported} =
         {x \in Expected(absent, present, param) :
            /\ Comparable(absent, present)
            /\ Cardinality(x.corroborating) >= param.minCorroborating}
  <2>1. ASSUME NEW f \in reported
        PROVE  /\ Stripped(f) \in Expected(absent, present, param)
               /\ Comparable(absent, present)
               /\ Cardinality(Stripped(f).corroborating) >= param.minCorroborating
    <3>1. PICK k \in 2 .. Len(s) : /\ f = Of(k) /\ Passing(Ends(s, k))
                                   /\ Ends(s, k) \in Silences(g) /\ Comparable(absent, present)
      BY <1>11
    <3>2. Stripped(f) = Told(g, h, param, Ends(s, k))
      BY <1>5, <3>1
    <3> HIDE DEF Stripped, Of
    <3> QED BY <1>7, <1>9, <3>1, <3>2
  <2>2. ASSUME NEW e \in Expected(absent, present, param), Comparable(absent, present),
               Cardinality(e.corroborating) >= param.minCorroborating
        PROVE  \E f \in reported : e = Stripped(f)
    <3>1. PICK x \in Silences(g) : x[2] - x[1] >= param.minGap /\ e = Told(g, h, param, x)
      BY <1>7
    <3>2. Passing(x)
      BY <1>9, <2>2, <3>1
    <3>3. PICK k \in 2 .. Len(s) : Of(k) \in reported /\ x = Ends(s, k)
      BY <1>12, <2>2, <3>2
    <3>4. Stripped(Of(k)) = e
      BY <1>5, <3>1, <3>3
    <3> HIDE DEF Stripped, Of
    <3> QED BY <3>3, <3>4
  <2> HIDE DEF Stripped
  <2> QED BY <2>1, <2>2
<1>14. ASSUME NEW e \in reported, NEW f \in reported, Stripped(e) = Stripped(f) PROVE e = f
  <2>1. PICK j \in 2 .. Len(s) : e = Of(j) /\ Ends(s, j) \in Silences(g)
    BY <1>11
  <2>2. PICK k \in 2 .. Len(s) : f = Of(k)
    BY <1>11
  <2>3. e.start = f.start /\ e.end = f.end
    <3>1. Stripped(e).start = e.start /\ Stripped(f).start = f.start
      OBVIOUS
    <3>2. Stripped(e).end = e.end /\ Stripped(f).end = f.end
      OBVIOUS
    <3> HIDE DEF Stripped
    <3> QED BY <1>14, <3>1, <3>2
  <2>4. Ends(s, j)[1] = Ends(s, k)[1] /\ Ends(s, j)[2] = Ends(s, k)[2]
    <3>1. e.start = Ends(s, j)[1] /\ e.end = Ends(s, j)[2]
      BY <1>5, <2>1
    <3>2. f.start = Ends(s, k)[1] /\ f.end = Ends(s, k)[2]
      BY <1>5, <2>2
    <3> QED BY <2>3, <3>1, <3>2
  <2>5. Ends(s, j) = Ends(s, k)
    BY <1>6, <2>4
  <2>6. j = k
    BY <1>4, <1>10, <2>1, <2>5
  <2> QED BY <2>1, <2>2, <2>6
<1>15. ASSUME NEW f \in reported PROVE Range(f.bounds) \subseteq g
  <2>1. PICK k \in 2 .. Len(s) : f = Of(k)
    BY <1>11
  <2>2. f.bounds = <<FurthestOf(s)[k - 1], s[k]>>
    BY <1>5, <2>1
  <2>3. \A a, b : Range(<<a, b>>) = {a, b}
    <3> TAKE a, b
    <3>1. DOMAIN <<a, b>> = {1, 2} /\ <<a, b>>[1] = a /\ <<a, b>>[2] = b
      OBVIOUS
    <3> QED BY <3>1 DEF Range
  <2> QED BY <1>4, <2>2, <2>3
<1> QED BY <1>13, <1>14, <1>15 DEF reported, g, h

\* The case only records claims that there are, finitely many.
GrowthInv == ObservationsOK /\ IsFiniteSet(claims)

\* However the case grows.
LEMMA GrowthFinite == GrowthSpec => []GrowthInv
<1>1. InitiallyObserved => GrowthInv
  <2> SUFFICES ASSUME InitiallyObserved PROVE GrowthInv
    OBVIOUS
  <2>1. claims = DerivedFrom(DOMAIN Earlier) /\ known = DOMAIN Earlier
    BY DEF InitiallyObserved
  <2>2. IsFiniteSet(claims)
    BY <2>1, DerivedAssumption
  <2>3. declared \in [Lines -> SUBSET SourceIds]
    BY ClaimsAssumption DEF InitiallyObserved
  <2>4. \A c \in claims : c \in Claims /\ {Event(c), Evidence(c)} \subseteq known
    BY <2>1, ClaimsAssumption DEF DerivedFrom, Event, Evidence
  <2>5. known \in SUBSET Lines
    BY <2>1, ClaimsAssumption
  <2> QED BY <2>2, <2>3, <2>4, <2>5 DEF GrowthInv, ObservationsOK
<1>2. GrowthInv /\ [Observe]_observations => GrowthInv'
  <2> SUFFICES ASSUME GrowthInv, [Observe]_observations PROVE GrowthInv'
    OBVIOUS
  <2>1. CASE UNCHANGED observations
    BY <2>1, ObservationsKept DEF GrowthInv, observations
  <2>2. CASE Observe
    <3>1. ObservationsOK'
      BY <2>2, ObserveGrows DEF GrowthInv
    <3>2. IsFiniteSet(claims')
      <4>1. ASSUME NEW l \in Lines, claims' = claims \cup DerivedFrom({l})
            PROVE  IsFiniteSet(claims')
        <5>1. IsFiniteSet(DerivedFrom({l}))
          BY DerivedAssumption
        <5> QED BY <4>1, <5>1, FS_Union DEF GrowthInv
      <4>2. ASSUME NEW c \in Claims, claims' = claims \cup {c} PROVE IsFiniteSet(claims')
        BY <4>2, FS_AddElement DEF GrowthInv
      <4> QED BY <2>2, <4>1, <4>2 DEF Observe, IngestLine, AssertTime
    <3> QED BY <3>1, <3>2 DEF GrowthInv
  <2> QED BY <2>1, <2>2
<1> QED BY <1>1, <1>2, PTL DEF GrowthSpec

\* Of any case and with any parameters find_gaps finds every silence of a source that
\* is long enough and corroborated, once, and nothing else (gaps.py).
THEOREM FindingsAreExact == GrowthSpec => []FindingsExact
<1>1. GrowthInv => FindingsExact
  <2> SUFFICES ASSUME GrowthInv PROVE FindingsExact
    OBVIOUS
  <2>1. claims \subseteq Claims /\ IsFiniteSet(claims)
    BY DEF GrowthInv, ObservationsOK
  <2>2. \A param \in Params : param.minCorroborating \in Nat \ {0}
    BY ParamsAssumption DEF Parameters
  <2> QED BY <2>1, <2>2, PairFound DEF FindingsExact
<1> QED BY <1>1, GrowthFinite, PTL
=============================================================================

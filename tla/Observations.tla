---------------------------- MODULE Observations ----------------------------
(***************************************************************************)
(* The part of a case that its analyses read: evidence lines with the      *)
(* sources they were declared to come from, the events derived from them,  *)
(* and the claims (TimeAssertions) about when those events happened; and   *)
(* the two commands that make it grow, `ingest' and `time-assertions       *)
(* create'.  Here each is one step, its commit: module Ingest has the      *)
(* steps of the first.  Nothing is ever deleted.                           *)
(*                                                                         *)
(* An event is named by the line it is derived from, a claim by a number:  *)
(* the order of numbers is the order of the claims' ids, which are hashes. *)
(***************************************************************************)
EXTENDS Integers, FiniteSets

CONSTANTS
    Lines,          \* lines that yield an event
    SourceIds,      \* declared sources
    Claims,         \* ids of claims
    ClaimOf,        \* ClaimOf[c]: what claim c says
    Attribute,      \* Attribute[l]: the event's value of the refining attribute
    NoValue,        \* the event has no such attribute
    Earlier         \* Earlier[l]: the ids line l was ingested with before

\* `derived': the ingest of its evidence makes the claim; otherwise an analyst.
ASSUME ClaimsAssumption ==
    /\ Claims \subseteq Nat
    /\ ClaimOf \in [Claims -> [event : Lines, evidence : Lines, value : Int,
                               tolerance : Nat, derived : BOOLEAN]]
    \* An ingest derives claims about the event of its own line.
    /\ \A c \in Claims : ClaimOf[c].derived => ClaimOf[c].event = ClaimOf[c].evidence
    /\ DOMAIN Earlier \subseteq Lines
    /\ \A l \in DOMAIN Earlier :
          Earlier[l] = {} \/ \E s \in SourceIds : Earlier[l] = {s}

VARIABLES
    declared,       \* declared[l]: the source ids in l's chain of custody
    known,          \* lines ingested
    claims          \* claims recorded

observations == <<declared, known, claims>>

Event(c) == ClaimOf[c].event
Evidence(c) == ClaimOf[c].evidence

\* The claim's value, widened by the tolerance of its precision.
From(c) == ClaimOf[c].value - ClaimOf[c].tolerance
Upto(c) == ClaimOf[c].value + ClaimOf[c].tolerance

Declarations == {{}} \cup {{s} : s \in SourceIds}

\* The claims that ingesting the lines makes.
DerivedFrom(lines) == {c \in Claims : ClaimOf[c].derived /\ Evidence(c) \in lines}

\* Neither an ingest nor what went before makes infinitely many claims.
ASSUME DerivedAssumption ==
    \A lines \in {{l} : l \in Lines} \cup {DOMAIN Earlier} : IsFiniteSet(DerivedFrom(lines))

\* A case that earlier commands have left, empty or not.
InitiallyObserved ==
    /\ declared = [l \in Lines |-> IF l \in DOMAIN Earlier THEN Earlier[l] ELSE {}]
    /\ known = DOMAIN Earlier
    /\ claims = DerivedFrom(DOMAIN Earlier)

\* A line enters the case, or enters it again, from a source with the given
\* ids: none or one.  (Files of several lines reach no state that files of one
\* line do not.)
IngestLine(l, ids) ==
    /\ declared' = [declared EXCEPT ![l] = @ \cup ids]
    /\ known' = known \cup {l}
    /\ claims' = claims \cup DerivedFrom({l})

\* An analyst's claim about an event of the case, grounded in any evidence.
AssertTime(c) ==
    /\ ~ClaimOf[c].derived
    /\ Event(c) \in known
    /\ Evidence(c) \in known
    /\ claims' = claims \cup {c}
    /\ UNCHANGED <<declared, known>>

Observe == \/ \E l \in Lines, ids \in Declarations : IngestLine(l, ids)
           \/ \E c \in Claims : AssertTime(c)

GrowthSpec == InitiallyObserved /\ [][Observe]_observations

-----------------------------------------------------------------------------
\* The types; and a claim the case records is about an event it holds, grounded
\* in evidence it holds.
ObservationsOK ==
    /\ declared \in [Lines -> SUBSET SourceIds]
    /\ known \in SUBSET Lines
    /\ claims \in SUBSET Claims
    /\ \A c \in claims : {Event(c), Evidence(c)} \subseteq known
=============================================================================

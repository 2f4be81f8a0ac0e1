--------------------------------- MODULE Gaps ---------------------------------
(***************************************************************************)
(* find_gaps (correlate/gaps.py): the stretches of time in which one       *)
(* declared source is silent while another one is active.                  *)
(***************************************************************************)
EXTENDS Observations, Orders, SequencesExt

\* What an analysis is asked for, and a source or a subdivision of one.
Parameters == [minGap : Int, minCorroborating : Nat \ {0}, refined : BOOLEAN]

\* Claims that count: their event and evidence are there (events, lines), and
\* the evidence was declared under one source id, no more and no less.
Resolved(of, events, lines, sources) ==
    {c \in of : /\ Event(c) \in events
                /\ Evidence(c) \in lines
                /\ Cardinality(sources[Evidence(c)]) = 1}

\* _resolve_source and _resolve_refinement: the key a claim is grouped under.
GroupKey(c, sources, refined) ==
    [source |-> CHOOSE s \in sources[Evidence(c)] : TRUE,
     value |-> IF refined THEN Attribute[Event(c)] ELSE NoValue]

\* Two keys are compared unless they are of one source and either is its rest.
Comparable(absent, present) ==
    /\ absent # present
    /\ absent.source = present.source => NoValue \notin {absent.value, present.value}

\* The claims of a group in the order of (start, id).
Before(a, b) == From(a) < From(b) \/ (From(a) = From(b) /\ a < b)
InOrder(group) == Sorted(group, Before)

\* Variant: the end of the interval before counts, however far others reach.
PreviousOf(s) == s

\* running_end_id: of the first k claims of s, the first to reach furthest.
FurthestOf(s) ==
    LET furthest[k \in DOMAIN s] ==
            IF k = 1 THEN s[1]
            ELSE IF Upto(s[k]) > Upto(furthest[k - 1]) THEN s[k] ELSE furthest[k - 1]
    IN furthest

\* The claims of a group that fall strictly inside the silence.
ActiveDuring(group, start, end) == {c \in group : From(c) < end /\ Upto(c) > start}

\* The observed spans of two groups have more than an end in common.
SpansOverlap(g, h) ==
    /\ \E x \in g, y \in h : From(x) < Upto(y)
    /\ \E x \in g, y \in h : From(y) < Upto(x)

\* Variant: the id leaves out which claims corroborate the finding.
UncorroboratedFinding(absent, present, bounds, corroborating) ==
    [absent |-> absent, present |-> present, start |-> Upto(bounds[1]),
     end |-> From(bounds[2]), corroborating |-> {}, bounds |-> bounds]

\* A GapFinding by the fields its identity hashes, which are all it has.
GapFinding(absent, present, bounds, corroborating) ==
    [absent |-> absent, present |-> present, start |-> Upto(bounds[1]),
     end |-> From(bounds[2]), corroborating |-> corroborating, bounds |-> bounds]

\* The findings about two groups: one for each silence long enough with enough
\* activity of the other.
FindingsOf(absent, present, silent, active, param) ==
    LET s == InOrder(silent)
        Bounds(k) == <<FurthestOf(s)[k - 1], s[k]>>
        Active(k) == ActiveDuring(active, Upto(Bounds(k)[1]), From(Bounds(k)[2]))
    IN {GapFinding(absent, present, Bounds(k), Active(k)) :
          k \in {i \in 2 .. Len(s) :
                   /\ Upto(Bounds(i)[1]) < From(Bounds(i)[2])
                   /\ From(Bounds(i)[2]) - Upto(Bounds(i)[1]) >= param.minGap
                   /\ Cardinality(Active(i)) >= param.minCorroborating}}

\* find_gaps, of the claims, events, lines and declared sources it has read.
FindGaps(of, events, lines, sources, param) ==
    LET resolved == Resolved(of, events, lines, sources)
        Key(c) == GroupKey(c, sources, param.refined)
        keys == {Key(c) : c \in resolved}
        Group(k) == {c \in resolved : Key(c) = k}
    IN UNION {FindingsOf(pair[1], pair[2], Group(pair[1]), Group(pair[2]), param) :
                pair \in {x \in keys \X keys :
                            /\ Comparable(x[1], x[2])
                            /\ SpansOverlap(Group(x[1]), Group(x[2]))}}

\* The coverage gaps of the case as it stands.
CaseGaps(param) == FindGaps(claims, known, known, declared, param)

-----------------------------------------------------------------------------
CONSTANT Params         \* the parameters analysts use

ASSUME ParamsAssumption == Params \subseteq Parameters

\* The reference: the stretches <<s, t>> between two claims of a group which no
\* claim of the group, as wide as its precision makes it, reaches into.
Silences(group) ==
    {x \in {Upto(c) : c \in group} \X {From(c) : c \in group} :
        /\ x[1] < x[2]
        /\ \A c \in group : Upto(c) =< x[1] \/ From(c) >= x[2]}

\* The claims grouped under a key, and the keys in use.
GroupOf(key, refined) ==
    {c \in Resolved(claims, known, known, declared) :
        GroupKey(c, declared, refined) = key}
KeysInUse(refined) ==
    {GroupKey(c, declared, refined) :
        c \in Resolved(claims, known, known, declared)}

\* What find_gaps should report of two groups, without its bounds.
Expected(absent, present, param) ==
    {[start |-> x[1], end |-> x[2],
      corroborating |-> {c \in GroupOf(present, param.refined) :
                            ~(Upto(c) =< x[1] \/ From(c) >= x[2])}] :
        x \in {y \in Silences(GroupOf(absent, param.refined)) :
                 y[2] - y[1] >= param.minGap}}

\* Every sufficiently long and corroborated silence of a source is found, once,
\* and nothing else, whatever the overlaps and widths of the claims (the
\* running end of find_gaps); and its bounds are claims of the silent source.
FindingsExact ==
    \A param \in Params :
      LET findings == CaseGaps(param)
      IN \A absent, present \in KeysInUse(param.refined) :
        LET found == {f \in findings : f.absent = absent /\ f.present = present}
            Stripped(f) == [start |-> f.start, end |-> f.end,
                            corroborating |-> f.corroborating]
        IN /\ {Stripped(f) : f \in found} =
                 {x \in Expected(absent, present, param) :
                    /\ Comparable(absent, present)
                    /\ Cardinality(x.corroborating) >= param.minCorroborating}
           /\ \A f, g \in found : Stripped(f) = Stripped(g) => f = g
           /\ \A f \in found : Range(f.bounds) \subseteq GroupOf(absent, param.refined)
=============================================================================

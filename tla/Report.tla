------------------------------- MODULE Report -------------------------------
(***************************************************************************)
(* The commands and routes that read a whole case and show it: `report'    *)
(* (report/render.py, report/render_json.py), `timeline'                   *)
(* (correlate/timeline.py), the overview of the API (correlate/overview.py)*)
(* and `gaps'. Each runs one SELECT per table after the other, in no       *)
(* transaction, while other commands go on committing.                     *)
(***************************************************************************)
EXTENDS LiveCase, Orders

CONSTANTS
    EventOf,        \* EventOf[c]: the event of time assertion c
    Value,          \* Value[c]: the instant it claims
    Created,        \* Created[v]: when event v was created
    Rank            \* Rank[o]: the place of o among the ids

\* The names of the sections of a document are no ids.
Sections == {"manifest", "evidence", "timeline", "entities", "relationships", "hypotheses",
             "contradictions", "tracked findings", "tracked contradictions", "counts", "gaps"}

\* A claim cites the event it is about, and the evidence for it; any two events
\* have different ids.
ASSUME ReportAssumption ==
    /\ IsFiniteSet(Objects)
    /\ Sections \cap Objects = {}
    /\ \A c \in OfKind("assertion", Objects) :
          /\ EventOf[c] \in OfKind("event", Cites[c])
          /\ Cites[c] \subseteq OfKind("event", Objects) \cup OfKind("evidence", Objects)
          /\ Value[c] \in Int
    /\ \A v \in OfKind("event", Objects) : Created[v] \in Int /\ Rank[v] \in Int
    /\ \A v, w \in OfKind("event", Objects) : Rank[v] = Rank[w] => v = w

VARIABLES
    reading,        \* what the command does next
    command,        \* which command it is
    todo,           \* the SELECTs it has still to run
    read,           \* read[section][table]: the rows it got
    output,         \* the file of `report --output'
    before,         \* history: the rows when it began
    revised         \* history: the rows replaced since

report == <<reading, command, todo, read, output, before, revised>>

Tables == {"evidence", "event", "entity", "relationship", "assertion", "hypothesis",
           "finding", "contradiction", "manifest.json"}
Select(section, tables) == [n \in DOMAIN tables |-> [section |-> section, table |-> tables[n]]]

\* Variant: the events are read before the claims about them.
EventsFirst == Select("timeline", <<"event", "assertion">>)

\* build_timeline_json, _render_timeline and the command `timeline'.
TimelineReads == Select("timeline", <<"assertion", "event">>)

\* compute_manifest, and then load_recorded_manifest.
ManifestReads ==
    Select("manifest", <<"evidence", "event", "entity", "relationship", "assertion",
                         "hypothesis", "manifest.json">>)

\* find_gaps, run once for each tracked finding: is_still_reproduced.
GapReads(section) == Select(section, <<"event", "evidence", "assertion">>)

SectionReads ==
    Select("evidence", <<"evidence">>) \o TimelineReads
    \o Select("entities", <<"entity">>)
    \o Select("relationships", <<"relationship">>)
    \o Select("hypotheses", <<"hypothesis">>)
    \o Select("contradictions", <<"assertion">>)
    \o Select("tracked findings", <<"finding">>)
    \o Select("tracked contradictions", <<"contradiction">>)

\* Variant: the manifest is computed when everything else has been read.
ManifestLast == SectionReads \o ManifestReads

\* Both formats: the manifests are arguments of render_report(_json)_bytes.
ReportReads == ManifestReads \o SectionReads

\* get_case_overview and compute_case_overview.
OverviewReads ==
    ManifestReads \o Select("counts", <<"evidence", "event", "entity", "relationship",
                                        "hypothesis", "finding", "contradiction">>)

Reads == [report |-> ReportReads, overview |-> OverviewReads, timeline |-> TimelineReads,
          gaps |-> GapReads("gaps")]

InitReport ==
    /\ reading = "idle"
    /\ command = "report"
    /\ todo = <<>>
    /\ read = <<>>
    /\ output = "none"
    /\ before = {}
    /\ revised = {}

\* The command opens the case.
BeginReading ==
    /\ reading \in {"idle", "shown"}
    /\ BeginReader
    /\ \E c \in DOMAIN Reads : command' = c /\ todo' = Reads[c]
    /\ read' = <<>>
    /\ before' = rows
    /\ revised' = {}
    /\ reading' = "reading"
    /\ UNCHANGED <<output, live>>

Got(section, table, what) ==
    LET so_far == IF section \in DOMAIN read THEN read[section] ELSE <<>>
        with == [t \in {table} \cup DOMAIN so_far |-> IF t = table THEN what ELSE so_far[t]]
    IN [s \in {section} \cup DOMAIN read |-> IF s = section THEN with ELSE read[s]]

\* One SELECT. The findings it lists are looked for afresh, one by one.
SelectTable ==
    /\ reading = "reading"
    /\ Readable
    /\ todo # <<>>
    /\ Head(todo).table # "manifest.json"
    /\ LET got == OfKind(Head(todo).table, rows)
           afresh == IF Head(todo).table = "finding" /\ command = "report"
                     THEN FlattenSeq([n \in DOMAIN SetToSeq(got) |-> GapReads(SetToSeq(got)[n])])
                     ELSE <<>>
       IN /\ read' = Got(Head(todo).section, Head(todo).table, got)
          /\ todo' = afresh \o Tail(todo)
    /\ UNCHANGED <<reading, command, output, before, revised, readers, live>>

\* manifest.json is there or not; the text of one cut short is no manifest.
LoadRecorded ==
    /\ reading = "reading"
    /\ todo # <<>>
    /\ Head(todo).table = "manifest.json"
    /\ manifest.state # "cut short"
    /\ read' = Got("manifest", "manifest.json", manifest)
    /\ todo' = Tail(todo)
    /\ UNCHANGED <<reading, command, output, before, revised, readers, live>>

\* Everything is read: the document is printed, or the file for it, which was
\* not there, created ...
Show ==
    /\ reading = "reading"
    /\ todo = <<>>
    /\ \/ reading' = "shown" /\ UNCHANGED output
       \/ command = "report" /\ output = "none" /\ reading' = "writing" /\ output' = "cut short"
    /\ UNCHANGED <<command, todo, read, before, revised, readers, live>>

\* ... and written.
WriteOutput ==
    /\ reading = "writing"
    /\ output' = "whole"
    /\ reading' = "shown"
    /\ UNCHANGED <<command, todo, read, before, revised, readers, live>>

\* A manifest that is no JSON, or anything else, ends the command.
StopReading ==
    /\ reading \in {"reading", "writing"}
    /\ reading' = "idle"
    /\ todo' = <<>>
    /\ read' = <<>>
    /\ UNCHANGED <<command, output, before, revised, readers, live>>

\* What a step of somebody else does to a document that is being put together.
Outdated ==
    /\ revised' = IF reading = "reading" THEN revised \cup {RowOf[o] : o \in rows \ rows'}
                  ELSE revised
    /\ UNCHANGED <<reading, command, todo, read, output, before>>

ReadStep == BeginReading \/ SelectTable \/ LoadRecorded \/ Show \/ WriteOutput \/ StopReading

-----------------------------------------------------------------------------
Shown(section) == UNION Range(read[section])

\* manifest_verdict, for manifests of one version.
Verdict ==
    LET recorded == read["manifest"]["manifest.json"]
        recomputed == UNION {read["manifest"][t] : t \in CoveredKinds}
    IN IF recorded.state = "none" THEN "NO_RECORDED_MANIFEST"
       ELSE IF recomputed = recorded.covers THEN "MATCH" ELSE "MISMATCH"

\* What the reader of the document is shown, and not only counted or compared.
Displayed == UNION {Shown(s) : s \in DOMAIN read \ {"manifest"}}

\* The claims about an event that the timeline lists under it, and its key.
ClaimsAbout(v) == {c \in read["timeline"]["assertion"] : EventOf[c] = v}
SortKey(v) == Min({Value[c] : c \in ClaimsAbout(v)}
                  \cup IF ClaimsAbout(v) = {} THEN {Created[v]} ELSE {})
Timeline ==
    Sorted(read["timeline"]["event"],
           LAMBDA v, w : \/ SortKey(v) < SortKey(w)
                         \/ SortKey(v) = SortKey(w) /\ Rank[v] < Rank[w])

\* find_gaps passes over a claim whose event or evidence it has not read.
Analysed(section) ==
    {c \in read[section]["assertion"] :
        Cites[c] \subseteq read[section]["event"] \cup read[section]["evidence"]}

-----------------------------------------------------------------------------
\* A row is shown as it was, or as what has replaced it since the command began.
ShownFor(o, of) == \E p \in of : RowOf[p] = RowOf[o] /\ (p = o \/ RowOf[o] \in revised)

\* Whatever is committed while a report is put together, a verdict MATCH is
\* about rows that it displays: all that the recorded manifest covers, and as
\* it covers them, but for a hypothesis that was supported or contradicted
\* since the report began, which is shown all the same. (It may display more,
\* that the verdict says nothing of: the manifest is computed before any
\* section is read.)
MatchIsDisplayed ==
    reading = "shown" /\ command = "report" /\ Verdict = "MATCH"
        => \A o \in read["manifest"]["manifest.json"].covers : ShownFor(o, Displayed)

\* Whatever is committed meanwhile, no claim that a timeline has read is lost:
\* each is under an event of the timeline, which is in the order of the
\* earliest claims; and an event stored with claims is shown with them.
\* find_gaps, whose SELECTs go the other way, may pass over claims committed
\* meanwhile, but never one that was there when it was asked.
ClaimsAccounted ==
    reading = "shown" =>
        /\ "timeline" \in DOMAIN read =>
              /\ read["timeline"]["assertion"]
                    \subseteq UNION {ClaimsAbout(Timeline[n]) : n \in DOMAIN Timeline}
              /\ \A n \in 2..Len(Timeline) : SortKey(Timeline[n - 1]) <= SortKey(Timeline[n])
        /\ \A s \in DOMAIN read :
              {"event", "evidence", "assertion"} = DOMAIN read[s]
                  => OfKind("assertion", before) \subseteq Analysed(s)
=============================================================================

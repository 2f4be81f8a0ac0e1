------------------------------ MODULE Adapters ------------------------------
(***************************************************************************)
(* The built-in adapters (ingest/adapters/): what each makes of the lines  *)
(* of a file.  Of a line's bytes only what the adapters ask of them is     *)
(* kept, in Traits[l]:                                                     *)
(*   blank    only whitespace                                              *)
(*   utf8     they decode                                                  *)
(*   object   they are a JSON object                                       *)
(*   typed    their "event_type" is absent or not blank                    *)
(*   syslog   they match the syslog line pattern                           *)
(*   time     a field "timestamp" with a timezone-aware ISO-8601 value;    *)
(*            of a CSV header: a column of that name                       *)
(***************************************************************************)
EXTENDS Sequences, Naturals

CONSTANTS Traits, NoHeader

\* iter_raw_lines, less the blank lines every adapter skips.  An undecodable
\* line is there like any other.
DataLines(file) == SelectSeq(file, LAMBDA l : ~Traits[l].blank)

\* What the pipeline makes of an event's timestamp attribute.
Dated(timed) == IF timed THEN "stamped" ELSE "plain"

\* One record: the line, what else its event's attributes depend on, and how
\* the line reads.
Row(l, schema, reading) == [line |-> l, schema |-> schema, reading |-> reading]

\* JsonlAdapter: an object whose event_type is blank makes NormalizedEvent raise.
JsonlReading(l) ==
    IF ~(Traits[l].utf8 /\ Traits[l].object) THEN "raw"
    ELSE IF Traits[l].typed THEN Dated(Traits[l].time) ELSE "bad"

JsonlRows(file) ==
    [i \in DOMAIN DataLines(file) |->
        LET l == DataLines(file)[i] IN Row(l, <<"jsonl", NoHeader>>, JsonlReading(l))]

\* SyslogAdapter: its time stays the opaque attribute "raw_timestamp".
SyslogReading(l) == IF Traits[l].utf8 /\ Traits[l].syslog THEN "plain" ELSE "raw"

SyslogRows(file) ==
    [i \in DOMAIN DataLines(file) |->
        LET l == DataLines(file)[i] IN Row(l, <<"syslog", NoHeader>>, SyslogReading(l))]

\* CsvTimelineAdapter: the first data line is the header, which names no field
\* when it does not decode; an absent or blank event_type reads "unknown".
CsvReading(header, l) ==
    IF ~Traits[l].utf8 THEN "raw"
    ELSE Dated(Traits[header].utf8 /\ Traits[header].time /\ Traits[l].time)

CsvRows(file) ==
    LET header == Head(DataLines(file))
        rows == Tail(DataLines(file))
    IN IF DataLines(file) = <<>> THEN <<>>
       ELSE [i \in DOMAIN rows |->
                Row(rows[i], <<"csv_timeline", header>>, CsvReading(header, rows[i]))]

\* get_adapter(adapter_id).ingest(source).
Read(adapter, file) == CASE adapter = "jsonl" -> JsonlRows(file)
                         [] adapter = "syslog" -> SyslogRows(file)
                         [] adapter = "csv_timeline" -> CsvRows(file)
=============================================================================

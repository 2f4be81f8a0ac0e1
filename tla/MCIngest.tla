------------------------------ MODULE MCIngest ------------------------------
(***************************************************************************)
(* Source files for TLC.  Line x is a JSON object with a time that is also *)
(* a well-formed CSV row; y decodes as nothing in particular; z is a JSON  *)
(* object whose event_type is blank; b is blank; h is a CSV header.        *)
(* "log" repeats a line; "table" reads the same line as CSV; "broken" is a *)
(* file whose adapter raises on its second line.                           *)
(***************************************************************************)
EXTENDS Ingest

CONSTANTS x, y, z, b, h, NoHeader

Trait(blank, object, typed, time) ==
    [blank |-> blank, utf8 |-> TRUE, object |-> object, typed |-> typed,
     syslog |-> FALSE, time |-> time]

Traits == [l \in {x, y, z, b, h} |->
    CASE l = x -> Trait(FALSE, TRUE, TRUE, TRUE)
      [] l = y -> [Trait(FALSE, FALSE, TRUE, FALSE) EXCEPT !.utf8 = FALSE]
      [] l = z -> Trait(FALSE, TRUE, FALSE, FALSE)
      [] l = b -> Trait(TRUE, FALSE, TRUE, FALSE)
      [] l = h -> Trait(FALSE, FALSE, TRUE, FALSE)]

Read == INSTANCE Adapters

MCRecords == [s \in Sources |->
    CASE s = "log" -> Read!Read("jsonl", <<x, b, y, x>>)
      [] s = "short" -> Read!Read("jsonl", <<x, y>>)
      [] s = "table" -> Read!Read("csv_timeline", <<h, x>>)
      [] s = "broken" -> Read!Read("jsonl", <<y, z>>)]

MCSchemas == {<<"jsonl", NoHeader>>, <<"syslog", NoHeader>>, <<"csv_timeline", h>>}
=============================================================================

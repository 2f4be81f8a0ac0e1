------------------------------ MODULE MCReaders ------------------------------
(***************************************************************************)
(* A case of a line with its event and claim, and a hypothesis; commands   *)
(* that ingest a second line, claim another time, add an entity, support   *)
(* the hypothesis, and track a finding.                                    *)
(***************************************************************************)
EXTENDS Readers

CONSTANTS e1, e2, v1, v2, t1, t2, t3, n1, g1, h1, h2

MCKindOf == (e1 :> "evidence") @@ (e2 :> "evidence") @@ (v1 :> "event") @@ (v2 :> "event")
            @@ (t1 :> "assertion") @@ (t2 :> "assertion") @@ (t3 :> "assertion")
            @@ (n1 :> "entity") @@ (g1 :> "finding")
            @@ (h1 :> "hypothesis") @@ (h2 :> "hypothesis")
MCCites == (e1 :> {}) @@ (e2 :> {}) @@ (v1 :> {e1}) @@ (v2 :> {e2})
           @@ (t1 :> {v1, e1}) @@ (t2 :> {v2, e2}) @@ (t3 :> {v1, e1})
           @@ (n1 :> {e1}) @@ (g1 :> {t1}) @@ (h1 :> {e1}) @@ (h2 :> {e1, v1})
MCRowOf == [o \in DOMAIN MCKindOf |-> IF o = h2 THEN h1 ELSE o]
MCBytes == (e1 :> "x") @@ (e2 :> "y")
MCBatches == {{e2, v2, t2}, {t3}, {n1}, {g1}, {h2}}
MCPresent == {e1, v1, t1, h1}
MCEventOf == (t1 :> v1) @@ (t2 :> v2) @@ (t3 :> v1)
MCValue == (t1 :> 3) @@ (t2 :> 2) @@ (t3 :> 1)
MCCreated == (v1 :> 9) @@ (v2 :> 9)
MCRank == (v1 :> 2) @@ (v2 :> 1)

\* What a command has left is not looked at by the next. Once the last command
\* has begun, what the ones before it have left is not looked at again, nor is
\* the case once it has ended.
MCLast == readers = MaxReaders /\ porting = "idle"
MCCase == <<rows, pages, blobs, staged, manifest, writing, batches, readers,
            IF writing = "put" \/ porting = "copy db" THEN batch ELSE {},
            IF writing \in {"truncate", "write"} THEN computed ELSE {}>>
MCReport == IF reading = "idle" THEN <<output>> ELSE report
MCPort == <<porting,
            IF porting \in {"truncate", "write"} THEN snapshot ELSE {},
            IF porting \in {"copy", "copy db", "extract", "fill"} THEN pending ELSE {},
            archive, dest, origin, imported>>
MCView ==
    IF MCLast /\ ~Reading
    THEN <<reading, IF reading = "shown" THEN <<command, read, before, revised>> ELSE <<>>,
           archive, dest, origin, imported>>
    ELSE <<MCCase, MCReport, IF MCLast THEN <<>> ELSE MCPort>>
=============================================================================

------------------------------- MODULE Readers -------------------------------
(***************************************************************************)
(* One case that is written to while it is exported, or read for a report: *)
(* nobody who reads it takes a lock. Of those who read, one is at work at  *)
(* a time: it would see no more of another, which may record the manifest, *)
(* than it sees of the commands that write.                                *)
(***************************************************************************)
EXTENDS Portable, Report

vars == <<live, readers, port, report>>

Init == InitLive /\ InitPort /\ InitReport

Reading == reading \in {"reading", "writing"}

Next ==
    \/ WriterStep /\ Overtaken /\ Outdated
    \/ ~Reading /\ PortStep /\ UNCHANGED report
    \/ porting = "idle" /\ ReadStep /\ UNCHANGED port

Spec == Init /\ [][Next]_vars
=============================================================================

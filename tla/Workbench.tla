-------------------------------- MODULE Workbench --------------------------------
(***************************************************************************)
(* The frontend: its shell, the graph view and the views that write, on    *)
(* one query cache.                                                        *)
(***************************************************************************)
EXTENDS Explorer, Reviewing

Init == InitCase /\ InitApp

Next == ShellStep \/ ExplorerStep \/ ReviewStep

Spec == Init /\ [][Next]_vars
=============================================================================

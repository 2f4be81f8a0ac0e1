------------------------------ MODULE MCTracking ------------------------------
(***************************************************************************)
(* A case with one silence of source A, while B is active, and an event    *)
(* whose time an analyst disputes; another line and further claims are to  *)
(* come.                                                                   *)
(***************************************************************************)
EXTENDS Tracking

CONSTANTS l1, l2, l3, l4, A, B

Claim(event, evidence, value, tolerance, derived) ==
    [event |-> event, evidence |-> evidence, value |-> value,
     tolerance |-> tolerance, derived |-> derived]

MCLines == {l1, l2, l3, l4}
MCEarlier == l1 :> {A} @@ l2 :> {A} @@ l3 :> {B}
MCClaims == 1 .. 6
MCClaimOf == <<Claim(l1, l1, 0, 0, TRUE),
               Claim(l2, l2, 9, 0, TRUE),
               Claim(l1, l3, 2, 1, FALSE),
               Claim(l3, l3, 4, 0, TRUE),
               Claim(l1, l3, 4, 0, FALSE),
               Claim(l4, l4, 6, 0, TRUE)>>
MCAttribute == [l \in MCLines |-> NoValue]
MCSymmetry == Permutations(Procs) \cup Permutations(Reviews)
MCParams == {[minGap |-> 1, minCorroborating |-> 1, refined |-> FALSE],
             [minGap |-> 3, minCorroborating |-> 2, refined |-> FALSE]}

\* What a process without a command has read before is never looked at again.
MCLocals(p) == IF pc[p] = "idle" THEN <<>>
               ELSE <<cmd[p], read[p], found[p], todo[p], now[p], new[p]>>
MCView == <<observations, rows, image, lock, started, pc,
            [p \in Procs |-> MCLocals(p)]>>
=============================================================================

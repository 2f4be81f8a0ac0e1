-------------------------------- MODULE MCGaps --------------------------------
(***************************************************************************)
(* Two sources, one of them of two hosts, and the claims that five lines   *)
(* and an analyst make: points and wide intervals, that touch, nest and    *)
(* coincide.                                                               *)
(***************************************************************************)
EXTENDS Gaps

CONSTANTS l1, l2, l3, l4, l5, h1, h2

Claim(event, evidence, value, tolerance, derived) ==
    [event |-> event, evidence |-> evidence, value |-> value,
     tolerance |-> tolerance, derived |-> derived]

MCLines == {l1, l2, l3, l4, l5}
MCClaims == 1 .. 8
MCClaimOf == <<Claim(l1, l1, 3, 3, FALSE),      \* 0 to 6: reaches past the next
               Claim(l2, l2, 2, 0, TRUE),
               Claim(l3, l3, 6, 0, TRUE),
               Claim(l4, l4, 9, 0, TRUE),
               Claim(l1, l1, 0, 0, TRUE),
               Claim(l3, l5, 6, 0, FALSE),
               Claim(l5, l5, 3, 1, FALSE),
               Claim(l4, l5, 9, 0, FALSE)>>
MCAttribute == [l \in MCLines |-> CASE l \in {l1, l4} -> h1
                                    [] l = l2 -> h2
                                    [] OTHER -> NoValue]
MCEarlier == <<>>       \* the empty case
MCParams == {[minGap |-> 1, minCorroborating |-> 1, refined |-> FALSE],
             [minGap |-> 3, minCorroborating |-> 2, refined |-> FALSE],
             [minGap |-> 3, minCorroborating |-> 1, refined |-> TRUE]}
=============================================================================

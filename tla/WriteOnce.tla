------------------------------ MODULE WriteOnce ------------------------------
(***************************************************************************)
(* What the blob store promises for a digest: nothing is stored under it,  *)
(* then its whole content is, for good.  A digest that two puts raced for  *)
(* is "shared": no promise is made for it.  "torn", a blob that is visible *)
(* but not whole, is a state no step leads to.                             *)
(***************************************************************************)
CONSTANT Digests
VARIABLE blob

Init == blob = [d \in Digests |-> "absent"]

Put(d) == /\ blob[d] = "absent"
          /\ blob' = [blob EXCEPT ![d] = "whole"]

Contend(d) == /\ blob[d] = "absent"
              /\ blob' = [blob EXCEPT ![d] = "shared"]

Next == \E d \in Digests : Put(d) \/ Contend(d)

Spec == Init /\ [][Next]_blob
=============================================================================

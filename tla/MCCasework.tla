------------------------------ MODULE MCCasework ------------------------------
(***************************************************************************)
(* A line and its event, two entities, a hypothesis; and a case that has   *)
(* everything but the event.                                               *)
(***************************************************************************)
EXTENDS Casework, TLC

CONSTANTS e, v, a, b, h

MCCited == {<<e>>, <<v, e>>}
MCRelationships == {[source |-> a, target |-> b, from |-> <<v, e>>],
                    [source |-> a, target |-> a, from |-> <<e>>]}
MCAssertions == {[subject |-> v, evidence |-> e], [subject |-> e, evidence |-> v]}

Case(evidence, entity, hypothesis) ==
    [evidence |-> evidence, events |-> {},
     entities |-> [x \in {a, b} |-> entity],
     relationships |-> [r \in MCRelationships |-> 0],
     assertions |-> [x \in MCAssertions |-> 0],
     hypotheses |-> [x \in {h} |-> hypothesis]]

MCEarlier == {Case({}, <<>>, NoHypothesis), Case({e}, <<e>>, Proposal(<<e>>))}
MCSymmetry == Permutations(Procs)
=============================================================================

----------------------------- MODULE MCPackages -----------------------------
(***************************************************************************)
(* Packages put together from a few declarations of each kind, sound and   *)
(* not; a case whose evidence came from two sources, and one with evidence *)
(* that is larger than an import accepts.                                  *)
(***************************************************************************)
EXTENDS PackageExchange

CONSTANTS p1, p2, f1, f2, a, b, v, w, n, m, h, s1, s2, d1, d2, d3

DeclareAs(kind, local, cites, content) ==
    [kind |-> kind, local |-> local, cites |-> cites, content |-> content,
     source |-> NoSource, sound |-> TRUE]
Declare(kind, id, cites, content) == DeclareAs(kind, Named(id), cites, content)
Cite(role, id) == [role |-> role, local |-> Named(id)]

LineA == [Declare("evidence", a, {}, 1) EXCEPT !.source = s1]
LineAgain == [LineA EXCEPT !.local = Named(b), !.source = s2]
Large == Declare("evidence", b, {}, 10)
Undecodable == [LineAgain EXCEPT !.sound = FALSE]
EventV == Declare("event", v, {Cite("derived", a)}, 2)
EventW == Declare("event", w, {Cite("derived", v)}, 3)      \* its id comes before v's
EventTaken == Declare("event", a, {Cite("derived", a)}, 4)
EntityN == Declare("entity", n, {Cite("derived", a)}, 5)
EntityM == Declare("entity", m, {Cite("derived", v)}, 6)
Edge(to) == DeclareAs("relationship", NoId,
                      {Cite("source", n), Cite("target", to), Cite("derived", a)}, 7)
Loop == [Edge(n) EXCEPT !.sound = FALSE]
Claim(line) == DeclareAs("assertion", NoId, {Cite("subject", v), Cite("grounds", line)}, 8)
Idea(local) == DeclareAs("hypothesis", local,
                         {Cite("evidence_item", a), Cite("normalized_event", v)}, 9)

Parts ==
    {lines \o events \o entities \o edges \o claims \o ideas :
        lines \in {<<>>, <<LineA>>, <<LineA, LineAgain>>, <<Undecodable, LineA>>, <<LineA, Large>>},
        events \in {<<>>, <<EventV>>, <<EventV, EventW>>, <<EventW, EventV>>, <<EventV, EventTaken>>},
        entities \in {<<>>, <<EntityN>>, <<EntityN, EntityM>>},
        edges \in {<<>>, <<Loop>>, <<Edge(m)>>},
        claims \in {<<>>, <<Claim(a)>>, <<Claim(v)>>},
        ideas \in {<<>>, <<Idea(NoId), Idea(NoId)>>, <<Idea(Named(h)), Idea(Named(h))>>, <<Idea(Blank)>>}}
MCPackages == {q \in Parts : Len(q) <= MaxDeclared}
              \cup {<<LineA, EventV, EntityN, EntityM, Edge(m)>>}
MCDemo == <<LineA, EntityN, [EntityM EXCEPT !.cites = {Cite("derived", a)}], Edge(m)>>
MCEarlier == d1 :> Merged({}, Everything(<<LineA, LineAgain, EventV, EntityN, Claim(a)>>))
             @@ d3 :> Merged({}, Everything(<<Large>>))
MCRank == <<1, 3, 2, 4, 5, 6, 7, 8, 9, 10>>
\* Of an evidence item 2 are accepted, of the text of an archive 5.
MCSize == <<1, 1, 1, 1, 1, 1, 1, 1, 2, 3>>

MCSymmetry == Permutations(Procs)
\* What a process without a command has left is never looked at again.
MCLocals(p) == IF pc[p] = "idle" THEN <<>>
               ELSE <<dir[p], file[p], package[p], at[p], claimed[p], names[p], built[p],
                      errors[p], torn[p]>>
MCView == <<files, cases, started, pc, [p \in Procs |-> MCLocals(p)]>>
=============================================================================

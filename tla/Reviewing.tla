-------------------------------- MODULE Reviewing --------------------------------
(***************************************************************************)
(* The views that write: coverage gaps are analysed and tracked in one     *)
(* (components/GapsPanel.tsx), and reviewed in another                     *)
(* (components/FindingsPanel.tsx).  Contradictions are tracked             *)
(* (components/ContradictionsPanel.tsx) and reviewed in the same way.      *)
(***************************************************************************)
EXTENDS AppShell

Begun(kind, of) == \E call \in calls : call.mine /\ call.kind = kind /\ call.of = of

Analyze(t) ==
    /\ OnScreen("gaps", app, cache) /\ ~\E s \in Thresholds : Begun("analyze", s)
    /\ Mutate("analyze", t)

\* Once an analysis has found something, whatever the fields say by now.
TrackFindings(t) ==
    /\ OnScreen("gaps", app, cache) /\ app.analysed
    /\ ~\E s \in Thresholds : Begun("track", s)
    /\ Mutate("track", t)

\* The form of a row; a finding whose review is under way has its button disabled.
AckFinding(g, status) ==
    /\ OnScreen("findings", app, cache) /\ cache[Findings].data # {}
    /\ g \in DOMAIN Read("findings", cache)
    /\ ~\E s \in Statuses : Begun("ack", <<g, s>>)
    /\ Mutate("ack", <<g, status>>)

ServeAnalyze(call) ==
    call.kind = "analyze" /\ Respond(call, FoundAt[call.of]) /\ UNCHANGED case

ServeTrack(call) ==
    /\ call.kind = "track" /\ Track(call.of) /\ claims' = claims
    /\ Respond(call, FoundAt[call.of] \ DOMAIN findings)

ServeAck(call) ==
    /\ call.kind = "ack" /\ Acknowledge(call.of[1], call.of[2]) /\ claims' = claims
    /\ Respond(call, call.of)

Invalidate(q, c) == [c EXCEPT ![q] = Invalidated(@, Active(q, app, c))]

ShowAnalysis(call) ==
    /\ call.kind = "analyze"
    /\ Deliver(call,
               IF call.mine THEN [app EXCEPT !.analysed = Answered(call) # {}] ELSE app,
               cache)

\* Variant: the findings are not fetched again, only the overview.
TrackedUnlisted(call) ==
    call.kind = "track" /\ Deliver(call, app, Invalidate(Overview, cache))

Tracked(call) ==
    call.kind = "track" /\ Deliver(call, app, Invalidate(Overview, Invalidate(Findings, cache)))

Acknowledged(call) ==
    call.kind = "ack" /\ Deliver(call, app, Invalidate(Findings, cache))

ReviewStep ==
    \/ \E t \in Thresholds : Analyze(t) \/ TrackFindings(t)
    \/ \E g \in GapIds, status \in Statuses : AckFinding(g, status)
    \/ \E call \in calls :
          \/ ServeAnalyze(call) \/ ServeTrack(call) \/ ServeAck(call)
          \/ ShowAnalysis(call) \/ Tracked(call) \/ Acknowledged(call)

-----------------------------------------------------------------------------
\* What the findings view shows, once every fetch and every write has ended, is
\* what the case holds: no review and no tracking is lost from the screen by
\* the order in which the answers came, except that of a write whose answer was
\* lost, or that was announced while the first fetch, or one that the view had
\* been left during, was under way: then `missed' is set.
SettledFresh ==
    /\ OnScreen("findings", app, cache)
    /\ \A call \in calls : call.kind \notin {"track", "ack"}
    /\ cache[Findings].status = "success"
    /\ ~cache[Findings].fetching
    /\ ~cache[Findings].missed
    => cache[Findings].data = {findings}
=============================================================================

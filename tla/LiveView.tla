------------------------------- MODULE LiveView -------------------------------
(***************************************************************************)
(* The view a player's page keeps while the run goes on: the browser's own *)
(* projection of the player log, event by event                            *)
(* (apps/command-center/src/state/projector.ts; the server's, in           *)
(* packages/epistemics/src/project.ts, has the same cases).  Lists keep    *)
(* the code's order: what is updated moves to the end.  Routes, resources  *)
(* and the recent score changes are left out: no event here is about them. *)
(***************************************************************************)
EXTENDS RunReplay

(* emptyPlayerState *)
NoView ==
  [phase |-> "running", tick |-> 0, claims |-> <<>>, evidence |-> <<>>, assessments |-> <<>>,
   teams |-> <<>>, score |-> 0, count |-> 0]

(* The item replaces the one of its id, at the end of the list. *)
Put(list, item) == Append(SelectSeq(list, LAMBDA x : x.id # item.id), item)

Changed(list, Of(_)) == [n \in DOMAIN list |-> Of(list[n])]

(* VerificationResolved: the claim keeps its place; its evidence is marked *)
(* when the outcome is good.                                               *)
Ruled(v, c, outcome) ==
  LET claims   == Changed(v.claims, LAMBDA x :
                    IF x.id = c /\ outcome # "inconclusive" THEN [x EXCEPT !.status = outcome] ELSE x)
      evidence == Changed(v.evidence, LAMBDA x :
                    IF x.claim = c /\ outcome = "verified" THEN [x EXCEPT !.verified = TRUE] ELSE x)
  IN  [v EXCEPT !.claims = claims, !.evidence = evidence]

(* applyPlayerEvent *)
Applied(v, ev) ==
  LET next == [v EXCEPT !.tick = ev.tick, !.count = @ + 1]
  IN  CASE ev.kind = "SessionStarted" ->
             [next EXCEPT !.teams =
                Changed(Scenario.teams, LAMBDA t : [id |-> t, state |-> ev.data.teams[t]])]
        [] ev.kind = "EvidenceRecorded" ->
             [next EXCEPT !.evidence =
                Put(@, [id |-> ev.data.obs, claim |-> ev.data.claim, verified |-> FALSE])]
        [] ev.kind = "ClaimUpdated" ->
             [next EXCEPT !.claims = Put(@, [id |-> ev.data.claim, status |-> ev.data.status])]
        [] ev.kind = "AssessmentSubmitted"  -> [next EXCEPT !.assessments = Put(@, ev.data)]
        [] ev.kind = "VerificationResolved" -> Ruled(next, ev.data.claim, ev.data.outcome)
        [] ev.kind = "OwnTeamUpdated" ->
             [next EXCEPT !.teams = Put(@, [id |-> ev.data.team, state |-> ev.data.state])]
        [] ev.kind = "PublicScoreChanged" -> [next EXCEPT !.score = ev.data.total]
        [] ev.kind = "RunCompleted" ->
             [next EXCEPT !.phase = "completed", !.tick = ev.data.finalTick,
                          !.score = ev.data.scoreTotal]
        [] OTHER -> next

(* projectPlayerState *)
Projected(log) == FoldLeft(Applied, NoView, log)
===============================================================================

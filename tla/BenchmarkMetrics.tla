--------------------------- MODULE BenchmarkMetrics ---------------------------
(***************************************************************************)
(* What a benchmark reports of a run (packages/benchmark/src/metrics.ts):  *)
(* computed from the player log alone.  Probabilities are percents; a mean *)
(* is kept as its terms.                                                   *)
(***************************************************************************)
EXTENDS RunArtifact

(* The score, category by category: the sum of what was shown. *)
Contribution(log, category) ==
  LET shown == SelectSeq(OfKind(log, "PublicScoreChanged"), LAMBDA ev : ev.data.category = category)
  IN  FoldLeft(LAMBDA acc, ev : acc + ev.data.delta, 0, shown)

ScoreTotal(log) ==
  LET shown == OfKind(log, "PublicScoreChanged")
  IN  IF shown = <<>> THEN 0 ELSE Last(shown).data.total

Results(log, accepted) ==
  SelectSeq(OfKind(log, "CommandResult"), LAMBDA ev : ev.data.accepted = accepted)
CommandName == {"DISPATCH_TEAM", "REQUEST_VERIFICATION", "CANCEL_ORDER"}
CommandStat(log, name) ==
  LET Named(results) == Len(SelectSeq(results, LAMBDA ev : ev.data.name = name))
  IN  [accepted |-> Named(Results(log, TRUE)), rejected |-> Named(Results(log, FALSE))]

(* ClaimTrack: the first tick and the latest status. *)
Updates(log, c) == SelectSeq(OfKind(log, "ClaimUpdated"), LAMBDA ev : ev.data.claim = c)
Tracked(log) == {c \in Claim : Updates(log, c) # <<>>}
FirstObserved(log, c) == Head(Updates(log, c)).data.since
LatestStatus(log, c) == Last(Updates(log, c)).data.status

(* responseLatencies: the first accepted command at the claim's district   *)
(* from the tick on that the claim was observed.                           *)
FirstAction(log, c) ==
  LET acted == SelectSeq(Results(log, TRUE), LAMBDA ev :
                 ev.data.target = Where(c) /\ ev.tick >= FirstObserved(log, c))
  IN  IF acted = <<>> THEN NoTick ELSE Min({acted[n].tick : n \in DOMAIN acted})

----------------------------------------------------------------------------
Assessed(log, c) ==
  SelectSeq(AssessmentTrace(log), LAMBDA a : a.claim = c)

(* The assessment that a claim is rated by: the one of the last tick, and  *)
(* of two in that tick the earlier.                                        *)
Rated(log, c) ==
  LET all == Assessed(log, c)
  IN  FoldLeft(LAMBDA best, a : IF best.at >= a.at THEN best ELSE a, Head(all), Tail(all))

(* outcomeLabel *)
Label(status) == IF status = "verified" THEN 100 ELSE 0
Settled(log) == {c \in Tracked(log) : LatestStatus(log, c) \in {"verified", "refuted"}}
ResolvedPairs(log) == {c \in Settled(log) : Assessed(log, c) # <<>>}
Error(log, c, a) == (a.probability - Label(LatestStatus(log, c))) ^ 2

(* brierScore: the terms of the mean. *)
Brier(log) == [c \in ResolvedPairs(log) |-> Error(log, c, Rated(log, c))]

(* Of the ten bins of a tenth each, the last has both its ends. *)
InBin(p, bin) == 10 * bin <= p /\ (p < 10 * (bin + 1) \/ bin = 9)
CalibrationBins(log) ==
  [bin \in 0 .. 9 |-> {c \in ResolvedPairs(log) : InBin(Rated(log, c).probability, bin)}]

(* verificationInfoGain: the assessments before and since the claim's last *)
(* verification, by their ticks.                                           *)
Answers(log, c) ==
  SelectSeq(OfKind(log, "VerificationResolved"), LAMBDA ev : ev.data.claim = c)
ResolvedTick(log, c) == Last(Answers(log, c)).tick
\* Faulty: what was assessed in the tick of the verification, after it, is before it.
BeforeOrAt(log, c) == SelectSeq(Assessed(log, c), LAMBDA a : a.at <= ResolvedTick(log, c))

Before(log, c) == SelectSeq(Assessed(log, c), LAMBDA a : a.at < ResolvedTick(log, c))
After(log, c) == SelectSeq(Assessed(log, c), LAMBDA a : a.at >= ResolvedTick(log, c))

(* computeMetrics *)
Metrics(log) ==
  [finalTick  |-> Max({log[n].tick : n \in DOMAIN log}),
   phase      |-> IF OfKind(log, "RunCompleted") = <<>> THEN "running" ELSE "completed",
   scoreTotal |-> ScoreTotal(log),
   category   |-> [k \in DOMAIN NoPoints |-> Contribution(log, k)],
   command    |-> [name \in CommandName |-> CommandStat(log, name)],
   invalid    |-> Len(Results(log, FALSE)),
   action     |-> [c \in Tracked(log) |-> FirstAction(log, c)],
   verified   |-> {c \in Settled(log) : LatestStatus(log, c) = "verified"},
   refuted    |-> {c \in Settled(log) : LatestStatus(log, c) = "refuted"},
   brier      |-> Brier(log),
   bins       |-> CalibrationBins(log),
   gain       |-> [c \in {d \in Settled(log) : Answers(log, d) # <<>>} |->
                     [before |-> Before(log, c), after |-> After(log, c)]]]
===============================================================================

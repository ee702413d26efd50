------------------------------- MODULE ReplayLab -------------------------------
(***************************************************************************)
(* The command center's Replay Lab (apps/command-center/src/replay):       *)
(* verify.ts checks an artifact in the browser without a scenario, and     *)
(* project.ts shows any tick of it.                                        *)
(***************************************************************************)
EXTENDS RunArtifact

(* verifyTruthChain and verifyPlayerChain: the session is that of the      *)
(* first event, the kinds and payloads are left to the schema.             *)
LabChain(events, tip) == events # <<>> /\ ValidStream(events, events[1].session, tip)

----------------------------------------------------------------------------
(***************************************************************************)
(* verifyReplayArtifact: integrity.                                        *)
(***************************************************************************)
(* The last completion, wherever it stands. *)
LabIntegrity(a) ==
  /\ a.artifactHash = Without(a, "artifactHash")
  /\ LabChain(a.truth, a.truthLogHash)
  /\ a.eventCount = Len(a.truth)
  /\ LabChain(a.player, a.playerLogHash)
  /\ a.playerEventCount = Len(a.player)
  /\ LET ends == Positions(a.truth, {"ScenarioCompleted"})
         completed == a.truth[Max(ends)].data
     IN  /\ ends # {}
         /\ completed.finalScore = a.scoreDigest
         /\ Total(completed.finalScore) = a.scoreTotal
         /\ completed.finalTick = a.finalTick
  /\ CommandTrace(a.truth) = a.commandTrace
  /\ AssessmentTrace(a.player) = a.assessmentTrace

----------------------------------------------------------------------------
(***************************************************************************)
(* collectSemanticReasons                                                  *)
(***************************************************************************)
LabSessions(a) ==
  \A log \in {"truth", "player"} : \A n \in DOMAIN a[log] : a[log][n].session = a.identity.session

(* derivePlayerTerminalCounts *)
ClaimCount(events) ==
  Cardinality({events[n].data.claim : n \in {m \in DOMAIN events : events[m].kind = "ClaimUpdated"}})
EvidenceCount(events) == Len(OfKind(events, "EvidenceRecorded"))

LabCompleted(a) ==
  LET told == Last(a.player).data
  IN  /\ a.finalTick = a.identity.totalTicks
      /\ told.finalTick = a.finalTick
      /\ told.scoreTotal = a.scoreTotal
      /\ told.claimCount = ClaimCount(a.player)
      /\ told.evidenceCount = EvidenceCount(a.player)

Distinct(s) == Cardinality(ToSet(s)) = Len(s)
Fields(events, f) == [n \in DOMAIN events |-> events[n].data[f]]

(* No two of the events at these positions have the same value in a field. *)
Once(events, at, f) == \A m, n \in at : events[m].data[f] = events[n].data[f] => m = n
IdsAt(events, at) == {events[n].data.id : n \in at}

\* Faulty: an outcome may stand before its command.
LabOneToOneUnordered(a) ==
  LET issued   == Positions(a.truth, {"CommandIssued"})
      outcomes == Positions(a.truth, Outcome)
      results  == Positions(a.player, {"CommandResult"})
  IN  /\ Once(a.truth, issued, "id") /\ Once(a.truth, issued, "key")
      /\ Once(a.truth, outcomes, "id") /\ Once(a.player, results, "id")
      /\ IdsAt(a.truth, outcomes) = IdsAt(a.truth, issued)
      /\ IdsAt(a.player, results) = IdsAt(a.truth, issued)

(* The idempotency key of an outcome: its own, or else its command's.      *)
KeyOf(outcome, issued) == IF "key" \in DOMAIN outcome THEN outcome.key ELSE issued.key

(* One outcome for each command issued, after it and under its key, one    *)
(* result for each outcome, and no command id and no idempotency key       *)
(* issued twice.                                                           *)
LabOneToOne(a) ==
  LET issued   == Positions(a.truth, {"CommandIssued"})
      outcomes == Positions(a.truth, Outcome)
      results  == Positions(a.player, {"CommandResult"})
  IN  /\ Once(a.truth, issued, "id") /\ Once(a.truth, issued, "key")
      /\ Once(a.truth, outcomes, "id") /\ Once(a.player, results, "id")
      /\ IdsAt(a.truth, outcomes) = IdsAt(a.truth, issued)
      /\ IdsAt(a.player, results) = IdsAt(a.truth, issued)
      /\ \A n \in results : \E m \in issued, k \in outcomes :
           /\ a.truth[m].data.id = a.player[n].data.id
           /\ a.truth[m].data.key = a.player[n].data.key
           /\ a.truth[k].data.id = a.player[n].data.id
           /\ KeyOf(a.truth[k].data, a.truth[m].data) = a.truth[m].data.key
           /\ a.truth[m].data.key # ""
           /\ a.truth[m].seq < a.truth[k].seq
           /\ (a.truth[k].kind = "CommandAccepted") = a.player[n].data.accepted

(* deriveActiveIncidents *)
StillActive(events) ==
  FoldLeft(LAMBDA acc, ev :
             CASE ev.kind = "TrueIncidentOccurred" -> acc \cup {ev.data.incident}
               [] ev.kind = "IncidentResolved"     -> acc \ {ev.data.incident}
               [] OTHER -> acc,
           {}, events)

LabSemantics(a) ==
  /\ WellEnded(a)
  /\ LabSessions(a)
  /\ a.identity.scenarioDigest # Damaged
  /\ a.stateDigest # Damaged
  /\ a.identity.protocol \in Nat \* any: compatibility is NOT_CHECKED
  /\ Says(a.truth[1].data, a.identity)
  /\ Says(a.player[1].data, a.identity)
  /\ LabCompleted(a)
  /\ LabOneToOne(a)
  /\ ToBag(Resolved(a.truth)) = ToBag(a.handled)
  /\ Distinct(a.active) /\ StillActive(a.truth) = ToSet(a.active)

(* The Lab shows the artifact as PARTIAL rather than FAIL. *)
LabAccepts(a) == LabIntegrity(a) /\ LabSemantics(a)

----------------------------------------------------------------------------
(***************************************************************************)
(* project.ts: the run at a tick, from its logs.                           *)
(***************************************************************************)
\* Faulty: the events of the tick itself are left out.
BeforeTick(events, tick) == SelectSeq(events, LAMBDA ev : ev.tick < tick)

(* Both projections stop at the first event of a later tick. *)
UpTo(events, tick) == SelectSeq(events, LAMBDA ev : ev.tick <= tick)

(* projectTruthAtTick *)
TruthAt(events, tick) ==
  LET seen   == UpTo(events, tick)
      states == OfKind(seen, "SystemStateChanged")
      began  == OfKind(seen, "TrueIncidentOccurred")
  IN  [teams     |-> IF states = <<>> THEN <<>> ELSE Last(states).data.teams,
       incidents |-> ToSet(Fields(began, "incident")),
       active    |-> StillActive(seen)]

(* applyPlayerEvent *)
PlayerStep(v, ev) ==
  CASE ev.kind = "SessionStarted"   -> [v EXCEPT !.teams = ev.data.teams]
    [] ev.kind = "EvidenceRecorded" -> [v EXCEPT !.evidence = @ \cup {ev.data.obs}]
    [] ev.kind = "ClaimUpdated"     -> [v EXCEPT !.claims = (ev.data.claim :> ev.data.status) @@ @]
    [] ev.kind = "VerificationResolved" ->
         IF ev.data.outcome = "inconclusive" \/ ev.data.claim \notin DOMAIN v.claims THEN v
         ELSE [v EXCEPT !.claims[ev.data.claim] = ev.data.outcome]
    [] ev.kind = "AssessmentSubmitted" -> [v EXCEPT !.assessments = @ \cup {ev.data}]
    [] ev.kind = "OwnTeamUpdated"      -> [v EXCEPT !.teams[ev.data.team] = ev.data.state]
    [] ev.kind = "PublicScoreChanged"  -> [v EXCEPT !.score = ev.data.total]
    [] ev.kind = "RunCompleted"        -> [v EXCEPT !.phase = "completed", !.score = ev.data.scoreTotal]
    [] OTHER -> v

(* projectPlayerAtTick *)
PlayerAt(events, tick) ==
  FoldLeft(PlayerStep,
           [phase |-> "running", teams |-> <<>>, evidence |-> {}, claims |-> <<>>,
            assessments |-> {}, score |-> 0],
           UpTo(events, tick))

(* buildEvidenceProvenance: a shown report is marked false when the truth  *)
(* log corrupted it, to a false text or to any other than it was made      *)
(* with, and distorted when it was corrupted or late.                      *)
Marked(truth, shown) ==
  LET last(kind) == {n \in DOMAIN truth :
                       /\ truth[n].kind = kind /\ truth[n].data.obs = shown.data.obs
                       /\ \A m \in n + 1 .. Len(truth) :
                            truth[m].kind = kind => truth[m].data.obs # shown.data.obs}
      created   == last("ObservationCreated")
      corrupted == last("ObservationCorrupted")
      delayed   == last("ObservationDelayed")
  IN  [false     |-> \E n \in corrupted :
                       \/ truth[n].data.as.false
                       \/ \E m \in created : truth[m].data.text # shown.data.text,
       distorted |-> \/ corrupted # {}
                     \/ \E n \in delayed : truth[n].data.delay > 0
                     \/ delayed = {} /\ shown.tick > shown.data.observed]
===============================================================================

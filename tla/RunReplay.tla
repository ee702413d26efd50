------------------------------- MODULE RunReplay -------------------------------
(***************************************************************************)
(* A run as the server keeps it and as public-replay.ts rebuilds it: the   *)
(* engine (RunLog), the bridge that writes the player log, and the         *)
(* verifications that wait for their team.  publishTruthDelta and the      *)
(* mirror stand twice in the code, in packages/server/src/hub.ts for the   *)
(* live session and in packages/simulation/src/public-replay.ts for the    *)
(* replay; the two copies agree line by line and are one operator here.    *)
(* What differs, the intake of an action, is Apply here and Command and    *)
(* Assess in SessionRecord.                                                *)
(***************************************************************************)
EXTENDS RunLog

CONSTANTS
  Unseen,    \* a report the bridge has not heard of
  NoClaim,   \* a claim without evidence
  NoJob,     \* no verification waits for the team
  Nothing    \* a request without fields beyond the contract's

Claim == {Scenario.claimOf[o] : o \in Report}

(* The district of a claim: that of the incident its reports are about. *)
Where(c) ==
  Scenario.place[Scenario.about[CHOOSE o \in Report : Scenario.claimOf[o] = c]]

(* A report as it was made; its corruption may be false, or only a text.   *)
Made(text) == [text |-> text, false |-> FALSE]

Bridge == INSTANCE PlayerBridge WITH
  Obs <- Report, ClaimOf <- Scenario.claimOf,
  Variants <- [o \in Report |-> {Made(Scenario.content[o]), Scenario.corruption[o]}],
  pending <- 0, claims <- 0, delivered <- 0

----------------------------------------------------------------------------
(* toOwnTeam *)
Own(team) ==
  [status |-> team.status, eta |-> team.eta, location |-> team.location,
   target |-> IF team.order = NoOrder THEN NoOrder ELSE team.order.target]
OwnTeams(e) == Table(TeamName, LAMBDA t : Own(e.teams[t]))

(* A bridge and its waiting verifications as they are made, makeBridge:    *)
(* the teams a session starts with are those of the engine at that moment. *)
Opened(e) ==
  [engine |-> e,
   bridge |-> [known |-> Table(Report, LAMBDA o : Unseen), seen |-> Table(Report, LAMBDA o : NoTick),
               claims |-> Table(Claim, LAMBDA c : NoClaim), since |-> Table(Claim, LAMBDA c : NoTick),
               initial |-> OwnTeams(e), log |-> <<>>],
   jobs   |-> Table(TeamName, LAMBDA t : NoJob)]

Tell(b, tick, kind, data) ==
  [b EXCEPT !.log = Append(@, [kind |-> kind, tick |-> tick, data |-> data])]

Evidence(b) == {o \in Report : \E c \in Claim : b.claims[c] # NoClaim /\ o \in b.claims[c].evidence}

TellClaim(b, tick, c) ==
  Tell(b, tick, "ClaimUpdated", [claim |-> c, status |-> b.claims[c].status, since |-> b.since[c]])

(* ObservationDelivered: the evidence, then its claim, which is observed   *)
(* since its first evidence was.                                           *)
Shown(b, ev) ==
  LET o == ev.data.obs
      c == Scenario.claimOf[o]
      filed == [b EXCEPT !.claims = Bridge!WithDelivered(@, o, b.known),
                         !.since[c] = IF b.claims[c] = NoClaim THEN b.seen[o] ELSE @]
      shown == [obs |-> o, claim |-> c, text |-> b.known[o].text, observed |-> b.seen[o]]
  IN  TellClaim(Tell(filed, ev.tick, "EvidenceRecorded", shown), ev.tick, c)

(* handleTruth *)
Heard(b, ev) ==
  CASE ev.kind = "ScenarioStarted" ->
         Tell(b, ev.tick, "SessionStarted",
              [scenario |-> ev.data.scenario, seed |-> ev.data.seed,
               totalTicks |-> ev.data.totalTicks, teams |-> b.initial])
    [] ev.kind = "ObservationCreated"   ->
         [b EXCEPT !.known[ev.data.obs] = Made(ev.data.text), !.seen[ev.data.obs] = ev.tick]
    [] ev.kind = "ObservationCorrupted" -> [b EXCEPT !.known[ev.data.obs] = ev.data.as]
    [] ev.kind = "ObservationDelivered" -> Shown(b, ev)
    [] ev.kind = "ScoreChanged"         -> Tell(b, ev.tick, "PublicScoreChanged", ev.data)
    [] ev.kind = "ScenarioCompleted" ->
         Tell(b, ev.tick, "RunCompleted",
              [finalTick |-> ev.data.finalTick, scoreTotal |-> Total(ev.data.finalScore),
               claimCount |-> Cardinality({c \in Claim : b.claims[c] # NoClaim}),
               evidenceCount |-> Cardinality(Evidence(b))])
    [] OTHER -> b

----------------------------------------------------------------------------
(***************************************************************************)
(* mirrorOperationalPublicState, for a run whose engine has moved on by    *)
(* delta.                                                                  *)
(***************************************************************************)
TouchedBy(ev) ==
  CASE ev.kind \in {"TeamDispatched", "TeamArrived"}        -> <<ev.data.team>>
    [] ev.kind \in {"CommandAccepted", "CommandRejected"} -> Scenario.teams
    [] OTHER -> <<>>

(* The teams to show again, each once, in the order they were touched. *)
Touched(delta) ==
  FoldLeft(LAMBDA acc, t : IF Contains(acc, t) THEN acc ELSE Append(acc, t), <<>>,
           FlattenSeq([n \in DOMAIN delta |-> TouchedBy(delta[n])]))

(* resolveVerification *)
Answered(b, tick, t, c) ==
  LET outcome == Bridge!Outcome(c, b.claims, b.known)
      ruled   == [b EXCEPT !.claims = Bridge!WithOutcome(@, c, b.known)]
  IN  Tell(IF outcome = "inconclusive" THEN b
           ELSE TellClaim(ruled, tick, c),
           tick, "VerificationResolved", [claim |-> c, team |-> t, outcome |-> outcome])

SameWork(e, t, job) ==
  /\ e.teams[t].order # NoOrder
  /\ e.teams[t].order.id = job.order
  /\ e.teams[t].order.task = "verify"

(* One waiting verification: gone with its order, answered when the team   *)
(* works, and waiting otherwise.                                           *)
Waits(run, t) ==
  LET job  == run.jobs[t]
      done == [run EXCEPT !.jobs[t] = NoJob]
  IN  IF job = NoJob THEN run
      ELSE IF ~SameWork(run.engine, t, job) THEN done
      ELSE IF run.engine.teams[t].status = "working"
      THEN [done EXCEPT !.bridge = Answered(@, run.engine.tick, t, job.claim)]
      ELSE run

ShowTeam(run, t) ==
  [run EXCEPT !.bridge = Tell(@, run.engine.tick, "OwnTeamUpdated",
                              [team |-> t, state |-> Own(run.engine.teams[t])])]

Mirrored(run, delta) ==
  FoldLeft(Waits, FoldLeft(ShowTeam, run, Touched(delta)), Scenario.teams)

(* publishTruthDelta: the completion is told last. *)
TerminalIndex(delta) ==
  Min({n \in DOMAIN delta : delta[n].kind = "ScenarioCompleted"} \cup {Len(delta) + 1})
Told(run, delta) ==
  LET cut   == TerminalIndex(delta)
      heard == [run EXCEPT !.bridge = FoldLeft(Heard, @, SubSeq(delta, 1, cut - 1))]
  IN  [Mirrored(heard, delta) EXCEPT !.bridge =
         FoldLeft(Heard, @, SubSeq(delta, cut, Len(delta)))]

(* What the engine logged after the first n events is told. *)
Published(run, n) == Told(run, SubSeq(run.engine.log, n + 1, Len(run.engine.log)))

\* Faulty: several ticks are published as one batch.
TicksInOneBatch(run, n) == Published([run EXCEPT !.engine = Steps(@, n)], Len(run.engine.log))

(* n ticks of session.advance, of advanceToTick and of the final drain:    *)
(* published after every tick.                                             *)
Ticks(run, n) ==
  FoldLeft(LAMBDA acc, k : Published([acc EXCEPT !.engine = StepEngine(@)], Len(acc.engine.log)),
           run, [k \in 1 .. n |-> k])

----------------------------------------------------------------------------
(***************************************************************************)
(* The intake of a command, shared by the live session and the replay:     *)
(* request is the claim a REQUEST_VERIFICATION is for, or NoClaim.         *)
(***************************************************************************)

(* A request that was accepted waits for its order; a rejected one clears  *)
(* what the team waited for (applyVerificationTargeting).                  *)
Targeted(run, team, claim, accepted) ==
  [run EXCEPT !.jobs[team] =
     IF accepted THEN [claim |-> claim, order |-> run.engine.teams[team].order.id] ELSE NoJob]

(* A command without a target has the empty one. *)
TargetOf(params) == IF "target" \in DOMAIN params THEN params.target ELSE ""

(* Target, publish, and only then the result of the command. *)
Concluded(run, c, key, request, answer) ==
  LET moved == [run EXCEPT !.engine = answer.engine]
      aimed == IF request = NoClaim THEN moved
               ELSE Targeted(moved, c.params.team, request, answer.accepted)
  IN  [Published(aimed, Len(run.engine.log)) EXCEPT !.bridge =
         Tell(@, answer.engine.tick, "CommandResult",
              [id |-> answer.id, name |-> c.name, key |-> key, accepted |-> answer.accepted,
               code |-> answer.code, eta |-> answer.eta, target |-> TargetOf(c.params)])]

Handled(run, c, key, request) == Concluded(run, c, key, request, Submit(run.engine, c, key))

AssessedIn(run, assessment) ==
  [run EXCEPT !.bridge = Tell(@, run.engine.tick, "AssessmentSubmitted", assessment)]

----------------------------------------------------------------------------
(***************************************************************************)
(* replayFromPublicActions: the run rebuilt from the seed and the ledger   *)
(* of public actions.                                                      *)
(***************************************************************************)
(* What reaches the engine of a request: the team, the claim's district    *)
(* and whatever else the request holds.                                    *)
Targeting(team, target, more) == [team |-> team, target |-> target, more |-> more]

(* applyCommand: the claim of a REQUEST_VERIFICATION is taken out of the   *)
(* parameters before the engine sees them; the ledger has no more fields.  *)
ApplyCommand(run, action) ==
  LET asked  == action.name = "REQUEST_VERIFICATION"
      params == IF asked THEN Targeting(action.params.team, action.params.target, Nothing)
                ELSE action.params
  IN  Handled(run, [name |-> action.name, params |-> params], action.key,
              IF asked THEN action.params.claim ELSE NoClaim)

(* advanceToTick *)
AdvancedTo(run, tick) ==
  IF run.engine.tick < tick THEN Ticks(run, tick - run.engine.tick) ELSE run

ApplyAt(run, action) ==
  IF action.kind = "command" THEN ApplyCommand(run, action)
  ELSE AssessedIn(run, [id |-> action.id, claim |-> action.claim,
                        probability |-> action.probability, at |-> action.atTick])

Apply(run, action) == ApplyAt(AdvancedTo(run, action.atTick), action)

(* A new session and the start of a replay: the bridge hears the engine's  *)
(* log as it is (create, and genesis in the replay).                       *)
Started(e) ==
  LET open == Opened(e) IN [open EXCEPT !.bridge = FoldLeft(Heard, @, e.log)]

LedgerReplay(seed, ledger) ==
  AdvancedTo(FoldLeft(Apply, Started(FreshEngine(seed)), ledger), Scenario.totalTicks)
===============================================================================

-------------------------------- MODULE RunLog --------------------------------
(***************************************************************************)
(* The engine as a function of its inputs (packages/simulation/src:        *)
(* engine.ts, replay.ts): what one step and one command append to the      *)
(* truth log, how a log is replayed, and what a snapshot keeps.            *)
(*                                                                         *)
(* An engine is a record, a step and a command are functions of it: the    *)
(* live session and every replay of it use the same ones.  The rules of    *)
(* orders, incidents and reports stand in TeamOrders, City and             *)
(* Observations; here they are reduced to what leaves a trace in the log:  *)
(* no roads, no pressure on districts, no reports that go stale.           *)
(***************************************************************************)
EXTENDS Integers, SequencesExt

CONSTANTS
  Scenario,  \* the compiled scenario, a record; see ScenarioAssumption
  NoTick,    \* "etaTick: null"
  NoOrder    \* "order: null"

TeamName == ToSet(Scenario.teams)
Incident == ToSet(Scenario.incidents)
Report   == ToSet(Scenario.reports)
Draw     == [wrong : BOOLEAN, lost : BOOLEAN]

ASSUME ScenarioAssumption ==
  /\ Scenario.totalTicks \in Nat \ {0}
  /\ Scenario.teams \in Seq(TeamName)
  /\ Scenario.incidents \in Seq(Incident)
  /\ Scenario.reports \in Seq(Report)
  /\ Scenario.home \in [TeamName -> Scenario.districts]
  /\ Scenario.tasks \in [TeamName -> SUBSET {"verify", "hazard_control"}]
  /\ Scenario.startTick \in [Incident -> Nat] \* IncidentInit.atTick
  /\ Scenario.work \in [Incident -> Nat]      \* team-ticks until it is resolved
  /\ Scenario.place \in [Incident -> Scenario.districts]
  /\ Scenario.about \in [Report -> Incident]
  /\ Scenario.offset \in [Report -> Nat]      \* a report relative to its incident
  /\ Scenario.delay \in [Report -> Nat]
  /\ Scenario.travel \in Nat                  \* ticks between two districts
  /\ DOMAIN Scenario.content = Report         \* the text of a report
  /\ \A o \in Report : Scenario.corruption[o].false \in BOOLEAN \* [text, false]
  /\ \A seed \in DOMAIN Scenario.draws : Scenario.draws[seed] \in Seq(Draw)

----------------------------------------------------------------------------
(* emit: an event carries the tick and a copy of the payload. *)
Emit(e, kind, data) ==
  [e EXCEPT !.log = Append(@, [kind |-> kind, tick |-> e.tick, data |-> data])]

(* filter: what of a list is in S, in its order. *)
Kept(list, S) ==
  FoldLeft(LAMBDA kept, x : IF x \in S THEN Append(kept, x) ELSE kept, <<>>, list)

(* A map with an entry for each member of S. *)
Table(S, Of(_)) == FoldSet(LAMBDA x, acc : acc @@ (x :> Of(x)), <<>>, S)

Standby(t) ==
  [status |-> "idle", eta |-> NoTick, order |-> NoOrder, location |-> Scenario.home[t]]

(* An incident that has not started. *)
Ahead(i) == [active |-> FALSE, left |-> Scenario.work[i]]

(* emptyScore, for the categories whose inputs are modelled here. *)
NoPoints == [events_handled |-> 0, events_missed |-> 0, wasted_dispatch |-> 0]

(* The constructor without a snapshot. *)
FreshEngine(seed) ==
  Emit([tick |-> 0, phase |-> "running", seed |-> seed, rng |-> 0, commands |-> 0, orders |-> 0,
        teams     |-> Table(TeamName, Standby),
        incidents |-> Table(Incident, Ahead),
        awaited   |-> <<>>, aloft |-> <<>>, delivered |-> <<>>, handled |-> <<>>,
        wasted    |-> 0, keys |-> {}, score |-> NoPoints, log |-> <<>>],
       "ScenarioStarted",
       [scenario |-> Scenario.id, seed |-> seed, totalTicks |-> Scenario.totalTicks])

----------------------------------------------------------------------------
(***************************************************************************)
(* step: its phases in the code's order, each a function of the engine.    *)
(***************************************************************************)

(* activateIncident: its reports are awaited from now on. *)
Occurs(e, i) ==
  LET reports == Kept(Scenario.reports, {o \in Report : Scenario.about[o] = i})
      waiting == [n \in DOMAIN reports |->
                    [obs |-> reports[n], at |-> e.tick + Scenario.offset[reports[n]]]]
  IN  Emit([e EXCEPT !.incidents[i].active = TRUE, !.awaited = @ \o waiting],
           "TrueIncidentOccurred", [incident |-> i, district |-> Scenario.place[i]])

(* The teams that work on an incident where it burns. *)
Crew(e, i) ==
  {t \in TeamName : /\ e.teams[t].status = "working"
                    /\ e.teams[t].location = Scenario.place[i]
                    /\ e.teams[t].order.task = "hazard_control"}

Fights(e, i) ==
  LET left == e.incidents[i].left - Cardinality(Crew(e, i))
  IN  IF ~e.incidents[i].active THEN e
      ELSE IF Crew(e, i) # {} /\ left <= 0
      THEN Emit([e EXCEPT !.incidents[i] = [active |-> FALSE, left |-> 0],
                          !.handled = Append(@, i)],
                "IncidentResolved", [incident |-> i])
      ELSE Emit([e EXCEPT !.incidents[i].left = left],
                "ActionApplied", [action |-> "incident_pressure", incident |-> i])

Incidents(e) ==
  LET starting == Kept(Scenario.incidents, {i \in Incident : Scenario.startTick[i] = e.tick})
  IN  FoldLeft(Fights, FoldLeft(Occurs, e, starting), Scenario.incidents)

(* processTeams *)
Arrives(e, t) ==
  IF e.teams[t].status # "transit" \/ e.teams[t].eta > e.tick THEN e
  ELSE Emit([e EXCEPT !.teams[t] = [@ EXCEPT !.status = "working", !.eta = NoTick,
                                             !.location = e.teams[t].order.target]],
            "TeamArrived", [team |-> t, order |-> e.teams[t].order.id])

(* createObservation: the draws of the random generator decide whether the *)
(* report gets the other text and whether it is lost.                      *)
Creates(e, awaited) ==
  LET o       == awaited.obs
      draw    == Scenario.draws[e.seed][e.rng + 1]
      created == Emit([e EXCEPT !.rng = @ + 1], "ObservationCreated",
                      [obs |-> o, text |-> Scenario.content[o]])
      made    == IF draw.wrong
                 THEN Emit(created, "ObservationCorrupted",
                           [obs |-> o, as |-> Scenario.corruption[o]])
                 ELSE created
      held    == IF Scenario.delay[o] > 0
                 THEN Emit(made, "ObservationDelayed", [obs |-> o, delay |-> Scenario.delay[o]])
                 ELSE made
  IN  IF draw.lost THEN Emit(made, "ObservationLost", [obs |-> o])
      ELSE [held EXCEPT !.aloft = Append(@, [obs |-> o, due |-> e.tick + Scenario.delay[o]])]

Delivers(e, landed) ==
  Emit([e EXCEPT !.delivered = Append(@, [obs |-> landed.obs, verified |-> FALSE])],
       "ObservationDelivered", [obs |-> landed.obs])

(* processObservations, for reports relative to their incident's start. *)
Observations(e) ==
  LET due     == {w \in ToSet(e.awaited) : w.at <= e.tick}
      created == FoldLeft(Creates, [e EXCEPT !.awaited = Kept(@, ToSet(@) \ due)],
                          Kept(e.awaited, due))
      landing == {a \in ToSet(created.aloft) : a.due <= e.tick}
  IN  FoldLeft(Delivers, [created EXCEPT !.aloft = Kept(@, ToSet(@) \ landing)],
               Kept(created.aloft, landing))

(* processVerifications marks what was delivered about the team's district. *)
Inspected(e, d) ==
  \E t \in TeamName : /\ e.teams[t].status = "working"
                      /\ "verify" \in Scenario.tasks[t]
                      /\ e.teams[t].order.target = d
Checked(e, report) ==
  IF Inspected(e, Scenario.place[Scenario.about[report.obs]])
  THEN [report EXCEPT !.verified = TRUE] ELSE report
Verifications(e) == [e EXCEPT !.delivered = [n \in DOMAIN @ |-> Checked(e, @[n])]]

(* recomputeScore and computeScore for the categories whose inputs are     *)
(* modelled here, in half points: one event per category that changed,     *)
(* each with the new total.                                                *)
Missed(e) == IF e.tick = Scenario.totalTicks
             THEN Cardinality({i \in Incident : e.incidents[i].active}) ELSE 0
Points(e) == [events_handled  |-> 20 * Len(e.handled),
              events_missed   |-> -30 * Missed(e),
              wasted_dispatch |-> -e.wasted]
Total(score) == FoldFunction(+, 0, score)
Scored(e, c) ==
  IF Points(e)[c] = e.score[c] THEN e
  ELSE Emit(e, "ScoreChanged", [category |-> c, delta |-> Points(e)[c] - e.score[c],
                                total |-> Total(Points(e))])
Rescored(e) ==
  [FoldLeft(Scored, e, <<"events_handled", "events_missed", "wasted_dispatch">>)
     EXCEPT !.score = Points(e)]

Digest(e) == Emit(e, "SystemStateChanged", [teams |-> e.teams])

(* finalizeRun *)
Finalized(e) ==
  IF e.tick < Scenario.totalTicks THEN e
  ELSE Emit([e EXCEPT !.phase = "completed"], "ScenarioCompleted",
            [finalScore |-> e.score, finalTick |-> e.tick])

(* step(): nothing once the run is completed. *)
StepEngine(e) ==
  IF e.phase = "completed" THEN e
  ELSE LET moved == FoldLeft(Arrives, Incidents([e EXCEPT !.tick = @ + 1]), Scenario.teams)
       IN  Finalized(Rescored(Digest(Verifications(Observations(moved)))))

----------------------------------------------------------------------------
(***************************************************************************)
(* submitCommand.                                                          *)
(***************************************************************************)
Refused(e) == [engine |-> e, accepted |-> FALSE, eta |-> NoTick]

(* dispatchTeam; REQUEST_VERIFICATION is a dispatch with task "verify". *)
Dispatch(e, t, d, task) ==
  LET eta == e.tick + (IF e.teams[t].location = d THEN 0 ELSE Scenario.travel)
      id  == e.orders + 1
      order == [id |-> id, target |-> d, task |-> task]
  IN  IF task \notin Scenario.tasks[t] \/ e.teams[t].status = "transit" THEN Refused(e)
      ELSE [accepted |-> TRUE, eta |-> eta,
            engine |-> Emit([e EXCEPT !.orders = id,
                                      !.teams[t] = [@ EXCEPT !.status = "transit", !.eta = eta,
                                                             !.order = order]],
                            "TeamDispatched", [team |-> t, order |-> id, to |-> d, eta |-> eta])]

(* cancelOrder *)
Cancel(e, o) ==
  LET holders == {t \in TeamName : e.teams[t].order # NoOrder /\ e.teams[t].order.id = o}
      t == CHOOSE h \in holders : TRUE
      ahead == IF e.teams[t].eta = NoTick THEN 0 ELSE e.teams[t].eta - e.tick
      waste == IF ahead > 0 THEN ahead ELSE 0
      noted == IF e.teams[t].status = "working"
               THEN Emit(e, "ActionApplied", [action |-> "order_cancelled", team |-> t]) ELSE e
  IN  IF holders = {} THEN Refused(e)
      ELSE [accepted |-> TRUE, eta |-> NoTick,
            engine |-> [noted EXCEPT !.wasted = @ + waste,
                                     !.teams[t] = [@ EXCEPT !.status = "idle", !.eta = NoTick,
                                                            !.order = NoOrder]]]

Execute(e, c) ==
  CASE c.name = "DISPATCH_TEAM"        -> Dispatch(e, c.params.team, c.params.target, c.params.task)
    [] c.name = "REQUEST_VERIFICATION" -> Dispatch(e, c.params.team, c.params.target, "verify")
    [] c.name = "CANCEL_ORDER"         -> Cancel(e, c.params.order)

Rejected(e, id, code) ==
  [engine |-> Emit(e, "CommandRejected", [id |-> id, code |-> code]),
   id |-> id, accepted |-> FALSE, code |-> code, eta |-> NoTick]

(* A command that was issued; its key is remembered when it is accepted.   *)
Decided(e, id, c, key) ==
  LET done == Execute(e, c)
  IN  IF key \in e.keys THEN Rejected(e, id, "duplicate_command")
      ELSE IF ~done.accepted THEN Rejected(e, id, "refused")
      ELSE [engine |-> Rescored(Emit([done.engine EXCEPT !.keys = @ \cup {key}], "CommandAccepted",
                                     [id |-> id, key |-> key, eta |-> done.eta])),
            id |-> id, accepted |-> TRUE, code |-> "", eta |-> done.eta]

(* A running engine: the command is always issued, then decided.           *)
Decide(e, c, key) ==
  LET id     == e.commands + 1
      issued == Emit([e EXCEPT !.commands = id], "CommandIssued",
                     [id |-> id, name |-> c.name, key |-> key, params |-> c.params])
  IN  Decided(issued, id, c, key)

(* A completed engine answers without an event. *)
Submit(e, c, key) ==
  IF e.phase = "completed"
  THEN [engine |-> e, id |-> 0, accepted |-> FALSE, code |-> "run_completed", eta |-> NoTick]
  ELSE Decide(e, c, key)

----------------------------------------------------------------------------
(***************************************************************************)
(* Replay of a truth log (replayEventLog): commands are submitted again at *)
(* the tick the log gives them, everything else comes from the seed.       *)
(***************************************************************************)
Steps(e, n) == FoldLeft(LAMBDA acc, k : StepEngine(acc), e, [k \in 1 .. n |-> k])

Reach(e, tick) == IF e.tick < tick THEN Steps(e, tick - e.tick) ELSE e

ResubmitAt(e, ev) ==
  IF e.tick # ev.tick THEN e
  ELSE Submit(e, [name |-> ev.data.name, params |-> ev.data.params], ev.data.key).engine

Resubmit(e, ev) ==
  IF ev.kind = "CommandIssued" THEN ResubmitAt(Reach(e, ev.tick), ev) ELSE e

RunToEnd(e) == Reach(e, Scenario.totalTicks)

TruthReplay(seed, log) == RunToEnd(FoldLeft(Resubmit, FreshEngine(seed), log))

----------------------------------------------------------------------------
(***************************************************************************)
(* Snapshot and resume.                                                    *)
(***************************************************************************)

(* What snapshot() writes: the world (clock, teams, incidents, awaited     *)
(* reports, score), the observation queues, counters, keys, random state.  *)
Snapshot(e) ==
  [tick |-> e.tick, seed |-> e.seed, rng |-> e.rng, commands |-> e.commands, orders |-> e.orders,
   world |-> [phase |-> e.phase, teams |-> e.teams, incidents |-> e.incidents,
              awaited |-> e.awaited, score |-> e.score],
   aloft |-> e.aloft, delivered |-> e.delivered, keys |-> e.keys,
   handled |-> e.handled, wasted |-> e.wasted, events |-> e.log, sequence |-> Len(e.log)]

\* Faulty: the remembered keys are not restored.
ResumedWithoutKeys(s) ==
  [tick |-> s.tick, phase |-> s.world.phase, seed |-> s.seed, rng |-> s.rng,
   commands |-> s.commands, orders |-> s.orders, teams |-> s.world.teams,
   incidents |-> s.world.incidents, awaited |-> s.world.awaited, aloft |-> s.aloft,
   delivered |-> s.delivered, handled |-> s.handled, wasted |-> s.wasted, keys |-> {},
   score |-> s.world.score, log |-> s.events]

(* The constructor with a snapshot (its binding checks hold for every      *)
(* snapshot the engine itself took).                                       *)
Resumed(s) ==
  [tick |-> s.tick, phase |-> s.world.phase, seed |-> s.seed, rng |-> s.rng,
   commands |-> s.commands, orders |-> s.orders, teams |-> s.world.teams,
   incidents |-> s.world.incidents, awaited |-> s.world.awaited, aloft |-> s.aloft,
   delivered |-> s.delivered, handled |-> s.handled, wasted |-> s.wasted, keys |-> s.keys,
   score |-> s.world.score, log |-> s.events]
===============================================================================

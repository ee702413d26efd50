--------------------------------- MODULE City ---------------------------------
(***************************************************************************)
(* The city the teams work in: incidents and their chains, scheduled       *)
(* effects, the levels of the districts, and the resources and delays the  *)
(* score is made of (packages/simulation/src/engine.ts, score.ts).         *)
(*                                                                         *)
(* Extends TeamOrders: a tick is its Step together with the other phases   *)
(* of step, a dispatch is its DispatchTeam together with recordFirstAction.*)
(* Levels and their changes are whole numbers.  An incident is active when *)
(* it has started and was not handled; each keeps the tick of both.        *)
(***************************************************************************)
EXTENDS TeamOrders, SequencesExt

CONSTANTS
  Incident,      \* incidents of the scenario
  Scripted,      \* the incidents as a sequence, in the scenario's order
  Def,           \* [Incident -> [district, atTick, severity, attribute, delta, handledBy]]
  ChainOf,       \* chainTrigger of the incidents that have one (its domain):
                 \* [source, attribute, below, forTicks]
  Watched,       \* trigger.district ?? source.district of those incidents
  Effects,       \* sequence of [at, every, district, attribute, delta]
  StartLevel,    \* [District -> [Attribute -> 0 .. 100]]
  Generators,    \* resources.backupGenerators
  Advisories,    \* resources.advisoryUses
  BackupTicks,   \* how long a backup generator runs; 120 in the code
  GraceTicks,    \* DECISION_DELAY_GRACE_TICKS
  PointsPerTick, \* DECISION_DELAY_POINTS_PER_TICK
  MaxPoints      \* DECISION_DELAY_MAX_POINTS_PER_INCIDENT

Attribute ==
  {"power", "communications", "water", "traffic", "medicalCapacity", "hazardLevel",
   "populationRisk"}

Triggered == DOMAIN ChainOf

ASSUME CityAssumption ==
  /\ Def \in [Incident -> [district : District, atTick : Nat, severity : 0 .. 100,
                           attribute : Attribute, delta : Int, handledBy : SUBSET Task]]
  /\ Triggered \subseteq Incident
  /\ ChainOf \in [Triggered -> [source : Incident, attribute : Attribute, below : Int,
                                forTicks : Nat \ {0}]]
  /\ Watched \in [Triggered -> District]
  /\ Scripted \in Seq(Incident)
  /\ \A i \in Incident : \E n \in DOMAIN Scripted : Scripted[n] = i
  /\ \A n, m \in DOMAIN Scripted : Scripted[n] = Scripted[m] => n = m
  /\ Effects \in Seq([at : Nat, every : Nat \cup {NoTick}, district : District,
                      attribute : Attribute, delta : Int])
  /\ StartLevel \in [District -> [Attribute -> 0 .. 100]]
  /\ {Generators, Advisories, GraceTicks, PointsPerTick, MaxPoints} \subseteq Nat
  /\ BackupTicks \in Nat \ {0}

VARIABLES
  level,        \* world.districts: [District -> [Attribute -> 0 .. 100]]
  occurred,     \* the incidents that have started, in order (internal.incidents)
  started,      \* incidentStartTick
  handled,      \* handledTick
  severity,     \* severity
  chained,      \* the incidents that were started by a chain trigger
  below,        \* the count of the chain monitor of each triggered incident
  effectDue,    \* dueTick of each scheduled effect
  firstAction,  \* firstActionTickByIncident
  delayPoints,  \* decisionDelayPenalty
  generators,   \* resources.backupGenerators
  backupUntil,  \* internal.backupActive
  advisories,   \* resources.advisoryUses
  misadvisory   \* resources.misadvisoryCost

(* History: the ticks in which a chain's condition held when it was        *)
(* checked, and the ticks in which a backup generator was started.         *)
VARIABLES heldAt, backupsAt

incidentVars == <<occurred, started, handled, severity, chained, below, effectDue, heldAt>>
resourceVars == <<generators, backupUntil, advisories, misadvisory, backupsAt>>
scoreVars    == <<firstAction, delayPoints>>
cityVars     == <<level, incidentVars, resourceVars, scoreVars>>
allVars      == <<vars, cityVars>>

CityInit ==
  /\ Init
  /\ level = StartLevel
  /\ occurred = <<>>
  /\ started = [i \in Incident |-> NoTick]
  /\ handled = [i \in Incident |-> NoTick]
  /\ severity = [i \in Incident |-> Def[i].severity]
  /\ chained = {}
  /\ below = [i \in Triggered |-> 0]
  /\ effectDue = [n \in DOMAIN Effects |-> Effects[n].at]
  /\ firstAction = [i \in Incident |-> NoTick]
  /\ delayPoints = 0
  /\ generators = Generators
  /\ backupUntil = [d \in District |-> NoTick]
  /\ advisories = Advisories
  /\ misadvisory = 0
  /\ heldAt = [i \in Triggered |-> {}]
  /\ backupsAt = [d \in District |-> {}]

----------------------------------------------------------------------------
(***************************************************************************)
(* Levels and the decision delay.                                          *)
(***************************************************************************)
Clamp(n) == IF n < 0 THEN 0 ELSE IF n > 100 THEN 100 ELSE n

(* A change of one level of a district. *)
Changed(levels, d, a, delta) == [levels EXCEPT ![d][a] = Clamp(@ + delta)]

(* decisionDelayPointsFor *)
Points(delay) ==
  IF delay <= GraceTicks THEN 0 ELSE Min({MaxPoints, (delay - GraceTicks) * PointsPerTick})

\* Faulty: a handled incident is charged no longer.
DelayOfOpen(now, start, first) ==
  FoldFunction(+, 0, [i \in Incident |->
    IF start[i] = NoTick \/ handled[i] # NoTick THEN 0
    ELSE Points((IF first[i] = NoTick THEN now ELSE first[i]) - start[i])])

(* updateDecisionDelay at tick now: an unanswered incident is charged up   *)
(* to the present.                                                         *)
Charges(now, start, first) ==
  [i \in Incident |->
     IF start[i] = NoTick THEN 0
     ELSE Points((IF first[i] = NoTick THEN now ELSE first[i]) - start[i])]
DelayPoints(now, start, first) == FoldFunction(+, 0, Charges(now, start, first))

Active(i) == started[i] # NoTick /\ handled[i] = NoTick

(* recordFirstAction *)
Responded(d) ==
  firstAction' = [i \in Incident |-> IF Active(i) /\ Def[i].district = d /\ firstAction[i] = NoTick
                                     THEN tick ELSE firstAction[i]]

----------------------------------------------------------------------------
(***************************************************************************)
(* Commands.  Each recomputes the score when it was accepted.              *)
(***************************************************************************)
Accepted == usedKeys' # usedKeys
(* recomputeScore, as far as it has state of its own. *)
Rescored == delayPoints' = DelayPoints(tick, started, firstAction')
TeamsUnchanged == UNCHANGED <<teamVars, wasteVars, closed, orderSeq, orderHist>>

DispatchTo(t, d, task, k) ==
  /\ DispatchTeam(t, d, task, k)
  /\ IF Accepted THEN Responded(d) ELSE UNCHANGED firstAction
  /\ Rescored
  /\ UNCHANGED <<level, incidentVars, resourceVars>>

(* CANCEL_ORDER, CLOSE_ROUTE and REOPEN_ROUTE do not count as a response.  *)
OtherTeamCommand(k) ==
  /\ \/ \E o \in OrderId : CancelOrder(o, k)
     \/ \E r \in Route, close \in BOOLEAN : SetRouteClosed(r, close, k)
  /\ UNCHANGED cityVars

ReroutePower(from, to, k) ==
  /\ Issue
  /\ \/ /\ from # to
        /\ Accept(k, {[kind |-> "ActionApplied"]})
        /\ level' = Changed(Changed(level, from, "power", -10), to, "power", 15)
        /\ Responded(to)
        /\ Rescored
        /\ TeamsUnchanged
        /\ UNCHANGED <<incidentVars, resourceVars>>
     \/ Reject(k, from # to) /\ UNCHANGED cityVars

CanStartBackup(d) == generators > 0 /\ backupUntil[d] = NoTick

ActivateBackup(d, k) ==
  /\ Issue
  /\ \/ /\ CanStartBackup(d)
        /\ Accept(k, {[kind |-> "ActionApplied"]})
        /\ generators' = generators - 1
        /\ backupUntil' = [backupUntil EXCEPT ![d] = tick + BackupTicks]
        /\ backupsAt' = [backupsAt EXCEPT ![d] = @ \cup {tick}]
        /\ Responded(d)
        /\ Rescored
        /\ TeamsUnchanged
        /\ UNCHANGED <<level, incidentVars, advisories, misadvisory>>
     \/ Reject(k, CanStartBackup(d)) /\ UNCHANGED cityVars

(* What an advisory costs when the hazard does not warrant it, and its     *)
(* effect on traffic and risk.                                             *)
Unwarranted(d, kind) ==
  \/ kind = "evacuation" /\ level[d]["hazardLevel"] < 60
  \/ kind = "warning" /\ level[d]["hazardLevel"] < 40
AdvisoryCost(d, kind) ==
  IF Unwarranted(d, kind) THEN (IF kind = "evacuation" THEN 30 ELSE 10) ELSE 0
Advised(d, kind) ==
  LET traffic == IF kind = "info" THEN -3 ELSE IF ~Unwarranted(d, kind) THEN 0
                 ELSE IF kind = "evacuation" THEN -20 ELSE -8
      risk    == IF kind = "evacuation" THEN (IF Unwarranted(d, kind) THEN 5 ELSE -5)
                 ELSE IF kind = "warning" /\ ~Unwarranted(d, kind) THEN -3 ELSE 0
  IN  Changed(Changed(level, d, "traffic", traffic), d, "populationRisk", risk)

IssueAdvisory(d, kind, k) ==
  /\ Issue
  /\ \/ /\ advisories > 0
        /\ Accept(k, {[kind |-> "ActionApplied"]})
        /\ advisories' = advisories - 1
        /\ misadvisory' = misadvisory + AdvisoryCost(d, kind)
        /\ level' = Advised(d, kind)
        /\ Responded(d)
        /\ Rescored
        /\ TeamsUnchanged
        /\ UNCHANGED <<incidentVars, generators, backupUntil, backupsAt>>
     \/ Reject(k, advisories > 0) /\ UNCHANGED cityVars

----------------------------------------------------------------------------
(***************************************************************************)
(* One tick, phase by phase.                                               *)
(***************************************************************************)

(* processIncidents: the teams that work on an incident, before the        *)
(* arrivals of this tick.                                                  *)
Crews(i) ==
  {t \in Team : /\ status[t] = "working"
                /\ location[t] = Def[i].district
                /\ order[t] # NoOrder
                /\ order[t].task \in Def[i].handledBy}

(* activateIncident, for the incidents that start now, in the scenario's   *)
(* order.                                                                  *)
Listed(list, new) ==
  FoldLeft(LAMBDA acc, i : IF i \in new THEN Append(acc, i) ELSE acc, list, Scripted)

(* The pressure of the active incidents on their districts. *)
Pressed(levels, active, list) ==
  FoldLeft(LAMBDA acc, i : IF i \in active
                           THEN Changed(acc, Def[i].district, Def[i].attribute, Def[i].delta)
                           ELSE acc,
           levels, list)

(* monitorChainTrigger for incident i, on the incidents s as they are at   *)
(* this point of the tick; v is what no monitor changes: the tick, the     *)
(* levels and the incidents handled.                                       *)
Burning(s, v, i) == s.started[i] # NoTick /\ v.handled[i] = NoTick
Holding(s, v, i) ==
  /\ Burning(s, v, ChainOf[i].source)
  /\ v.level[Watched[i]][ChainOf[i].attribute] < ChainOf[i].below

\* Faulty: a tick above the threshold does not reset the count.
MonitorKeepsCount(s, v, i) ==
  IF Burning(s, v, i) \/ ~Holding(s, v, i) THEN s
  ELSE IF s.below[i] + 1 < ChainOf[i].forTicks THEN [s EXCEPT !.below[i] = @ + 1]
  ELSE IF s.started[i] # NoTick THEN [s EXCEPT !.below[i] = 0]
  ELSE [s EXCEPT !.below[i] = 0, !.started[i] = v.tick, !.occurred = Append(@, i)]

\* Faulty: what was handled may start again.
MonitorReactivates(s, v, i) ==
  IF Burning(s, v, i) \/ ~Burning(s, v, ChainOf[i].source) THEN s
  ELSE IF ~Holding(s, v, i) THEN [s EXCEPT !.below[i] = 0]
  ELSE IF s.below[i] + 1 < ChainOf[i].forTicks THEN [s EXCEPT !.below[i] = @ + 1]
  ELSE [s EXCEPT !.below[i] = 0, !.started[i] = v.tick, !.occurred = Append(@, i)]

Monitor(s, v, i) ==
  IF Burning(s, v, i) \/ ~Burning(s, v, ChainOf[i].source) THEN s
  ELSE IF ~Holding(s, v, i) THEN [s EXCEPT !.below[i] = 0]
  ELSE IF s.below[i] + 1 < ChainOf[i].forTicks THEN [s EXCEPT !.below[i] = @ + 1]
  ELSE IF s.started[i] # NoTick THEN [s EXCEPT !.below[i] = 0]
  ELSE [s EXCEPT !.below[i] = 0, !.started[i] = v.tick, !.occurred = Append(@, i)]

(* The monitors in the scenario's order: a chain started by one of them is *)
(* the source of a later one in the same tick.                             *)
Noticed(s, v, i) ==
  IF Holding(s, v, i) THEN [s EXCEPT !.held[i] = @ \cup {v.tick}] ELSE s
Watch(s, v, i) == IF i \in Triggered THEN Monitor(Noticed(s, v, i), v, i) ELSE s
Monitored(s, v) == FoldLeft(LAMBDA acc, i : Watch(acc, v, i), s, Scripted)

(* applyTeamWork: what one team at work changes in a tick.  The changes of *)
(* one attribute all have one sign, so their order does not matter.        *)
WorkEffects ==
  {<<"power_repair", "power", 4>>, <<"comms_repair", "communications", 4>>,
   <<"hazard_control", "hazardLevel", -6>>, <<"medical_support", "medicalCapacity", 5>>,
   <<"medical_support", "populationRisk", -3>>, <<"water_restore", "water", 4>>}
Effort(t, d, a) ==
  LET done == {e \in WorkEffects : e[1] = order[t].task /\ e[2] = a}
  IN  IF order[t].target # d \/ done = {} THEN 0 ELSE (CHOOSE e \in done : TRUE)[3]
Worked(levels) ==
  LET busy == {t \in Team : status[t] = "working"} \cup Arriving
  IN  [d \in District |-> [a \in Attribute |->
         Clamp(levels[d][a] + FoldFunction(+, 0, [t \in busy |-> Effort(t, d, a)]))]]

\* Faulty: the floor is gone one tick too early.
BackedUpEarly(levels, now) ==
  [d \in District |->
     IF backupUntil[d] # NoTick /\ backupUntil[d] > now + 1
     THEN [levels[d] EXCEPT !["power"] = IF @ < 40 THEN 40 ELSE @] ELSE levels[d]]

(* processDynamics: a backup generator keeps the power at 40. *)
BackedUp(levels, now) ==
  [d \in District |->
     IF backupUntil[d] # NoTick /\ backupUntil[d] > now
     THEN [levels[d] EXCEPT !["power"] = IF @ < 40 THEN 40 ELSE @] ELSE levels[d]]

(* processScheduledEffects: those that are due. *)
Scheduled(levels, due) ==
  FoldLeft(LAMBDA acc, n : IF n \in due
                           THEN Changed(acc, Effects[n].district, Effects[n].attribute, Effects[n].delta)
                           ELSE acc,
           levels, [n \in DOMAIN Effects |-> n])

CityStep ==
  /\ Step
  /\ LET now     == tick + 1
         begun   == [i \in Incident |-> IF Def[i].atTick = now /\ started[i] = NoTick THEN now
                                        ELSE started[i]]
         seen    == Listed(occurred, {i \in Incident : begun[i] # started[i]})
         burning == {i \in Incident : begun[i] # NoTick /\ handled[i] = NoTick}
         fought  == {i \in burning : Crews(i) # {}}
         left    == [i \in Incident |-> IF i \in fought
                                        THEN Clamp(severity[i] - 6 * Cardinality(Crews(i)))
                                        ELSE severity[i]]
         over    == {i \in fought : left[i] = 0}
         pressed == Pressed(level, burning \ over, seen)
         due     == {n \in DOMAIN Effects : effectDue[n] = now}
     IN  /\ severity' = left
         /\ handled' = [i \in Incident |-> IF i \in over THEN now ELSE handled[i]]
         /\ firstAction' = [i \in Incident |-> IF i \in fought /\ firstAction[i] = NoTick
                                               THEN now ELSE firstAction[i]]
         /\ LET after == Monitored([started |-> begun, occurred |-> seen, below |-> below,
                                    held |-> heldAt],
                                   [tick |-> now, level |-> pressed, handled |-> handled'])
            IN  /\ started' = after.started
                /\ occurred' = after.occurred
                /\ below' = after.below
                /\ heldAt' = after.held
                /\ chained' = chained \cup {i \in Incident : after.started[i] # begun[i]}
         /\ level' = BackedUp(Worked(Scheduled(pressed, due)), now)
         /\ effectDue' = [n \in DOMAIN Effects |->
                            IF n \in due /\ Effects[n].every # NoTick
                            THEN now + Effects[n].every ELSE effectDue[n]]
         /\ backupUntil' = [d \in District |->
                              IF backupUntil[d] # NoTick /\ backupUntil[d] <= now THEN NoTick
                              ELSE backupUntil[d]]
         /\ delayPoints' = DelayPoints(now, started', firstAction')
  /\ UNCHANGED <<generators, advisories, misadvisory, backupsAt>>

CityNext ==
  \/ CityStep
  \/ \E k \in Key :
       \/ \E t \in Team, d \in District, task \in Task : DispatchTo(t, d, task, k)
       \/ OtherTeamCommand(k)
       \/ \E from, to \in District : ReroutePower(from, to, k)
       \/ \E d \in District : ActivateBackup(d, k)
       \/ \E d \in District, kind \in {"info", "warning", "evacuation"} : IssueAdvisory(d, kind, k)

CitySpec == CityInit /\ [][CityNext]_allVars

----------------------------------------------------------------------------
(***************************************************************************)
(* Properties.                                                             *)
(***************************************************************************)

(* A chained incident starts exactly when its source was active and the    *)
(* watched level below the threshold for the given number of ticks in a    *)
(* row: not on scattered ticks, not late, and not again after it was       *)
(* handled (monitorChainTrigger).                                          *)
Sustained(i, t) == t - ChainOf[i].forTicks + 1 .. t \subseteq heldAt[i]
ChainsOnSustained ==
  \A i \in Triggered :
    /\ i \in chained => Sustained(i, started[i])
    /\ \A t \in 1 .. tick : Sustained(i, t) => started[i] # NoTick /\ started[i] <= t

(* Neglect is never free: the delay points never go down, neither by       *)
(* answering an incident late nor by resolving it, and no incident costs   *)
(* more than its limit (docs/scoring.md, "A penalty is fixed once ...").   *)
NeglectIsCharged ==
  [][/\ delayPoints' >= delayPoints
     /\ delayPoints' <= MaxPoints * Len(occurred')]_allVars

(* An incident starts once and is handled once; it keeps both ticks.       *)
OutcomeIsFinal ==
  [][\A i \in Incident :
       /\ started[i] # NoTick => started'[i] = started[i]
       /\ handled[i] # NoTick => handled'[i] = handled[i]]_allVars

(* Whatever pressed on the district in a tick, a backup generator that     *)
(* runs on leaves it with power; and it runs on until its time is over,    *)
(* counted from its start.                                                 *)
BackupHoldsFloor ==
  [][tick' # tick =>
       \A d \in District : (\E t \in backupsAt[d] : tick' - t \in 1 .. BackupTicks - 1)
                             => level'[d]["power"] >= 40]_allVars

----------------------------------------------------------------------------
(***************************************************************************)
(* Why: what every step keeps of the incidents, the monitors' counts, the  *)
(* generators and the charges.                                             *)
(***************************************************************************)
Moment == Nat \cup {NoTick}

CityTypes ==
  /\ tick \in Nat
  /\ level \in [District -> [Attribute -> Int]]
  /\ started \in [Incident -> Moment]
  /\ \A i \in Incident : started[i] # NoTick => started[i] <= tick
  /\ handled \in [Incident -> Moment]
  /\ firstAction \in [Incident -> Moment]
  /\ occurred \in Seq(Incident)
  /\ chained \subseteq Triggered
  /\ below \in [Triggered -> Nat]
  /\ heldAt \in [Triggered -> SUBSET (1 .. tick)]
  /\ backupUntil \in [District -> Moment]
  /\ backupsAt \in [District -> SUBSET (0 .. tick)]

(* A list holds the incidents that have started, each once. *)
Lists(list, start) ==
  /\ \A n, m \in DOMAIN list : list[n] = list[m] => n = m
  /\ \A i \in Incident : start[i] # NoTick <=> \E n \in DOMAIN list : list[n] = i

(* The monitor of an incident that has not started: before its source      *)
(* starts nothing held; while the source is active the count is the length *)
(* of the run of ticks in which the condition has held up to now.          *)
Counted(i) ==
  LET source == ChainOf[i].source
      n      == below[i]
  IN  \/ started[source] = NoTick /\ n = 0 /\ heldAt[i] = {}
      \/ handled[source] # NoTick
      \/ /\ started[source] # NoTick
         /\ n < ChainOf[i].forTicks
         /\ tick - n + 1 .. tick \subseteq heldAt[i]
         /\ tick - n \notin heldAt[i]

(* A generator that was started runs until its time is over. *)
StillRuns(d, t) == tick - t < BackupTicks => backupUntil[d] # NoTick /\ backupUntil[d] >= t + BackupTicks

CityInv ==
  /\ CityTypes
  /\ Lists(occurred, started)
  /\ \A i \in Triggered : started[i] = NoTick => Counted(i)
  /\ \A i \in chained : started[i] \in Nat
  /\ ChainsOnSustained
  /\ \A d \in District : \A t \in backupsAt[d] : StillRuns(d, t)
  /\ delayPoints = DelayPoints(tick, started, firstAction)

===============================================================================

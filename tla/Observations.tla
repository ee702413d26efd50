----------------------------- MODULE Observations -----------------------------
(***************************************************************************)
(* The channel by which players learn of incidents: reports are created on *)
(* schedule, may be lost, are delayed while the district's communications  *)
(* are down, and are delivered or dropped as outdated                      *)
(* (packages/simulation/src/engine.ts, the phases of step that concern     *)
(* observations).                                                          *)
(*                                                                         *)
(* Incidents and the state of communications are the environment here: in  *)
(* each tick any incident that has not occurred may start, any active one  *)
(* may be resolved, and any district's communications may be up or down.   *)
(* What a report says, and its corruption, is in PlayerBridge.             *)
(***************************************************************************)
EXTENDS Integers, FiniteSets

CONSTANTS
  Obs,             \* observation definitions of the scenario
  Incident,        \* incidents of the scenario
  District,        \* districts of the scenario
  IncidentOf,      \* [Obs -> Incident]: incidentId
  PlaceOf,         \* [Incident -> District]
  AtTick,          \* [Obs -> Nat]
  Relative,        \* the observations with relativeToIncidentStart
  BaseDelay,       \* [Obs -> Nat]: baseDelayTicks
  DegradedFactor,  \* [Obs -> Nat]: degradedDelayMultiplier, a whole number here
  StaleAfter,      \* [Obs -> Nat or NoTick]: staleAfterTicks
  Losable,         \* the observations with lossProbability > 0
  NoTick,          \* a moment that has not come, and "no limit"
  TotalTicks,      \* length of the run
  Priorities       \* the durations clients ask communication priority for

ASSUME ChannelAssumption ==
  /\ IsFiniteSet(Obs)
  /\ IncidentOf \in [Obs -> Incident]
  /\ PlaceOf \in [Incident -> District]
  /\ AtTick \in [Obs -> Nat]
  /\ BaseDelay \in [Obs -> Nat]
  /\ DegradedFactor \in [Obs -> Nat \ {0}]
  /\ StaleAfter \in [Obs -> Nat \cup {NoTick}]
  /\ Relative \subseteq Obs
  /\ TotalTicks \in Nat
  /\ Priorities \subseteq Nat
  /\ NoTick \notin Nat

VARIABLES
  tick,       \* clock; the run is completed when it reaches TotalTicks
  startTick,  \* incidentStartTick: [Incident -> Nat or NoTick]
  active,     \* the incidents with active = true
  priority,   \* commPriority: [District -> untilTick], 0 when there is none
  waiting,    \* pendingObservationDefs: records [at, obs]
  stage,      \* [Obs -> "unseen", "flying" (inFlight), "lost", "delivered"]
  observed,   \* observedTick
  due,        \* deliveryTick
  lostCount   \* lostObservationCount

(* History: the delay a report was given when it was created, the tick it  *)
(* landed at, delivered or outdated, and where communications were down.   *)
VARIABLES planned, landed, downAt

reportVars == <<stage, observed, due, lostCount, planned, landed>>
vars == <<tick, startTick, active, priority, waiting, reportVars, downAt>>

TypeOK ==
  /\ tick \in 0 .. TotalTicks
  /\ startTick \in [Incident -> Nat \cup {NoTick}]
  /\ active \subseteq Incident
  /\ priority \in [District -> Nat]
  /\ waiting \subseteq [at : Nat, obs : Relative]
  /\ stage \in [Obs -> {"unseen", "flying", "lost", "delivered"}]
  /\ observed \in [Obs -> Nat \cup {NoTick}]
  /\ due \in [Obs -> Nat]
  /\ lostCount \in Nat
  /\ planned \in [Obs -> Nat]
  /\ landed \in [Obs -> Nat \cup {NoTick}]
  /\ downAt \in [1 .. TotalTicks -> SUBSET District]

Init ==
  /\ tick = 0
  /\ startTick = [i \in Incident |-> NoTick]
  /\ active = {}
  /\ priority = [d \in District |-> 0]
  /\ waiting = {}
  /\ stage = [o \in Obs |-> "unseen"]
  /\ observed = [o \in Obs |-> NoTick]
  /\ due = [o \in Obs |-> 0]
  /\ lostCount = 0
  /\ planned = [o \in Obs |-> 0]
  /\ landed = [o \in Obs |-> NoTick]
  /\ downAt = [t \in 1 .. TotalTicks |-> {}]

Place(o) == PlaceOf[IncidentOf[o]]

----------------------------------------------------------------------------
(* PRIORITIZE_COMMUNICATION *)
PrioritizeCommunication(d, ticks) ==
  /\ tick < TotalTicks
  /\ priority' = [priority EXCEPT ![d] = IF @ > tick + ticks THEN @ ELSE tick + ticks]
  /\ UNCHANGED <<tick, startTick, active, waiting, reportVars, downAt>>

(* Math.round(delay * 0.5) *)
Halved(n) == (n + 1) \div 2

(* The delay of a report created at tick now, while communications are     *)
(* down in the districts of down.                                          *)
Delay(o, now, down) ==
  LET degraded == IF Place(o) \in down THEN BaseDelay[o] * DegradedFactor[o] ELSE BaseDelay[o]
  IN  IF priority[Place(o)] > now THEN Halved(degraded) ELSE degraded

(* scheduleObservationsForIncident: the relative reports of the incidents  *)
(* that start now join the waiting ones.                                   *)
Scheduled(now, starting) ==
  waiting \cup {[at |-> now + AtTick[o], obs |-> o] :
                  o \in {p \in Relative : IncidentOf[p] \in starting}}

\* Faulty: a report due in this very tick waits for a later one.
CreatedLate(now, starting, burning) ==
  {o \in Obs \ Relative : AtTick[o] = now /\ IncidentOf[o] \in burning}
    \cup {w.obs : w \in {x \in Scheduled(now, starting) : x.at < now}}

\* Faulty: a report is created in every tick from its own on.
CreatedFrom(now, starting, burning) ==
  {o \in Obs \ Relative : AtTick[o] <= now /\ IncidentOf[o] \in burning}
    \cup {w.obs : w \in {x \in Scheduled(now, starting) : x.at <= now}}

(* The reports created in tick now. *)
Created(now, starting, burning) ==
  {o \in Obs \ Relative : AtTick[o] = now /\ IncidentOf[o] \in burning}
    \cup {w.obs : w \in {x \in Scheduled(now, starting) : x.at <= now}}

\* Faulty: a report that is due slides too.
SlideDue(now, down) == {o \in Obs : stage[o] = "flying" /\ Place(o) \in down}

(* Reports in flight to a district whose communications are down slide by  *)
(* one tick, those due now excepted.                                       *)
Slide(now, down) == {o \in Obs : stage[o] = "flying" /\ due[o] > now /\ Place(o) \in down}

(* staleAfterTicks, for a report created in tick since. *)
Outdated(o, now, since) == StaleAfter[o] # NoTick /\ now - since > StaleAfter[o]

(* In flight after creation. *)
Aloft(o, created, gone) == (o \in created \ gone) \/ stage[o] = "flying"

(* The rest of processObservations, for the reports created now, those of  *)
(* them lost in transmission, and those that slide.                        *)
Transmit(now, created, gone, sliding, down) ==
  LET since == [o \in Obs |-> IF o \in created THEN now ELSE observed[o]]
      plan  == [o \in Obs |-> IF o \in created THEN Delay(o, now, down) ELSE planned[o]]
      to    == [o \in Obs |-> IF o \in created THEN now + Delay(o, now, down)
                              ELSE IF o \in sliding THEN due[o] + 1 ELSE due[o]]
      lands(o) == Aloft(o, created, gone) /\ to[o] <= now
      late(o)  == lands(o) /\ Outdated(o, now, since[o])
  IN  /\ observed' = since
      /\ planned' = plan
      /\ due' = [o \in Obs |-> IF lands(o) /\ ~late(o) THEN now ELSE to[o]]
      /\ stage' = [o \in Obs |-> IF o \in gone \/ late(o) THEN "lost"
                                 ELSE IF lands(o) THEN "delivered"
                                 ELSE IF o \in created THEN "flying" ELSE stage[o]]
      /\ landed' = [o \in Obs |-> IF lands(o) THEN now ELSE landed[o]]
      /\ lostCount' = lostCount + Cardinality(gone) + Cardinality({o \in Obs : late(o)})

(* One tick: the incidents of starting start, those of resolved end, and   *)
(* the reports of gone are lost, while communications are down in down.    *)
Advance(down, starting, resolved, gone) ==
  LET now     == tick + 1
      burning == (active \cup starting) \ resolved
      created == Created(now, starting, burning)
  IN  /\ gone \subseteq created
      /\ tick' = now
      /\ startTick' = [i \in Incident |-> IF i \in starting THEN now ELSE startTick[i]]
      /\ active' = burning
      /\ waiting' = {w \in Scheduled(now, starting) : w.at > now}
      /\ Transmit(now, created, gone, Slide(now, down), down)
      /\ priority' = [d \in District |-> IF priority[d] > now THEN priority[d] ELSE 0]
      /\ downAt' = [downAt EXCEPT ![now] = down]

Step ==
  /\ tick < TotalTicks
  /\ \E down \in SUBSET District, gone \in SUBSET Losable :
     \E starting \in SUBSET {i \in Incident : startTick[i] = NoTick} :
     \E resolved \in SUBSET (active \cup starting) : Advance(down, starting, resolved, gone)

Next ==
  \/ Step
  \/ \E d \in District, n \in Priorities : PrioritizeCommunication(d, n)

Spec == Init /\ [][Next]_vars

----------------------------------------------------------------------------
(* How long a report was held up: the ticks communications were down       *)
(* between its creation and the tick t.                                    *)
HeldUp(o, t) == Cardinality({s \in observed[o] + 1 .. t - 1 : Place(o) \in downAt[s]})

(* A report lands in the very tick its delay and the failures of the       *)
(* channel on its way add up to, and is in flight until then: a failure in *)
(* the tick it is due in no longer holds it up, and none counts twice.     *)
LandsOnTime ==
  \A o \in Obs :
    /\ landed[o] # NoTick => landed[o] = observed[o] + planned[o] + HeldUp(o, landed[o])
    /\ stage[o] = "flying" => observed[o] + planned[o] + HeldUp(o, tick) > tick

(* Every relative report is created in the tick its incident's start and   *)
(* its own offset add up to, even after the incident was resolved, and no  *)
(* absolute one before its incident occurred.                              *)
CreatedOnSchedule ==
  \A o \in Obs :
    LET start == startTick[IncidentOf[o]]
    IN  /\ observed[o] # NoTick => /\ start # NoTick
                                   /\ o \notin Relative => observed[o] = AtTick[o] /\ start <= AtTick[o]
        /\ o \in Relative /\ start # NoTick =>
             IF start + AtTick[o] <= tick THEN observed[o] = start + AtTick[o]
             ELSE observed[o] = NoTick

(* A report that is lost was of a source that loses reports or was late:   *)
(* the others are delivered, or in flight to the end.                      *)
LostForCause ==
  \A o \in Obs : stage[o] = "lost" =>
    \/ o \in Losable /\ landed[o] = NoTick
    \/ landed[o] # NoTick /\ Outdated(o, landed[o], observed[o])

(* The counter of lost reports is their number, whichever way each was     *)
(* lost.                                                                   *)
LostCounted == lostCount = Cardinality({o \in Obs : stage[o] = "lost"})

(* No report is created twice, delivered twice, or delivered after it was  *)
(* lost: what the player bridge takes for granted.                         *)
FateIsFinal ==
  [][\A o \in Obs :
       /\ observed[o] # NoTick => observed'[o] = observed[o] /\ planned'[o] = planned[o]
       /\ stage[o] \in {"lost", "delivered"} => stage'[o] = stage[o] /\ landed'[o] = landed[o]]_vars
----------------------------------------------------------------------------
(***************************************************************************)
(* The inductive invariant of Observations_proofs.                         *)
(***************************************************************************)

(* Incidents start in the past, and only they are active. *)
Chronology ==
  /\ \A i \in Incident : startTick[i] # NoTick => startTick[i] <= tick
  /\ \A i \in active : startTick[i] # NoTick

(* Exactly the relative reports still to come of the incidents that have   *)
(* started are waiting, each at its own tick.                              *)
DueAt(o) == startTick[IncidentOf[o]] + AtTick[o]
ToCome == {o \in Relative : startTick[IncidentOf[o]] # NoTick /\ DueAt(o) > tick}
WaitingToCome == waiting = {[at |-> DueAt(o), obs |-> o] : o \in ToCome}

(* The stage of a report agrees with the ticks recorded of it, and one in  *)
(* flight is due after all the failures it has met.                        *)
OnRecord ==
  \A o \in Obs :
    /\ stage[o] = "unseen" <=> observed[o] = NoTick
    /\ observed[o] # NoTick => observed[o] <= tick
    /\ landed[o] # NoTick => stage[o] \in {"lost", "delivered"} /\ landed[o] <= tick
    /\ stage[o] = "delivered" => landed[o] # NoTick
    /\ stage[o] = "flying" => /\ due[o] > tick
                              /\ due[o] = observed[o] + planned[o] + HeldUp(o, tick + 1)

ObsInv ==
  /\ TypeOK
  /\ Chronology
  /\ WaitingToCome
  /\ OnRecord
  /\ CreatedOnSchedule
  /\ LandsOnTime
  /\ LostForCause
  /\ LostCounted
===============================================================================

-------------------------- MODULE Observations_proofs --------------------------
(***************************************************************************)
(* Proofs about Observations for every scenario, every course of incidents *)
(* and every failure of communications, and about the score of             *)
(* ScoreKeeping, which shares nothing with them but the engine's tick;     *)
(* and, each by itself, about the EventFeed and the search for the least   *)
(* travel time over a RoadNetwork.                                         *)
(*                                                                         *)
(* A tick treats each report by itself: CreatedNow says which are created, *)
(* Moves what becomes of each.  The invariants then follow one by one.     *)
(***************************************************************************)
EXTENDS Observations, ScoreKeeping, EventFeed, RoadNetwork, FiniteSetTheorems, TLAPS

(* The reports created in the next tick, and its choices. *)
NewReports(starting, resolved) == Created(tick + 1, starting, (active \cup starting) \ resolved)

Choice(down, starting, resolved, gone) ==
  /\ tick < TotalTicks
  /\ down \in SUBSET District
  /\ gone \in SUBSET Losable
  /\ starting \in SUBSET {i \in Incident : startTick[i] = NoTick}
  /\ resolved \in SUBSET (active \cup starting)
  /\ Advance(down, starting, resolved, gone)

(* createObservation: the delay of a report is a number of ticks. *)
LEMMA DelayInNat ==
  ASSUME TypeOK, NEW o \in Obs, NEW now \in Nat, NEW down
  PROVE  Delay(o, now, down) \in Nat
<1>1. BaseDelay[o] \in Nat /\ DegradedFactor[o] \in Nat
  BY ChannelAssumption
<1>2. BaseDelay[o] * DegradedFactor[o] \in Nat
  BY <1>1
<1>3. \A n \in Nat : Halved(n) \in Nat
  BY DEF Halved
<1> QED
  BY <1>1, <1>2, <1>3 DEF Delay

(* A scenario starts without reports. *)
LEMMA InitInv == Init => ObsInv
<1> SUFFICES ASSUME Init PROVE ObsInv
  OBVIOUS
<1>1. TypeOK
  BY ChannelAssumption DEF Init, TypeOK
<1>2. Chronology /\ WaitingToCome /\ OnRecord /\ CreatedOnSchedule
  BY ChannelAssumption DEF Init, Chronology, WaitingToCome, ToCome, OnRecord, CreatedOnSchedule
<1>3. LandsOnTime /\ LostForCause
  BY DEF Init, LandsOnTime, LostForCause
<1>4. {o \in Obs : stage[o] = "lost"} = {}
  BY DEF Init
<1>5. LostCounted
  BY <1>4, FS_EmptySet DEF LostCounted, Init
<1> QED
  BY <1>1, <1>2, <1>3, <1>5 DEF ObsInv

----------------------------------------------------------------------------
(* The reports created in a tick are those it is the tick of, and none of  *)
(* them was created before.                                                *)
LEMMA CreatedNow ==
  ASSUME ObsInv, NEW down, NEW starting, NEW resolved, NEW gone,
         Choice(down, starting, resolved, gone)
  PROVE  /\ NewReports(starting, resolved) \subseteq Obs
         /\ \A o \in NewReports(starting, resolved) :
              /\ observed[o] = NoTick
              /\ startTick'[IncidentOf[o]] # NoTick
              /\ o \in Relative => startTick'[IncidentOf[o]] + AtTick[o] = tick + 1
              /\ o \notin Relative => AtTick[o] = tick + 1
         /\ \A o \in Relative :
              startTick'[IncidentOf[o]] # NoTick /\ startTick'[IncidentOf[o]] + AtTick[o] = tick + 1
                => o \in NewReports(starting, resolved)
<1> USE ChannelAssumption
<1>0. tick \in Nat /\ TypeOK
  BY DEF ObsInv, TypeOK
<1>1. \A i \in Incident : startTick'[i] = IF i \in starting THEN tick + 1 ELSE startTick[i]
  BY DEF Choice, Advance
<1>2. \A i \in starting : i \in Incident /\ startTick[i] = NoTick
  BY DEF Choice
<1>3. \A o \in Relative : o \in Obs /\ IncidentOf[o] \in Incident /\ AtTick[o] \in Nat
  OBVIOUS
<1>4. \A o \in NewReports(starting, resolved) :
        \/ o \in Obs \ Relative /\ AtTick[o] = tick + 1 /\ IncidentOf[o] \in active \cup starting
        \/ o \in ToCome /\ DueAt(o) <= tick + 1
        \/ o \in Relative /\ IncidentOf[o] \in starting /\ tick + 1 + AtTick[o] <= tick + 1
  BY DEF NewReports, Created, Scheduled, ObsInv, WaitingToCome
<1>5. ASSUME NEW o \in NewReports(starting, resolved)
      PROVE  /\ o \in Obs
             /\ observed[o] = NoTick
             /\ startTick'[IncidentOf[o]] # NoTick
             /\ o \in Relative => startTick'[IncidentOf[o]] + AtTick[o] = tick + 1
             /\ o \notin Relative => AtTick[o] = tick + 1
  <2>1. CASE o \in Obs \ Relative /\ AtTick[o] = tick + 1 /\ IncidentOf[o] \in active \cup starting
    <3>1. startTick'[IncidentOf[o]] # NoTick
      BY <1>0, <1>1, <1>2, <2>1 DEF ObsInv, Chronology, TypeOK
    <3>2. observed[o] # NoTick => observed[o] = AtTick[o] /\ observed[o] <= tick
      BY <2>1 DEF ObsInv, CreatedOnSchedule, OnRecord
    <3> QED
      BY <1>0, <2>1, <3>1, <3>2
  <2>2. CASE o \in ToCome /\ DueAt(o) <= tick + 1
    <3>1. /\ o \in Relative
          /\ startTick[IncidentOf[o]] # NoTick
          /\ startTick[IncidentOf[o]] + AtTick[o] > tick
          /\ startTick[IncidentOf[o]] + AtTick[o] <= tick + 1
      BY <2>2 DEF ToCome, DueAt
    <3>2. startTick[IncidentOf[o]] \in Nat
      BY <1>0, <1>3, <3>1 DEF TypeOK
    <3>3. startTick[IncidentOf[o]] + AtTick[o] = tick + 1
      BY <1>0, <1>3, <3>1, <3>2
    <3>4. observed[o] = NoTick
      BY <1>0, <1>3, <3>1, <3>3 DEF ObsInv, CreatedOnSchedule
    <3>5. IncidentOf[o] \notin starting
      BY <1>2, <3>1
    <3> QED
      BY <1>1, <1>3, <3>1, <3>3, <3>4, <3>5
  <2>3. CASE o \in Relative /\ IncidentOf[o] \in starting /\ tick + 1 + AtTick[o] <= tick + 1
    <3>1. AtTick[o] = 0
      BY <1>0, <1>3, <2>3
    <3>2. observed[o] = NoTick
      BY <1>2, <1>3, <2>3 DEF ObsInv, CreatedOnSchedule
    <3> QED
      BY <1>0, <1>1, <1>2, <1>3, <2>3, <3>1, <3>2
  <2> QED
    BY <1>4, <2>1, <2>2, <2>3
<1>6. ASSUME NEW o \in Relative, startTick'[IncidentOf[o]] # NoTick,
             startTick'[IncidentOf[o]] + AtTick[o] = tick + 1
      PROVE  o \in NewReports(starting, resolved)
  <2>1. CASE IncidentOf[o] \in starting
    <3>1. tick + 1 + AtTick[o] = tick + 1
      BY <1>1, <1>3, <1>6, <2>1
    <3>2. [at |-> tick + 1 + AtTick[o], obs |-> o] \in Scheduled(tick + 1, starting)
      BY <2>1 DEF Scheduled
    <3> QED
      BY <1>0, <3>1, <3>2 DEF NewReports, Created
  <2>2. CASE IncidentOf[o] \notin starting
    <3>1. o \in ToCome /\ DueAt(o) = tick + 1
      BY <1>0, <1>1, <1>3, <1>6, <2>2 DEF ToCome, DueAt
    <3>2. [at |-> DueAt(o), obs |-> o] \in Scheduled(tick + 1, starting)
      BY <3>1 DEF Scheduled, ObsInv, WaitingToCome
    <3> QED
      BY <1>0, <3>1, <3>2 DEF NewReports, Created
  <2> QED
    BY <2>1, <2>2
<1> QED
  BY <1>5, <1>6

----------------------------------------------------------------------------
(* What becomes of each report in a tick: a new one is lost, lands at once *)
(* or takes off; one in flight lands when it is due, or slides while       *)
(* communications are down; nothing happens to the others.                 *)
NewMove(o, down, gone) ==
  /\ observed'[o] = tick + 1
  /\ planned'[o] = Delay(o, tick + 1, down)
  /\ \/ /\ o \in gone /\ stage'[o] = "lost" /\ landed'[o] = landed[o]
     \/ /\ o \notin gone /\ Delay(o, tick + 1, down) = 0
        /\ landed'[o] = tick + 1
        /\ stage'[o] = IF Outdated(o, tick + 1, tick + 1) THEN "lost" ELSE "delivered"
     \/ /\ o \notin gone /\ Delay(o, tick + 1, down) > 0
        /\ stage'[o] = "flying" /\ landed'[o] = landed[o]
        /\ due'[o] = tick + 1 + Delay(o, tick + 1, down)

FlyingMove(o, down) ==
  /\ observed'[o] = observed[o]
  /\ planned'[o] = planned[o]
  /\ \/ /\ due[o] = tick + 1
        /\ landed'[o] = tick + 1
        /\ stage'[o] = IF Outdated(o, tick + 1, observed[o]) THEN "lost" ELSE "delivered"
     \/ /\ due[o] > tick + 1
        /\ stage'[o] = "flying" /\ landed'[o] = landed[o]
        /\ due'[o] = IF Place(o) \in down THEN due[o] + 1 ELSE due[o]

NoMove(o) ==
  /\ stage'[o] = stage[o] /\ observed'[o] = observed[o]
  /\ planned'[o] = planned[o] /\ landed'[o] = landed[o]

\* What a tick does to each report: it is created, flies on or stays.
LEMMA Moves ==
  ASSUME ObsInv, NEW down, NEW starting, NEW resolved, NEW gone,
         Choice(down, starting, resolved, gone), NEW o \in Obs
  PROVE  /\ o \in NewReports(starting, resolved) =>
              stage[o] = "unseen" /\ NewMove(o, down, gone)
         /\ o \notin NewReports(starting, resolved) /\ stage[o] = "flying" => FlyingMove(o, down)
         /\ o \notin NewReports(starting, resolved) /\ stage[o] # "flying" => NoMove(o)
<1> DEFINE now == tick + 1
           created == NewReports(starting, resolved)
           sliding == Slide(now, down)
<1>0. tick \in Nat /\ TypeOK /\ due[o] \in Nat /\ Delay(o, now, down) \in Nat
  BY DelayInNat DEF ObsInv, TypeOK
<1>1. Transmit(now, created, gone, sliding, down) /\ gone \subseteq created
  BY DEF Choice, Advance, NewReports
<1>2. o \in created => observed[o] = NoTick /\ stage[o] = "unseen"
  BY CreatedNow DEF ObsInv, OnRecord
<1>3. o \in sliding <=> stage[o] = "flying" /\ due[o] > now /\ Place(o) \in down
  BY DEF Slide
<1> HIDE DEF now, created, sliding
<1> DEFINE to == IF o \in created THEN now + Delay(o, now, down)
                 ELSE IF o \in sliding THEN due[o] + 1 ELSE due[o]
           since == IF o \in created THEN now ELSE observed[o]
           lands == Aloft(o, created, gone) /\ to <= now
           late == lands /\ Outdated(o, now, since)
<1>4. /\ observed'[o] = since
      /\ planned'[o] = IF o \in created THEN Delay(o, now, down) ELSE planned[o]
      /\ due'[o] = IF lands /\ ~late THEN now ELSE to
      /\ stage'[o] = IF o \in gone \/ late THEN "lost"
                     ELSE IF lands THEN "delivered"
                     ELSE IF o \in created THEN "flying" ELSE stage[o]
      /\ landed'[o] = IF lands THEN now ELSE landed[o]
  BY <1>1 DEF Transmit
<1>5. now \in Nat /\ now = tick + 1
  BY <1>0 DEF now
<1>6. ASSUME o \in created PROVE stage[o] = "unseen" /\ NewMove(o, down, gone)
  <2>1. stage[o] = "unseen" /\ (lands <=> o \notin gone /\ Delay(o, now, down) = 0)
    BY <1>0, <1>2, <1>5, <1>6 DEF Aloft, now
  <2>2. o \notin gone => Delay(o, now, down) = 0 \/ Delay(o, now, down) > 0
    BY <1>0 DEF now
  <2> QED
    BY <1>4, <1>5, <1>6, <2>1, <2>2 DEF NewMove
<1>7. ASSUME o \notin created, stage[o] = "flying" PROVE FlyingMove(o, down)
  <2>1. due[o] > tick /\ o \notin gone
    BY <1>1, <1>7 DEF ObsInv, OnRecord
  <2>2. lands <=> due[o] = now
    BY <1>0, <1>3, <1>5, <1>7, <2>1 DEF Aloft
  <2>3. due[o] = now \/ due[o] > now
    BY <1>0, <1>5, <2>1
  <2> QED
    BY <1>0, <1>3, <1>4, <1>5, <1>7, <2>1, <2>2, <2>3 DEF FlyingMove
<1>8. ASSUME o \notin created, stage[o] # "flying" PROVE NoMove(o)
  BY <1>1, <1>4, <1>8 DEF NoMove, Aloft
<1> QED
  BY <1>6, <1>7, <1>8 DEF created

----------------------------------------------------------------------------
(* Ticks in which communications failed on the way of a report. *)
Failures(o, t) == {s \in observed[o] + 1 .. t - 1 : Place(o) \in downAt[s]}

(* A number of ticks is a number. *)
LEMMA FailuresFinite ==
  ASSUME TypeOK, NEW o \in Obs, observed[o] # NoTick, NEW t \in Nat
  PROVE  IsFiniteSet(Failures(o, t)) /\ HeldUp(o, t) = Cardinality(Failures(o, t)) /\ HeldUp(o, t) \in Nat
<1>1. observed[o] + 1 \in Int /\ t - 1 \in Int
  BY DEF TypeOK
<1>2. IsFiniteSet(observed[o] + 1 .. t - 1)
  BY <1>1, FS_Interval
<1>3. IsFiniteSet(Failures(o, t))
  BY <1>2, FS_Subset DEF Failures
<1> QED
  BY <1>3, FS_CardinalityType DEF HeldUp, Failures

(* A tick adds itself to the failures met by a report in flight, if        *)
(* communications are down in it, and changes nothing before it.           *)
LEMMA HeldUpByStep ==
  ASSUME ObsInv, NEW down, NEW starting, NEW resolved, NEW gone,
         Choice(down, starting, resolved, gone),
         NEW o \in Obs, observed[o] # NoTick, observed'[o] = observed[o]
  PROVE  /\ \A t \in 0 .. tick + 1 : HeldUp(o, t)' = HeldUp(o, t)
         /\ HeldUp(o, tick + 1)' = HeldUp(o, tick + 1) + IF Place(o) \in down THEN 1 ELSE 0
<1>0. TypeOK /\ tick \in Nat /\ observed[o] \in Nat /\ observed[o] <= tick /\ tick < TotalTicks /\ TotalTicks \in Nat
  BY ChannelAssumption DEF ObsInv, OnRecord, TypeOK, Choice
<1>1. /\ \A s \in 1 .. tick : downAt'[s] = downAt[s]
      /\ downAt'[tick + 1] = down
  BY <1>0 DEF Choice, Advance, TypeOK
<1>2. ASSUME NEW t \in 0 .. tick + 1 PROVE HeldUp(o, t)' = HeldUp(o, t)
  <2>1. \A s \in observed[o] + 1 .. t - 1 : downAt'[s] = downAt[s]
    BY <1>0, <1>1
  <2>2. {s \in observed[o] + 1 .. t - 1 : Place(o) \in downAt'[s]}
          = {s \in observed[o] + 1 .. t - 1 : Place(o) \in downAt[s]}
    BY <2>1
  <2> QED
    BY <2>2 DEF HeldUp, Place
<1>3. HeldUp(o, tick + 1)' = HeldUp(o, tick + 1) + IF Place(o) \in down THEN 1 ELSE 0
  <2> DEFINE F == Failures(o, tick + 1)
             G == {s \in observed[o] + 1 .. tick + 1 : Place(o) \in downAt'[s]}
  <2>1. IsFiniteSet(F) /\ HeldUp(o, tick + 1) = Cardinality(F) /\ HeldUp(o, tick + 1) \in Nat
    BY <1>0, FailuresFinite
  <2>2. HeldUp(o, tick + 1)' = Cardinality(G)
    <3>1. tick' = tick + 1 /\ (tick' + 1) - 1 = tick + 1
      BY <1>0 DEF Choice, Advance
    <3> QED
      BY <3>1 DEF HeldUp, Place
  <2>3. G = IF Place(o) \in down THEN F \cup {tick + 1} ELSE F
    <3>1. \A s : s \in G <=> s \in F \/ (s = tick + 1 /\ Place(o) \in down)
      BY <1>0, <1>1 DEF Failures
    <3> HIDE DEF F, G
    <3> QED
      BY <3>1
  <2>4. tick + 1 \notin F
    BY <1>0 DEF Failures
  <2> HIDE DEF F, G
  <2>5. Cardinality(F \cup {tick + 1}) = Cardinality(F) + 1
    BY <2>1, <2>4, FS_AddElement
  <2>6. CASE Place(o) \in down
    BY <2>1, <2>2, <2>3, <2>5, <2>6
  <2>7. CASE Place(o) \notin down
    BY <2>1, <2>2, <2>3, <2>7
  <2> QED
    BY <2>6, <2>7
<1> QED
  BY <1>2, <1>3

----------------------------------------------------------------------------
(* A tick preserves each part of the invariant. *)

(* Types. *)
LEMMA StepTypes ==
  ASSUME ObsInv, NEW down, NEW starting, NEW resolved, NEW gone,
         Choice(down, starting, resolved, gone)
  PROVE  TypeOK'
<1> DEFINE now == tick + 1
           created == NewReports(starting, resolved)
<1>0. TypeOK /\ tick \in Nat /\ TotalTicks \in Nat /\ tick < TotalTicks /\ now \in 1 .. TotalTicks
  BY ChannelAssumption DEF ObsInv, TypeOK, Choice
<1>1. Transmit(now, created, gone, Slide(now, down), down) /\ gone \subseteq created /\ created \subseteq Obs
  BY CreatedNow DEF Choice, Advance, NewReports
<1>2. \A o \in Obs : Delay(o, now, down) \in Nat
  BY <1>0, DelayInNat
<1>3. tick' \in 0 .. TotalTicks /\ startTick' \in [Incident -> Nat \cup {NoTick}] /\ active' \subseteq Incident
  BY <1>0 DEF TypeOK, Choice, Advance
<1>4. priority' \in [District -> Nat] /\ downAt' \in [1 .. TotalTicks -> SUBSET District]
  BY <1>0 DEF TypeOK, Choice, Advance
<1>5. waiting' \subseteq [at : Nat, obs : Relative]
  <2>1. \A o \in Relative : o \in Obs /\ AtTick[o] \in Nat
    BY ChannelAssumption
  <2>2. Scheduled(now, starting) \subseteq [at : Nat, obs : Relative]
    BY <1>0, <2>1 DEF TypeOK, Scheduled
  <2> QED
    BY <2>2 DEF Choice, Advance
<1> HIDE DEF now, created
<1>6. stage' \in [Obs -> {"unseen", "flying", "lost", "delivered"}]
  BY <1>0, <1>1 DEF TypeOK, Transmit
<1>7. observed' \in [Obs -> Nat \cup {NoTick}] /\ landed' \in [Obs -> Nat \cup {NoTick}]
  BY <1>0, <1>1 DEF TypeOK, Transmit
<1>8. planned' \in [Obs -> Nat] /\ due' \in [Obs -> Nat]
  BY <1>0, <1>1, <1>2 DEF TypeOK, Transmit
<1>9. lostCount' \in Nat
  <2>1. IsFiniteSet(gone)
    BY <1>1, ChannelAssumption, FS_Subset
  <2>2. \A S \in SUBSET Obs : Cardinality(S) \in Nat
    BY ChannelAssumption, FS_Subset, FS_CardinalityType
  <2>3. Cardinality(gone) \in Nat
    BY <1>1, <2>2
  <2>4. PICK S \in SUBSET Obs : lostCount' = lostCount + Cardinality(gone) + Cardinality(S)
    BY <1>1 DEF Transmit
  <2>5. lostCount \in Nat /\ Cardinality(S) \in Nat
    BY <1>0, <2>2 DEF TypeOK
  <2> QED
    BY <2>3, <2>4, <2>5
<1> QED
  BY <1>3, <1>4, <1>5, <1>6, <1>7, <1>8, <1>9 DEF TypeOK

(* The schedule. *)
LEMMA StepSchedule ==
  ASSUME ObsInv, NEW down, NEW starting, NEW resolved, NEW gone,
         Choice(down, starting, resolved, gone)
  PROVE  Chronology' /\ WaitingToCome'
<1> USE ChannelAssumption
<1>0. TypeOK /\ tick \in Nat /\ tick' = tick + 1
  BY DEF ObsInv, TypeOK, Choice, Advance
<1>1. \A i \in Incident : startTick'[i] = IF i \in starting THEN tick + 1 ELSE startTick[i]
  BY DEF Choice, Advance
<1>2. \A i \in starting : i \in Incident /\ startTick[i] = NoTick
  BY DEF Choice
<1>3. \A i \in Incident : startTick[i] # NoTick => startTick[i] \in Nat /\ startTick[i] <= tick
  BY <1>0 DEF ObsInv, TypeOK, Chronology
<1>4. Chronology'
  <2>1. \A i \in Incident : startTick'[i] # NoTick => startTick'[i] <= tick'
    BY <1>0, <1>1, <1>3
  <2>2. \A i \in active' : i \in Incident /\ startTick'[i] # NoTick
    BY <1>0, <1>1, <1>2 DEF Choice, Advance, ObsInv, Chronology, TypeOK
  <2> QED
    BY <2>1, <2>2 DEF Chronology
<1>5. WaitingToCome'
  <2>1. waiting' = {w \in Scheduled(tick + 1, starting) : w.at > tick + 1}
    BY DEF Choice, Advance
  <2>2. \A o \in Relative : o \in Obs /\ IncidentOf[o] \in Incident /\ AtTick[o] \in Nat
    OBVIOUS
  <2>3. \A o \in Relative :
          /\ DueAt(o)' = startTick'[IncidentOf[o]] + AtTick[o]
          /\ o \in ToCome' <=>
               \/ o \in ToCome /\ DueAt(o) > tick + 1 /\ IncidentOf[o] \notin starting
               \/ IncidentOf[o] \in starting /\ tick + 1 + AtTick[o] > tick + 1
    BY <1>0, <1>1, <1>2, <1>3, <2>2 DEF ToCome, DueAt
  <2>4. \A o \in Relative :
          /\ IncidentOf[o] \in starting => o \notin ToCome /\ DueAt(o)' = tick + 1 + AtTick[o]
          /\ IncidentOf[o] \notin starting => DueAt(o)' = DueAt(o)
    BY <1>1, <1>2, <2>2 DEF ToCome, DueAt
  <2>5. Scheduled(tick + 1, starting) =
          {[at |-> DueAt(o), obs |-> o] : o \in ToCome}
            \cup {[at |-> tick + 1 + AtTick[o], obs |-> o] : o \in {p \in Relative : IncidentOf[p] \in starting}}
    BY DEF Scheduled, ObsInv, WaitingToCome
  <2>6. ToCome \subseteq Relative /\ ToCome' \subseteq Relative
    BY DEF ToCome
  <2>7. ASSUME NEW w \in waiting' PROVE w \in {[at |-> DueAt(o)', obs |-> o] : o \in ToCome'}
    <3>1. w \in Scheduled(tick + 1, starting) /\ w.at > tick + 1
      BY <2>1
    <3>2. CASE \E o \in ToCome : w = [at |-> DueAt(o), obs |-> o]
      <4>1. PICK o \in ToCome : w = [at |-> DueAt(o), obs |-> o]
        BY <3>2
      <4>2. w.at = DueAt(o) /\ DueAt(o) > tick + 1
        BY <3>1, <4>1
      <4>3. o \in Relative /\ IncidentOf[o] \notin starting
        BY <2>4, <2>6, <4>1
      <4>4. o \in ToCome' /\ DueAt(o)' = DueAt(o)
        <5>1. startTick'[IncidentOf[o]] = startTick[IncidentOf[o]]
          BY <1>1, <2>2, <4>3
        <5>2. DueAt(o)' = DueAt(o)
          BY <5>1 DEF DueAt
        <5>3. startTick[IncidentOf[o]] # NoTick
          BY <4>1 DEF ToCome
        <5>4. o \in ToCome'
          BY <1>0, <4>2, <4>3, <5>1, <5>3 DEF ToCome, DueAt
        <5> QED
          BY <5>2, <5>4
      <4>5. w = [at |-> DueAt(o)', obs |-> o]
        BY <4>1, <4>4
      <4> QED
        BY <4>4, <4>5
    <3>3. CASE \E o \in Relative : IncidentOf[o] \in starting /\ w = [at |-> tick + 1 + AtTick[o], obs |-> o]
      BY <2>3, <2>4, <3>1, <3>3
    <3> QED
      BY <2>5, <3>1, <3>2, <3>3
  <2>8. ASSUME NEW o \in ToCome' PROVE [at |-> DueAt(o)', obs |-> o] \in waiting'
    <3>1. CASE IncidentOf[o] \in starting
      BY <1>0, <2>1, <2>2, <2>3, <2>4, <2>5, <2>6, <3>1
    <3>2. CASE IncidentOf[o] \notin starting
      BY <2>1, <2>3, <2>4, <2>5, <2>6, <3>2
    <3> QED
      BY <3>1, <3>2
  <2> QED
    BY <2>7, <2>8 DEF WaitingToCome
<1> QED
  BY <1>4, <1>5

(* Each report is created in its tick. *)
LEMMA StepCreated ==
  ASSUME ObsInv, NEW down, NEW starting, NEW resolved, NEW gone,
         Choice(down, starting, resolved, gone)
  PROVE  CreatedOnSchedule'
<1> USE ChannelAssumption
<1>0. TypeOK /\ tick \in Nat /\ tick' = tick + 1
  BY DEF ObsInv, TypeOK, Choice, Advance
<1>1. \A i \in Incident : startTick'[i] = IF i \in starting THEN tick + 1 ELSE startTick[i]
  BY DEF Choice, Advance
<1>2. \A i \in starting : i \in Incident /\ startTick[i] = NoTick
  BY DEF Choice
<1> SUFFICES ASSUME NEW o \in Obs
             PROVE  LET start == startTick'[IncidentOf[o]]
                    IN  /\ observed'[o] # NoTick =>
                             /\ start # NoTick
                             /\ o \notin Relative => observed'[o] = AtTick[o] /\ start <= AtTick[o]
                        /\ o \in Relative /\ start # NoTick =>
                             IF start + AtTick[o] <= tick' THEN observed'[o] = start + AtTick[o]
                             ELSE observed'[o] = NoTick
  BY DEF CreatedOnSchedule
<1> DEFINE i == IncidentOf[o]
<1>3. i \in Incident /\ AtTick[o] \in Nat /\ startTick[i] \in Nat \cup {NoTick} /\ startTick'[i] \in Nat \cup {NoTick}
  BY <1>0, <1>1 DEF TypeOK
<1>4. startTick'[i] # NoTick => startTick'[i] <= tick + 1
  BY <1>0, StepSchedule, <1>3 DEF Chronology
<1>5. startTick[i] # NoTick => startTick'[i] = startTick[i]
  BY <1>1, <1>2, <1>3
<1>6. CASE o \in NewReports(starting, resolved)
  <2>1. observed'[o] = tick + 1
    BY <1>6, Moves DEF NewMove
  <2> QED
    BY <1>0, <1>3, <1>4, <1>6, <2>1, CreatedNow
<1>7. CASE o \notin NewReports(starting, resolved)
  <2>1. observed'[o] = observed[o]
    BY <1>7, Moves DEF FlyingMove, NoMove
  <2>2. observed[o] # NoTick => startTick[i] # NoTick
    BY DEF ObsInv, CreatedOnSchedule
  <2>3. o \in Relative /\ startTick'[i] # NoTick => startTick'[i] + AtTick[o] # tick + 1
    BY <1>7, CreatedNow
  <2>4. o \notin Relative /\ observed[o] # NoTick => observed[o] = AtTick[o] /\ startTick[i] <= AtTick[o]
    BY DEF ObsInv, CreatedOnSchedule
  <2>5. o \in Relative /\ startTick[i] # NoTick =>
          IF startTick[i] + AtTick[o] <= tick THEN observed[o] = startTick[i] + AtTick[o]
          ELSE observed[o] = NoTick
    BY DEF ObsInv, CreatedOnSchedule
  <2>6. CASE startTick[i] = NoTick
    <3>1. observed[o] = NoTick /\ (startTick'[i] # NoTick => startTick'[i] = tick + 1)
      BY <1>1, <1>3, <2>2, <2>6
    <3> QED
      BY <1>0, <1>3, <2>1, <2>3, <3>1
  <2>7. CASE startTick[i] # NoTick
    BY <1>0, <1>3, <1>5, <2>1, <2>3, <2>4, <2>5, <2>7
  <2> QED
    BY <2>6, <2>7
<1> QED
  BY <1>6, <1>7
(* Stages and records agree. *)
LEMMA StepOnRecord ==
  ASSUME ObsInv, NEW down, NEW starting, NEW resolved, NEW gone,
         Choice(down, starting, resolved, gone)
  PROVE  OnRecord'
<1> SUFFICES ASSUME NEW o \in Obs
             PROVE  /\ stage'[o] = "unseen" <=> observed'[o] = NoTick
                    /\ observed'[o] # NoTick => observed'[o] <= tick'
                    /\ landed'[o] # NoTick => stage'[o] \in {"lost", "delivered"} /\ landed'[o] <= tick'
                    /\ stage'[o] = "delivered" => landed'[o] # NoTick
                    /\ stage'[o] = "flying" =>
                         /\ due'[o] > tick'
                         /\ due'[o] = observed'[o] + planned'[o] + HeldUp(o, tick + 1)'
  BY DEF OnRecord
<1>0. /\ tick \in Nat /\ tick' = tick + 1
      /\ observed[o] \in Nat \cup {NoTick} /\ landed[o] \in Nat \cup {NoTick}
      /\ due[o] \in Nat /\ planned[o] \in Nat
  BY DEF ObsInv, TypeOK, Choice, Advance
<1>1. /\ stage[o] = "unseen" <=> observed[o] = NoTick
      /\ observed[o] # NoTick => observed[o] <= tick
      /\ landed[o] # NoTick => stage[o] \in {"lost", "delivered"} /\ landed[o] <= tick
      /\ stage[o] = "delivered" => landed[o] # NoTick
      /\ stage[o] = "flying" => due[o] > tick /\ due[o] = observed[o] + planned[o] + HeldUp(o, tick + 1)
  BY DEF ObsInv, OnRecord
<1>2. tick + 1 # NoTick /\ \A n \in Nat : n # NoTick
  BY <1>0, ChannelAssumption
<1>3. CASE o \in NewReports(starting, resolved)
  <2>1. NewMove(o, down, gone) /\ stage[o] = "unseen"
    BY <1>3, Moves
  <2>2. landed[o] = NoTick
    BY <1>1, <2>1
  <2>3. Delay(o, tick + 1, down) \in Nat
    BY <1>0, DelayInNat DEF ObsInv
  <2>4. observed'[o] = tick + 1 => HeldUp(o, tick + 1)' = 0
    <3>1. SUFFICES ASSUME observed'[o] = tick + 1 PROVE HeldUp(o, tick + 1)' = 0
      OBVIOUS
    <3>2. observed'[o] + 1 .. (tick' + 1) - 1 = {}
      BY <1>0, <3>1
    <3>3. {s \in observed'[o] + 1 .. (tick' + 1) - 1 : Place(o) \in downAt'[s]} = {}
      BY <3>2
    <3> QED
      BY <3>3, FS_EmptySet DEF HeldUp, Place
  <2> QED
    BY <1>0, <1>2, <2>1, <2>2, <2>3, <2>4 DEF NewMove
<1>4. CASE o \notin NewReports(starting, resolved) /\ stage[o] = "flying"
  <2>1. FlyingMove(o, down)
    BY <1>4, Moves
  <2>2. observed[o] # NoTick /\ landed[o] = NoTick
    BY <1>1, <1>4
  <2>3. HeldUp(o, tick + 1)' = HeldUp(o, tick + 1) + IF Place(o) \in down THEN 1 ELSE 0
    BY <2>1, <2>2, HeldUpByStep DEF FlyingMove
  <2>4. HeldUp(o, tick + 1) \in Nat
    BY <1>0, <2>2, FailuresFinite DEF ObsInv
  <2> HIDE DEF HeldUp
  <2>5. CASE due[o] = tick + 1 /\ landed'[o] = tick + 1 /\ stage'[o] \in {"lost", "delivered"}
    BY <1>0, <1>1, <1>2, <1>4, <2>1, <2>2, <2>5 DEF FlyingMove
  <2>6. CASE /\ due[o] > tick + 1 /\ stage'[o] = "flying" /\ landed'[o] = landed[o]
             /\ due'[o] = IF Place(o) \in down THEN due[o] + 1 ELSE due[o]
    <3>1. observed'[o] = observed[o] /\ planned'[o] = planned[o]
      BY <2>1 DEF FlyingMove
    <3>2. due'[o] > tick' /\ due'[o] = observed'[o] + planned'[o] + HeldUp(o, tick + 1)'
      <4>1. CASE Place(o) \in down
        BY <1>0, <1>1, <1>4, <2>2, <2>3, <2>4, <2>6, <3>1, <4>1
      <4>2. CASE Place(o) \notin down
        BY <1>0, <1>1, <1>4, <2>2, <2>3, <2>4, <2>6, <3>1, <4>2
      <4> QED
        BY <4>1, <4>2
    <3> QED
      BY <1>0, <1>1, <1>4, <2>2, <2>6, <3>1, <3>2
  <2> QED
    BY <2>1, <2>5, <2>6 DEF FlyingMove
<1>5. CASE o \notin NewReports(starting, resolved) /\ stage[o] # "flying"
  <2>1. NoMove(o)
    BY <1>5, Moves
  <2> QED
    BY <1>0, <1>1, <1>5, <2>1 DEF NoMove
<1> QED
  BY <1>3, <1>4, <1>5

(* What lands, lands on time. *)
LEMMA StepLands ==
  ASSUME ObsInv, NEW down, NEW starting, NEW resolved, NEW gone,
         Choice(down, starting, resolved, gone)
  PROVE  LandsOnTime'
<1>0. tick \in Nat /\ tick' = tick + 1 /\ TypeOK
  BY DEF ObsInv, TypeOK, Choice, Advance
<1> SUFFICES ASSUME NEW o \in Obs
             PROVE  /\ landed'[o] # NoTick =>
                         landed'[o] = observed'[o] + planned'[o] + HeldUp(o, landed[o])'
                    /\ stage'[o] = "flying" => observed'[o] + planned'[o] + HeldUp(o, tick)' > tick'
  BY DEF LandsOnTime
<1>1. /\ observed[o] \in Nat \cup {NoTick} /\ landed[o] \in Nat \cup {NoTick}
      /\ due[o] \in Nat /\ planned[o] \in Nat /\ NoTick \notin Nat
  BY <1>0, ChannelAssumption DEF TypeOK
<1>2. CASE o \in NewReports(starting, resolved)
  <2>1. NewMove(o, down, gone) /\ stage[o] = "unseen" /\ landed[o] = NoTick
    BY <1>2, Moves DEF ObsInv, OnRecord
  <2>2. \A t \in {tick + 1} : {s \in observed'[o] + 1 .. t - 1 : Place(o) \in downAt'[s]} = {}
    BY <1>0, <2>1 DEF NewMove
  <2>3. HeldUp(o, tick)' = 0 /\ (landed'[o] = tick + 1 => HeldUp(o, landed[o])' = 0)
    BY <1>0, <2>2, FS_EmptySet DEF HeldUp, Place
  <2>4. Delay(o, tick + 1, down) \in Nat
    BY <1>0, DelayInNat
  <2> QED
    BY <1>0, <1>1, <2>1, <2>3, <2>4 DEF NewMove
<1>3. CASE o \notin NewReports(starting, resolved) /\ stage[o] = "flying"
  <2>1. /\ FlyingMove(o, down) /\ observed[o] # NoTick /\ landed[o] = NoTick
        /\ due[o] = observed[o] + planned[o] + HeldUp(o, tick + 1)
    BY <1>3, Moves DEF ObsInv, OnRecord
  <2>2. \A t \in 0 .. tick + 1 : HeldUp(o, t)' = HeldUp(o, t)
    BY <2>1, HeldUpByStep DEF FlyingMove
  <2>3. tick + 1 \in 0 .. tick + 1
    BY <1>0
  <2>4. /\ HeldUp(o, tick)' = HeldUp(o, tick + 1)
        /\ landed'[o] = tick + 1 => HeldUp(o, landed[o])' = HeldUp(o, tick + 1)
    <3>1. \A t \in 0 .. tick + 1 :
            Cardinality({s \in observed'[o] + 1 .. t - 1 : Place(o) \in downAt'[s]}) = HeldUp(o, t)
      BY <2>2 DEF HeldUp, Place
    <3>2. Cardinality({s \in observed'[o] + 1 .. (tick + 1) - 1 : Place(o) \in downAt'[s]}) = HeldUp(o, tick + 1)
      BY <2>3, <3>1
    <3>3. HeldUp(o, tick)' = HeldUp(o, tick + 1)
      BY <1>0, <3>2 DEF HeldUp, Place
    <3>4. ASSUME landed'[o] = tick + 1 PROVE HeldUp(o, landed[o])' = HeldUp(o, tick + 1)
      BY <3>2, <3>4 DEF HeldUp, Place
    <3> QED
      BY <3>3, <3>4
  <2>5. HeldUp(o, tick + 1) \in Nat
    BY <1>0, <2>1, FailuresFinite
  <2> QED
    BY <1>0, <1>1, <2>1, <2>4, <2>5 DEF FlyingMove
<1>4. CASE o \notin NewReports(starting, resolved) /\ stage[o] # "flying"
  <2>1. NoMove(o)
    BY <1>4, Moves
  <2>2. ASSUME landed[o] # NoTick PROVE landed'[o] = observed'[o] + planned'[o] + HeldUp(o, landed[o])'
    <3>1. observed[o] # NoTick /\ landed[o] \in 0 .. tick + 1
      BY <1>0, <1>1, <2>2 DEF ObsInv, OnRecord
    <3>2. \A t \in 0 .. tick + 1 :
            Cardinality({s \in observed'[o] + 1 .. t - 1 : Place(o) \in downAt'[s]}) = HeldUp(o, t)
      BY <2>1, <3>1, HeldUpByStep DEF HeldUp, Place, NoMove
    <3>3. HeldUp(o, landed[o])' = HeldUp(o, landed[o])
      BY <2>1, <3>1, <3>2 DEF HeldUp, Place, NoMove
    <3>4. landed[o] = observed[o] + planned[o] + HeldUp(o, landed[o])
      BY <2>2 DEF ObsInv, LandsOnTime
    <3> QED
      BY <2>1, <3>3, <3>4 DEF NoMove
  <2> QED
    BY <1>4, <2>1, <2>2 DEF NoMove
<1> QED
  BY <1>2, <1>3, <1>4

(* Reports are lost for a cause. *)
LEMMA StepLost ==
  ASSUME ObsInv, NEW down, NEW starting, NEW resolved, NEW gone,
         Choice(down, starting, resolved, gone)
  PROVE  LostForCause'
<1> SUFFICES ASSUME NEW o \in Obs, stage'[o] = "lost"
             PROVE  \/ o \in Losable /\ landed'[o] = NoTick
                    \/ landed'[o] # NoTick /\ Outdated(o, landed'[o], observed'[o])
  BY DEF LostForCause, Outdated
<1>0. tick \in Nat /\ tick + 1 # NoTick /\ gone \subseteq Losable
  BY ChannelAssumption DEF ObsInv, TypeOK, Choice
<1>1. CASE o \in NewReports(starting, resolved)
  <2>1. NewMove(o, down, gone) /\ landed[o] = NoTick
    BY <1>1, Moves DEF ObsInv, OnRecord
  <2> QED
    BY <1>0, <2>1 DEF NewMove
<1>2. CASE o \notin NewReports(starting, resolved) /\ stage[o] = "flying"
  <2>1. FlyingMove(o, down)
    BY <1>2, Moves
  <2> QED
    BY <1>0, <2>1 DEF FlyingMove
<1>3. CASE o \notin NewReports(starting, resolved) /\ stage[o] # "flying"
  <2>1. NoMove(o)
    BY <1>3, Moves
  <2> QED
    BY <2>1 DEF NoMove, ObsInv, LostForCause
<1> QED
  BY <1>1, <1>2, <1>3

(* The counter grows by as many as are lost: those lost in transmission    *)
(* and those that land late are new among the lost, and distinct.          *)
LEMMA StepCounted ==
  ASSUME ObsInv, NEW down, NEW starting, NEW resolved, NEW gone,
         Choice(down, starting, resolved, gone)
  PROVE  LostCounted'
<1> DEFINE now == tick + 1
           created == NewReports(starting, resolved)
           Lost == {o \in Obs : stage[o] = "lost"}
<1>0. TypeOK /\ tick \in Nat /\ lostCount \in Nat /\ lostCount = Cardinality(Lost) /\ IsFiniteSet(Obs)
  BY ChannelAssumption DEF ObsInv, TypeOK, LostCounted
<1>1. Transmit(now, created, gone, Slide(now, down), down) /\ gone \subseteq created /\ created \subseteq Obs
  BY CreatedNow DEF Choice, Advance, NewReports
<1>2. \A o \in created : stage[o] = "unseen"
  BY <1>1, Moves
<1> HIDE DEF now, created
<1>3. PICK late \in SUBSET Obs :
        /\ lostCount' = lostCount + Cardinality(gone) + Cardinality(late)
        /\ \A o \in late : Aloft(o, created, gone)
        /\ \A o \in Obs : stage'[o] = "lost" <=>
             \/ o \in gone
             \/ o \in late
             \/ ~Aloft(o, created, gone) /\ o \notin created /\ stage[o] = "lost"
  <2> DEFINE since == [o \in Obs |-> IF o \in created THEN now ELSE observed[o]]
             to == [o \in Obs |-> IF o \in created THEN now + Delay(o, now, down)
                                  ELSE IF o \in Slide(now, down) THEN due[o] + 1 ELSE due[o]]
             lands(o) == Aloft(o, created, gone) /\ to[o] <= now
             Late(o) == lands(o) /\ Outdated(o, now, since[o])
             late == {o \in Obs : Late(o)}
  <2>1. /\ stage' = [o \in Obs |-> IF o \in gone \/ Late(o) THEN "lost"
                                   ELSE IF lands(o) THEN "delivered"
                                   ELSE IF o \in created THEN "flying" ELSE stage[o]]
        /\ lostCount' = lostCount + Cardinality(gone) + Cardinality(late)
    BY <1>1 DEF Transmit
  <2>2. \A o \in late : Aloft(o, created, gone)
    OBVIOUS
  <2>3. ASSUME NEW o \in Obs
        PROVE  stage'[o] = "lost" <=>
                 \/ o \in gone
                 \/ o \in late
                 \/ ~Aloft(o, created, gone) /\ o \notin created /\ stage[o] = "lost"
    <3>1. stage'[o] = IF o \in gone \/ Late(o) THEN "lost"
                      ELSE IF lands(o) THEN "delivered"
                      ELSE IF o \in created THEN "flying" ELSE stage[o]
      BY <2>1
    <3>2. o \in late <=> Late(o)
      OBVIOUS
    <3>3. lands(o) => Aloft(o, created, gone)
      OBVIOUS
    <3>4. Aloft(o, created, gone) => o \in created \/ stage[o] = "flying"
      BY DEF Aloft
    <3> HIDE DEF Late, lands, late
    <3> QED
      BY <3>1, <3>2, <3>3, <3>4
  <2> HIDE DEF late
  <2>4. late \in SUBSET Obs
    BY DEF late
  <2> QED
    BY <2>1, <2>2, <2>3, <2>4
<1>4. \A o \in Lost : o \notin gone /\ o \notin late /\ o \notin created /\ ~Aloft(o, created, gone)
  BY <1>1, <1>2, <1>3 DEF Aloft
<1>5. {o \in Obs : stage'[o] = "lost"} = (Lost \cup gone) \cup late
  BY <1>1, <1>3, <1>4
<1>6. gone \cap late = {}
  <2>1. \A o \in gone : ~Aloft(o, created, gone)
    BY <1>1, <1>2 DEF Aloft
  <2> QED
    BY <1>3, <2>1
<1>7. Lost \cap gone = {} /\ (Lost \cup gone) \cap late = {}
  BY <1>4, <1>6
<1>8. IsFiniteSet(Lost) /\ IsFiniteSet(gone) /\ IsFiniteSet(late)
  BY <1>0, <1>1, <1>3, FS_Subset
<1> HIDE DEF Lost
<1>9. /\ IsFiniteSet(Lost \cup gone) /\ Cardinality({}) = 0
      /\ Cardinality(Lost \cup gone) = Cardinality(Lost) + Cardinality(gone) - Cardinality({})
      /\ Cardinality((Lost \cup gone) \cup late)
           = Cardinality(Lost \cup gone) + Cardinality(late) - Cardinality({})
  <2>1. /\ IsFiniteSet(Lost \cup gone)
        /\ Cardinality(Lost \cup gone) = Cardinality(Lost) + Cardinality(gone) - Cardinality(Lost \cap gone)
    BY <1>8, FS_Union
  <2>2. Cardinality((Lost \cup gone) \cup late)
          = Cardinality(Lost \cup gone) + Cardinality(late) - Cardinality((Lost \cup gone) \cap late)
    BY <1>8, <2>1, FS_Union
  <2> QED
    BY <1>7, <2>1, <2>2, FS_EmptySet
<1>10. Cardinality(Lost) \in Nat /\ Cardinality(gone) \in Nat /\ Cardinality(late) \in Nat
  BY <1>8, FS_CardinalityType
<1>11. lostCount' = Cardinality((Lost \cup gone) \cup late)
  BY <1>0, <1>3, <1>9, <1>10
<1>12. lostCount' = Cardinality({o \in Obs : stage'[o] = "lost"})
  BY <1>5, <1>11, Zenon
<1> QED
  BY <1>12 DEF LostCounted

(* The action of clients changes nothing but priorities. *)
LEMMA PrioritizeInv ==
  ASSUME ObsInv, NEW d \in District, NEW n \in Priorities, PrioritizeCommunication(d, n)
  PROVE  ObsInv'
<1>1. UNCHANGED <<tick, startTick, active, waiting, stage, observed, due, lostCount, planned, landed, downAt>>
  BY DEF PrioritizeCommunication, reportVars
<1>2. priority' \in [District -> Nat]
  <2>1. tick + n \in Nat /\ priority \in [District -> Nat]
    BY ChannelAssumption DEF ObsInv, TypeOK
  <2> QED
    BY <2>1 DEF PrioritizeCommunication
<1>3. TypeOK'
  BY <1>1, <1>2 DEF ObsInv, TypeOK
<1>4. Chronology' /\ WaitingToCome' /\ OnRecord'
  BY <1>1 DEF ObsInv, Chronology, WaitingToCome, ToCome, DueAt, OnRecord, HeldUp, Place
<1>5. CreatedOnSchedule' /\ LandsOnTime' /\ LostForCause' /\ LostCounted'
  BY <1>1 DEF ObsInv, CreatedOnSchedule, LandsOnTime, LostForCause, LostCounted, HeldUp, Place, Outdated
<1> QED
  BY <1>3, <1>4, <1>5 DEF ObsInv

----------------------------------------------------------------------------
(* What becomes of reports is consistent in every state, whatever the      *)
(* scenario, the incidents, the clients and the state of communications.   *)
THEOREM ObservationInvariant == Spec => []ObsInv
<1>1. Init => ObsInv
  BY InitInv
<1>2. ObsInv /\ [Next]_vars => ObsInv'
  <2> SUFFICES ASSUME ObsInv, [Next]_vars PROVE ObsInv'
    OBVIOUS
  <2>1. CASE Step
    <3>1. PICK down \in SUBSET District, gone \in SUBSET Losable,
               starting \in SUBSET {i \in Incident : startTick[i] = NoTick} :
               \E resolved \in SUBSET (active \cup starting) : Advance(down, starting, resolved, gone)
      BY <2>1 DEF Step
    <3>2. PICK resolved \in SUBSET (active \cup starting) : Choice(down, starting, resolved, gone)
      BY <2>1, <3>1 DEF Choice, Step
    <3> QED
      BY <3>2, StepTypes, StepSchedule, StepCreated, StepOnRecord, StepLands, StepLost, StepCounted DEF ObsInv
  <2>2. CASE \E d \in District, n \in Priorities : PrioritizeCommunication(d, n)
    BY <2>2, PrioritizeInv
  <2>3. CASE UNCHANGED vars
    <3>1. UNCHANGED <<tick, startTick, active, priority, waiting, stage, observed, due, lostCount, planned, landed, downAt>>
      BY <2>3 DEF vars, reportVars
    <3>2. TypeOK' /\ Chronology' /\ WaitingToCome' /\ OnRecord'
      BY <3>1 DEF ObsInv, TypeOK, Chronology, WaitingToCome, ToCome, DueAt, OnRecord, HeldUp, Place
    <3>3. CreatedOnSchedule' /\ LandsOnTime' /\ LostForCause' /\ LostCounted'
      BY <3>1 DEF ObsInv, CreatedOnSchedule, LandsOnTime, LostForCause, LostCounted, HeldUp, Place, Outdated
    <3> QED
      BY <3>2, <3>3 DEF ObsInv
  <2> QED
    BY <2>1, <2>2, <2>3 DEF Next
<1> QED
  BY <1>1, <1>2, PTL DEF Spec

(* Every variable keeps its type. *)
THEOREM TypeCorrect == Spec => []TypeOK
<1>1. ObsInv => TypeOK
  BY DEF ObsInv
<1> QED
  BY <1>1, ObservationInvariant, PTL

(* A report lands in the tick its delay and the failures of communications *)
(* on its way add up to (processObservations).                             *)
THEOREM LandsOnTimeCorrect == Spec => []LandsOnTime
<1>1. ObsInv => LandsOnTime
  BY DEF ObsInv
<1> QED
  BY <1>1, ObservationInvariant, PTL

(* A relative report is created in the tick its incident's start and its   *)
(* offset add up to (scheduleObservationsForIncident).                     *)
THEOREM CreatedOnScheduleCorrect == Spec => []CreatedOnSchedule
<1>1. ObsInv => CreatedOnSchedule
  BY DEF ObsInv
<1> QED
  BY <1>1, ObservationInvariant, PTL

(* What is lost was of a source that loses reports, or late. *)
THEOREM LostForCauseCorrect == Spec => []LostForCause
<1>1. ObsInv => LostForCause
  BY DEF ObsInv
<1> QED
  BY <1>1, ObservationInvariant, PTL

(* lostObservationCount is the number of lost reports. *)
THEOREM LostCountedCorrect == Spec => []LostCounted
<1>1. ObsInv => LostCounted
  BY DEF ObsInv
<1> QED
  BY <1>1, ObservationInvariant, PTL

(* No report is created or delivered twice, nor delivered after it was     *)
(* lost.                                                                   *)
THEOREM FateIsFinalCorrect == Spec => FateIsFinal
<1> DEFINE Final == \A o \in Obs :
             /\ observed[o] # NoTick => observed'[o] = observed[o] /\ planned'[o] = planned[o]
             /\ stage[o] \in {"lost", "delivered"} => stage'[o] = stage[o] /\ landed'[o] = landed[o]
<1>1. ObsInv /\ [Next]_vars => [Final]_vars
  <2> SUFFICES ASSUME ObsInv, Next PROVE Final
    OBVIOUS
  <2>1. CASE Step
    <3>1. PICK down \in SUBSET District, gone \in SUBSET Losable,
               starting \in SUBSET {i \in Incident : startTick[i] = NoTick} :
               \E resolved \in SUBSET (active \cup starting) : Advance(down, starting, resolved, gone)
      BY <2>1 DEF Step
    <3>2. PICK resolved \in SUBSET (active \cup starting) : Choice(down, starting, resolved, gone)
      BY <2>1, <3>1 DEF Choice, Step
    <3>3. \A o \in Obs : stage[o] = "unseen" => observed[o] = NoTick
      BY DEF ObsInv, OnRecord
    <3> QED
      BY <3>2, <3>3, Moves DEF FlyingMove, NoMove
  <2>2. CASE \E d \in District, n \in Priorities : PrioritizeCommunication(d, n)
    BY <2>2 DEF PrioritizeCommunication, reportVars
  <2> QED
    BY <2>1, <2>2 DEF Next
<1> QED
  BY <1>1, ObservationInvariant, PTL DEF Spec, FateIsFinal

----------------------------------------------------------------------------
(***************************************************************************)
(* The score is explained, its rounding does not drift and players see it, *)
(* for all values the categories may take, in any order.                   *)
(***************************************************************************)
ScoreTypes ==
  /\ value \in Points
  /\ accumulated \in Points
  /\ adjustment \in Int /\ total \in Int /\ shown \in Int
  /\ phase \in {"running", "completed"}

(* All that is kept is whole hundredths. *)
Whole(x) == x % 10 = 0
InHundredths ==
  /\ Whole(value.counted)
  /\ Whole(accumulated.risk) /\ Whole(accumulated.infrastructure) /\ Whole(accumulated.counted)
  /\ Whole(adjustment)

(* What players see was computed when the entries were last changed, so    *)
(* only the adjustment can have moved since.                               *)
SeenWithEntries == Within(shown - PointsOf(accumulated), 10)

ScoreInv ==
  /\ ScoreTypes /\ InHundredths /\ SeenWithEntries
  /\ TotalIsExplained /\ RoundingDoesNotDrift /\ PlayersSeeTheTotal

(***************************************************************************)
(* Rounding.                                                               *)
(***************************************************************************)

(* A rounded number is whole and at most half a hundredth away. *)
LEMMA RoundingIsClose ==
  ASSUME NEW x \in Int
  PROVE  /\ Round2(x) \in Int
         /\ Whole(Round2(x))
         /\ Within(x - Round2(x), 5)
BY DEF Round2, Whole, Within

(* Whole numbers are left alone. *)
LEMMA RoundingKeepsWhole ==
  ASSUME NEW x \in Int, Whole(x)
  PROVE  Round2(x) = x
BY DEF Round2, Whole

(* Sums and differences of whole numbers are whole. *)
LEMMA WholeNumbers ==
  ASSUME NEW x \in Int, NEW y \in Int, Whole(x), Whole(y)
  PROVE  Whole(x + y) /\ Whole(x - y)
BY DEF Whole

(* Between a hundredth and a half and a hundredth there is nothing whole.  *)
LEMMA WholeWithin ==
  ASSUME NEW x \in Int, Whole(x), Within(x, 15)
  PROVE  Within(x, 10)
BY DEF Whole, Within

(* A delta that is not pushed is a delta that rounds to nothing: the       *)
(* threshold of 0.009 drops no hundredth.                                  *)
LEMMA DeltaIsRounded ==
  ASSUME NEW v \in Int, NEW acc \in Int
  PROVE  Delta(v, acc) = Round2(v - acc)
<1>1. Round2(v - acc) \in Int /\ Whole(Round2(v - acc))
  BY RoundingIsClose
<1>2. ~Above(Round2(v - acc), 9) => Round2(v - acc) = 0
  BY <1>1 DEF Above, Whole
<1> QED BY <1>2 DEF Delta

(* After its delta is pushed, a category's entries are whole and follow    *)
(* its value to half a hundredth; a whole value they match.                *)
LEMMA CategoryFollows ==
  ASSUME NEW v \in Int, NEW acc \in Int, Whole(acc)
  PROVE  /\ Delta(v, acc) \in Int
         /\ Whole(acc + Delta(v, acc))
         /\ Within(v - (acc + Delta(v, acc)), 5)
         /\ Whole(v) => acc + Delta(v, acc) = v
<1>1. /\ Round2(v - acc) \in Int
      /\ Whole(Round2(v - acc))
      /\ Within((v - acc) - Round2(v - acc), 5)
  BY RoundingIsClose
<1>2. Whole(v) => Round2(v - acc) = v - acc
  BY WholeNumbers, RoundingKeepsWhole
<1>3. Whole(acc + Round2(v - acc))
  BY <1>1, WholeNumbers
<1>4. Delta(v, acc) = Round2(v - acc)
  BY DeltaIsRounded
<1> QED BY <1>1, <1>2, <1>3, <1>4 DEF Within

(* The same for the adjustment: it makes up exactly what the rounded total *)
(* lacks.                                                                  *)
LEMMA DriftIsExact ==
  ASSUME NEW v \in Points, NEW breakdown \in Points, adjustment \in Int,
         Whole(PointsOf(breakdown)), Whole(adjustment)
  PROVE  /\ Drift(v, breakdown) \in Int
         /\ Drift(v, breakdown) = Round2(PointsOf(v)) - (PointsOf(breakdown) + adjustment)
<1> DEFINE rounded == Round2(PointsOf(v))
           entered == PointsOf(breakdown) + adjustment
           lacking == rounded - entered
<1>1. PointsOf(v) \in Int /\ PointsOf(breakdown) \in Int
  BY DEF PointsOf, Points
<1>2. rounded \in Int /\ Whole(rounded)
  BY <1>1, RoundingIsClose
<1>3. entered \in Int /\ Whole(entered)
  BY <1>1 DEF Whole
<1>4. lacking \in Int /\ Whole(lacking)
  <2> HIDE DEF rounded, entered
  <2> QED BY <1>2, <1>3 DEF Whole
<1>5. Round2(lacking) = lacking
  <2> HIDE DEF lacking
  <2> QED BY <1>4, RoundingKeepsWhole
<1>6. ~Above(lacking, 9) => lacking = 0
  <2> HIDE DEF lacking
  <2> QED BY <1>4 DEF Above, Whole
<1> QED BY <1>4, <1>5, <1>6 DEF Drift

(***************************************************************************)
(* The steps.                                                              *)
(***************************************************************************)
LEMMA ScoreInitInv == ScoreInit => ScoreInv
BY DEF ScoreInit, ScoreInv, ScoreTypes, InHundredths, SeenWithEntries, TotalIsExplained,
       RoundingDoesNotDrift, PlayersSeeTheTotal, Points, PointsOf, Round2, Whole, Within

\* A recomputed score keeps the invariant (recomputeScore).
LEMMA RecomputeKeeps ==
  ASSUME ScoreInv, NEW v \in Points, Whole(v.counted), Recompute(v)
  PROVE  ScoreInv'
<1> DEFINE breakdown == Plus(accumulated, Deltas(v))
<1> USE DEF Points
<1>1. /\ value' = v
      /\ accumulated' = breakdown
      /\ adjustment' = adjustment + Drift(v, breakdown)
      /\ total' = Round2(PointsOf(breakdown) + adjustment + Drift(v, breakdown))
      /\ shown' = Shown(Deltas(v), total')
      /\ phase = "running" /\ phase' = "running"
  BY DEF Recompute
<1>2. /\ Deltas(v) \in Points
      /\ breakdown \in Points
      /\ Whole(breakdown.risk) /\ Whole(breakdown.infrastructure) /\ Whole(breakdown.counted)
      /\ Within(v.risk - breakdown.risk, 5)
      /\ Within(v.infrastructure - breakdown.infrastructure, 5)
      /\ v.counted = breakdown.counted
  <2>1. accumulated \in Points /\ Whole(accumulated.risk) /\ Whole(accumulated.infrastructure)
        /\ Whole(accumulated.counted)
    BY DEF ScoreInv, ScoreTypes, InHundredths
  <2>2. /\ Delta(v.risk, accumulated.risk) \in Int
        /\ Whole(accumulated.risk + Delta(v.risk, accumulated.risk))
        /\ Within(v.risk - (accumulated.risk + Delta(v.risk, accumulated.risk)), 5)
    BY <2>1, CategoryFollows
  <2>3. /\ Delta(v.infrastructure, accumulated.infrastructure) \in Int
        /\ Whole(accumulated.infrastructure + Delta(v.infrastructure, accumulated.infrastructure))
        /\ Within(v.infrastructure
                    - (accumulated.infrastructure
                         + Delta(v.infrastructure, accumulated.infrastructure)), 5)
    BY <2>1, CategoryFollows
  <2>4. /\ Delta(v.counted, accumulated.counted) \in Int
        /\ Whole(accumulated.counted + Delta(v.counted, accumulated.counted))
        /\ accumulated.counted + Delta(v.counted, accumulated.counted) = v.counted
    BY <2>1, CategoryFollows
  <2> QED BY <2>1, <2>2, <2>3, <2>4 DEF Deltas, Plus
<1>3. PointsOf(breakdown) \in Int /\ Whole(PointsOf(breakdown))
  <2> HIDE DEF breakdown
  <2> QED BY <1>2 DEF PointsOf, Whole
<1>4. adjustment \in Int /\ Whole(adjustment) /\ Within(adjustment, 10)
  BY DEF ScoreInv, ScoreTypes, InHundredths, RoundingDoesNotDrift
<1>5. /\ Drift(v, breakdown) \in Int
      /\ Drift(v, breakdown) = Round2(PointsOf(v)) - (PointsOf(breakdown) + adjustment)
  BY <1>2, <1>3, <1>4, DriftIsExact
<1>6. /\ PointsOf(v) \in Int /\ Round2(PointsOf(v)) \in Int
      /\ Whole(Round2(PointsOf(v))) /\ Within(PointsOf(v) - Round2(PointsOf(v)), 5)
  <2>1. PointsOf(v) \in Int
    BY DEF PointsOf
  <2> QED BY <2>1, RoundingIsClose
<1>7. total' = Round2(PointsOf(v))
  <2>1. PointsOf(breakdown) + adjustment + Drift(v, breakdown) = Round2(PointsOf(v))
    BY <1>3, <1>4, <1>5, <1>6
  <2> QED BY <1>1, <1>6, <2>1, RoundingKeepsWhole
<1>8. adjustment' = Round2(PointsOf(v)) - PointsOf(breakdown)
  BY <1>1, <1>3, <1>4, <1>5, <1>6
<1>9. Whole(adjustment') /\ adjustment' \in Int
  BY <1>3, <1>6, <1>8 DEF Whole
<1>10. Within(adjustment', 10)
  <2>1. PointsOf(v) - PointsOf(breakdown) = (v.risk - breakdown.risk)
                                    + (v.infrastructure - breakdown.infrastructure)
    BY <1>2 DEF PointsOf
  <2>2. Within(adjustment', 15)
    <3> HIDE DEF breakdown
    <3> QED BY <1>2, <1>3, <1>6, <1>8, <2>1 DEF Within
  <2> QED BY <1>9, <2>2, WholeWithin
<1>11. TotalIsExplained'
  BY <1>1, <1>3, <1>6, <1>7, <1>8 DEF TotalIsExplained
<1>12. RoundingDoesNotDrift'
  BY <1>1, <1>2, <1>10 DEF RoundingDoesNotDrift
<1>13. SeenWithEntries' /\ shown' \in Int
  <2>1. CASE shown' = total'
    BY <1>1, <1>3, <1>6, <1>7, <1>8, <1>10, <2>1 DEF SeenWithEntries, Within
  <2>2. CASE shown' = shown /\ breakdown = accumulated
    BY <1>1, <2>2 DEF ScoreInv, ScoreTypes, SeenWithEntries
  <2>3. Deltas(v) = [risk |-> 0, infrastructure |-> 0, counted |-> 0] => breakdown = accumulated
    BY DEF Plus, ScoreInv, ScoreTypes
  <2> QED BY <1>1, <2>1, <2>2, <2>3 DEF Shown
<1>14. PlayersSeeTheTotal'
  <2>1. total' = PointsOf(breakdown) + adjustment' /\ total' \in Int
    BY <1>3, <1>6, <1>7, <1>8
  <2>2. Within(shown' - PointsOf(breakdown), 10)
    BY <1>1, <1>13 DEF SeenWithEntries
  <2> QED BY <1>1, <1>3, <1>9, <1>10, <1>13, <2>1, <2>2 DEF PlayersSeeTheTotal, Within
<1>15. ScoreTypes' /\ InHundredths'
  BY <1>1, <1>2, <1>6, <1>7, <1>9, <1>13 DEF ScoreTypes, InHundredths
<1> QED BY <1>11, <1>12, <1>13, <1>14, <1>15 DEF ScoreInv

\* The end of the run keeps the invariant.
LEMMA CompleteKeeps == ASSUME ScoreInv, Complete PROVE ScoreInv'
<1>1. /\ value' = value /\ accumulated' = accumulated /\ adjustment' = adjustment
      /\ total' = total /\ shown' = total /\ phase' = "completed"
  BY DEF Complete
<1>2. /\ PointsOf(accumulated) \in Int /\ adjustment \in Int /\ Within(adjustment, 10)
      /\ total = PointsOf(accumulated) + adjustment
  BY DEF ScoreInv, ScoreTypes, Points, PointsOf, TotalIsExplained, RoundingDoesNotDrift
<1>3. SeenWithEntries' /\ PlayersSeeTheTotal'
  BY <1>1, <1>2 DEF SeenWithEntries, PlayersSeeTheTotal, Within
<1>4. ScoreTypes' /\ InHundredths' /\ TotalIsExplained' /\ RoundingDoesNotDrift'
  BY <1>1 DEF ScoreInv, ScoreTypes, InHundredths, TotalIsExplained, RoundingDoesNotDrift
<1> QED BY <1>3, <1>4 DEF ScoreInv

\* So does a step that leaves the score alone.
LEMMA ScoreStutterInv == ASSUME ScoreInv, UNCHANGED scoreVars PROVE ScoreInv'
BY DEF ScoreInv, scoreVars, ScoreTypes, InHundredths, SeenWithEntries, TotalIsExplained,
       RoundingDoesNotDrift, PlayersSeeTheTotal

(* The inductive invariant: what is kept is whole hundredths, each part    *)
(* follows what it stands for (score.ts).                                  *)
THEOREM ScoreInvariant == ScoreSpec => []ScoreInv
<1>1. ScoreInit => ScoreInv
  BY ScoreInitInv
<1>2. ASSUME ScoreInv, [ScoreNext]_scoreVars PROVE ScoreInv'
  <2>1. CASE \E r, i \in Mean, c \in Count :
               Recompute([risk |-> r, infrastructure |-> i, counted |-> c])
    <3>1. PICK r \in Mean, i \in Mean, c \in Count :
            Recompute([risk |-> r, infrastructure |-> i, counted |-> c])
      BY <2>1
    <3>2. [risk |-> r, infrastructure |-> i, counted |-> c] \in Points /\ Whole(c)
      BY ScoreAssumption DEF Points, Whole
    <3> QED BY <1>2, <3>1, <3>2, RecomputeKeeps
  <2>2. CASE Complete
    BY <1>2, <2>2, CompleteKeeps
  <2>3. CASE UNCHANGED scoreVars
    BY <1>2, <2>3, ScoreStutterInv
  <2> QED BY <1>2, <2>1, <2>2, <2>3 DEF ScoreNext
<1> QED BY <1>1, <1>2, PTL DEF ScoreSpec

(* computeScore: the total is the exact score rounded once and the sum of  *)
(* the breakdown; each category's entries follow its value, and the        *)
(* adjustments never add up to more than a hundredth.                      *)
THEOREM ScoreIsExplainedCorrect == ScoreSpec => []ScoreIsExplained
<1>1. ScoreInv => ScoreIsExplained
  BY DEF ScoreInv, ScoreIsExplained
<1> QED BY <1>1, ScoreInvariant, PTL

(* recomputeScore and finalizeRun: players are at most two hundredths off, *)
(* and right at the end.                                                   *)
THEOREM PlayersSeeTheTotalCorrect == ScoreSpec => []PlayersSeeTheTotal
<1>1. ScoreInv => PlayersSeeTheTotal
  BY DEF ScoreInv
<1> QED BY <1>1, ScoreInvariant, PTL

----------------------------------------------------------------------------
(***************************************************************************)
(* The pages that follow a session.  PagesInv relates the log, the batches *)
(* on a socket and what a page has applied; SocketGapless and WatcherWaits *)
(* tell what a page without REST replies may still miss.                   *)
(***************************************************************************)
\* The greater of two numbers is their maximum.
LEMMA MaxOfTwo ==
  ASSUME NEW x \in Int, NEW y \in Int
  PROVE  /\ Max({x, y}) \in Int
         /\ Max({x, y}) >= x /\ Max({x, y}) >= y
         /\ Max({x, y}) = x \/ Max({x, y}) = y
<1> DEFINE m == IF x >= y THEN x ELSE y
<1>1. m \in {x, y} /\ \A e \in {x, y} : m >= e
  OBVIOUS
<1>2. Max({x, y}) \in {x, y} /\ \A e \in {x, y} : Max({x, y}) >= e
  BY <1>1 DEF Max
<1> QED
  BY <1>2

\* A run holds its events in order.
LEMMA RunOrder ==
  ASSUME NEW from \in Int, NEW to \in Int
  PROVE  /\ Run(from, to) \in Seq(Int)
         /\ Len(Run(from, to)) = IF from <= to THEN to - from + 1 ELSE 0
         /\ \A i \in DOMAIN Run(from, to) : Run(from, to)[i] = from + i - 1
         /\ \A s \in Int : Contains(Run(from, to), s) <=> from <= s /\ s <= to
<1>1. /\ Run(from, to) \in Seq(Int)
      /\ Len(Run(from, to)) = IF from <= to THEN to - from + 1 ELSE 0
      /\ \A i \in DOMAIN Run(from, to) : Run(from, to)[i] = from + i - 1
  <2> DEFINE n == IF from <= to THEN to - from + 1 ELSE 0
             run == [i \in 1 .. n |-> from + i - 1]
  <2>1. n \in Nat
    OBVIOUS
  <2>2. 1 .. to - from + 1 = 1 .. n
    OBVIOUS
  <2>3. Run(from, to) = run
    BY <2>2 DEF Run
  <2> HIDE DEF n
  <2>4. run \in Seq(Int) /\ Len(run) = n /\ \A i \in DOMAIN run : run[i] = from + i - 1
    BY <2>1
  <2> HIDE DEF run
  <2> QED
    BY <2>3, <2>4 DEF n
<1>2. ASSUME NEW s \in Int PROVE Contains(Run(from, to), s) <=> from <= s /\ s <= to
  <2>1. from <= s /\ s <= to => s - from + 1 \in 1 .. Len(Run(from, to))
                                /\ Run(from, to)[s - from + 1] = s
    BY <1>1
  <2> QED
    BY <1>1, <2>1 DEF Contains
<1> QED
  BY <1>1, <1>2

\* What a sequence put after another holds where.
LEMMA Concatenation ==
  ASSUME NEW s \in Seq(Int), NEW r \in Seq(Int)
  PROVE  /\ s \o r \in Seq(Int) /\ Len(s \o r) = Len(s) + Len(r)
         /\ DOMAIN (s \o r) = 1 .. Len(s) + Len(r)
         /\ \A i \in 1 .. Len(s) + Len(r) :
              (s \o r)[i] = IF i <= Len(s) THEN s[i] ELSE r[i - Len(s)]
<1>1. s \o r \in Seq(Int) /\ Len(s \o r) = Len(s) + Len(r)
  OBVIOUS
<1>2. DOMAIN (s \o r) = 1 .. Len(s) + Len(r)
  BY <1>1
<1>3. \A i \in 1 .. Len(s) + Len(r) :
        (s \o r)[i] = IF i <= Len(s) THEN s[i] ELSE r[i - Len(s)]
  OBVIOUS
<1> QED
  BY <1>1, <1>2, <1>3

(* A run of events above l, put after events up to l: what the sequence    *)
(* holds then, and that it stays in order.                                 *)
LEMMA RunAppended ==
  ASSUME NEW s \in Seq(Int), NEW l \in Int, NEW f \in Int, NEW t \in Int, l < f,
         \A i \in DOMAIN s : s[i] <= l,
         NEW new, new = s \o Run(f, t)
  PROVE  /\ new \in Seq(Int)
         /\ \A e \in Int : Contains(new, e) <=> Contains(s, e) \/ (f <= e /\ e <= t)
         /\ \A i \in DOMAIN new : new[i] <= l \/ (f <= new[i] /\ new[i] <= t)
         /\ (\A i, j \in DOMAIN s : i < j => s[i] < s[j]) =>
              \A i, j \in DOMAIN new : i < j => new[i] < new[j]
<1> DEFINE run == Run(f, t)
<1> DEFINE n == Len(s)
<1>1. /\ run \in Seq(Int) /\ Len(run) \in Nat
      /\ Len(run) = IF f <= t THEN t - f + 1 ELSE 0
      /\ \A i \in 1 .. Len(run) : run[i] = f + i - 1
      /\ \A e \in Int : Contains(run, e) <=> f <= e /\ e <= t
  <2>1. /\ run \in Seq(Int)
        /\ Len(run) = IF f <= t THEN t - f + 1 ELSE 0
        /\ \A i \in DOMAIN run : run[i] = f + i - 1
        /\ \A e \in Int : Contains(run, e) <=> f <= e /\ e <= t
    BY RunOrder
  <2> HIDE DEF run
  <2>2. Len(run) \in Nat /\ DOMAIN run = 1 .. Len(run)
    BY <2>1
  <2> QED
    BY <2>1, <2>2
<1>2. new = s \o run
  OBVIOUS
<1> HIDE DEF run
<1>3. n \in Nat /\ DOMAIN s = 1 .. n /\ \A i \in 1 .. n : s[i] \in Int /\ s[i] <= l
  OBVIOUS
<1>4. /\ new \in Seq(Int) /\ Len(new) = n + Len(run) /\ DOMAIN new = 1 .. n + Len(run)
      /\ \A i \in 1 .. n + Len(run) : new[i] = IF i <= n THEN s[i] ELSE run[i - n]
  <2>1. s \in Seq(Int) /\ run \in Seq(Int)
    BY <1>1
  <2>2. /\ s \o run \in Seq(Int) /\ Len(s \o run) = n + Len(run)
        /\ DOMAIN (s \o run) = 1 .. n + Len(run)
        /\ \A i \in 1 .. n + Len(run) :
             (s \o run)[i] = IF i <= n THEN s[i] ELSE run[i - n]
    BY <2>1, Concatenation
  <2> QED
    BY <1>2, <2>2, Zenon
<1> HIDE DEF n
<1>5. \A i \in 1 .. n : i \in DOMAIN new /\ new[i] = s[i] /\ new[i] \in Int /\ new[i] <= l
  BY <1>1, <1>3, <1>4
<1>6. \A k \in 1 .. Len(run) :
        /\ n + k \in DOMAIN new /\ new[n + k] = run[k]
        /\ new[n + k] = f + k - 1 /\ f <= new[n + k] /\ new[n + k] <= t
  <2> SUFFICES ASSUME NEW k \in 1 .. Len(run)
               PROVE  /\ n + k \in DOMAIN new /\ new[n + k] = run[k]
                      /\ new[n + k] = f + k - 1 /\ f <= new[n + k] /\ new[n + k] <= t
    OBVIOUS
  <2>1. /\ n + k \in 1 .. n + Len(run) /\ ~ n + k <= n /\ (n + k) - n = k
        /\ k >= 1 /\ k <= t - f + 1 /\ k \in Int
    BY <1>1, <1>3
  <2>2. n + k \in DOMAIN new /\ new[n + k] = run[k]
    BY <1>4, <2>1
  <2>3. run[k] = f + k - 1
    BY <1>1
  <2> QED
    BY <2>1, <2>2, <2>3
<1>7. \A i \in DOMAIN new : i \in 1 .. n \/ \E k \in 1 .. Len(run) : i = n + k
  <2> SUFFICES ASSUME NEW i \in DOMAIN new, i \notin 1 .. n
               PROVE  \E k \in 1 .. Len(run) : i = n + k
    OBVIOUS
  <2>1. i - n \in 1 .. Len(run) /\ i = n + (i - n)
    BY <1>1, <1>3, <1>4
  <2> QED
    BY <2>1
<1>8. ASSUME NEW e \in Int PROVE Contains(new, e) <=> Contains(s, e) \/ Contains(run, e)
  <2>1. Contains(new, e) <=> \E i \in DOMAIN new : new[i] = e
    BY <1>4 DEF Contains
  <2>2. Contains(s, e) <=> \E i \in 1 .. n : s[i] = e
    BY DEF Contains, n
  <2>3. Contains(run, e) <=> \E k \in 1 .. Len(run) : run[k] = e
    BY DEF Contains
  <2>4. (\E i \in DOMAIN new : new[i] = e) <=>
          (\E i \in 1 .. n : s[i] = e) \/ (\E k \in 1 .. Len(run) : run[k] = e)
    <3>1. ASSUME NEW i \in DOMAIN new, new[i] = e
          PROVE  (\E h \in 1 .. n : s[h] = e) \/ (\E k \in 1 .. Len(run) : run[k] = e)
      BY <1>5, <1>6, <1>7, <3>1
    <3>2. (\E i \in 1 .. n : s[i] = e) => \E i \in DOMAIN new : new[i] = e
      BY <1>5
    <3>3. (\E k \in 1 .. Len(run) : run[k] = e) => \E i \in DOMAIN new : new[i] = e
      BY <1>6
    <3> QED
      BY <3>1, <3>2, <3>3
  <2> QED
    BY <2>1, <2>2, <2>3, <2>4
<1>9. \A i \in DOMAIN new : new[i] <= l \/ (f <= new[i] /\ new[i] <= t)
  BY <1>5, <1>6, <1>7
<1>10. ASSUME \A i, j \in DOMAIN s : i < j => s[i] < s[j],
              NEW i \in DOMAIN new, NEW j \in DOMAIN new, i < j
       PROVE  new[i] < new[j]
  <2>1. CASE i \in 1 .. n /\ j \in 1 .. n
    BY <1>3, <1>5, <1>10, <2>1
  <2>2. CASE i \in 1 .. n /\ \E k \in 1 .. Len(run) : j = n + k
    <3>1. PICK k \in 1 .. Len(run) : j = n + k
      BY <2>2
    <3>2. new[i] \in Int /\ new[i] <= l
      BY <1>5, <2>2
    <3>3. new[j] = f + k - 1
      BY <1>6, <3>1
    <3>4. k >= 1 /\ k \in Int
      BY <1>1
    <3> QED
      BY <3>2, <3>3, <3>4
  <2>3. CASE (\E k \in 1 .. Len(run) : i = n + k) /\ (\E k \in 1 .. Len(run) : j = n + k)
    <3>1. PICK k \in 1 .. Len(run) : i = n + k
      BY <2>3
    <3>2. PICK m \in 1 .. Len(run) : j = n + m
      BY <2>3
    <3>3. new[i] = f + k - 1 /\ new[j] = f + m - 1
      BY <1>6, <3>1, <3>2
    <3>4. k \in Int /\ m \in Int /\ n \in Int /\ k < m
      BY <1>1, <1>3, <1>10, <3>1, <3>2
    <3> QED
      BY <3>3, <3>4
  <2>4. CASE (\E k \in 1 .. Len(run) : i = n + k) /\ j \in 1 .. n
    <3>1. PICK k \in 1 .. Len(run) : i = n + k
      BY <2>4
    <3>2. n + k < j /\ j <= n /\ k >= 1 /\ k \in Int /\ n \in Int /\ j \in Int
      BY <1>1, <1>3, <1>10, <2>4, <3>1
    <3> QED
      BY <3>2
  <2> QED
    BY <1>7, <2>1, <2>2, <2>3, <2>4
<1> QED
  BY <1>1, <1>4, <1>8, <1>9, <1>10

(* What applying a published batch does to a page: its last applied event  *)
(* is the later of the two, and the fresh events follow what it had.       *)
LEMMA ApplyShows ==
  ASSUME PagesInv, NEW b \in Browser, NEW batch \in Published, ApplyNew(b, batch)
  PROVE  /\ last' \in [Browser -> Int]
         /\ last'[b] = IF batch.to > last[b] THEN batch.to ELSE last[b]
         /\ \A c \in Browser \ {b} : last'[c] = last[c] /\ applied'[c] = applied[c]
         /\ applied' \in [Browser -> Seq(Int)]
         /\ \A s \in Int : Contains(applied'[b], s) <=>
              \/ Contains(applied[b], s)
              \/ last[b] < s /\ batch.from <= s /\ s <= batch.to
         /\ \A i \in DOMAIN applied'[b] : applied'[b][i] <= last'[b]
         /\ (\A i, j \in DOMAIN applied[b] : i < j => applied[b][i] < applied[b][j]) =>
              \A i, j \in DOMAIN applied'[b] : i < j => applied'[b][i] < applied'[b][j]
<1> DEFINE f == Max({batch.from, last[b] + 1})
           fresh == Run(f, batch.to)
           new == applied'[b]
<1>0. /\ last \in [Browser -> Int] /\ last[b] \in Int
      /\ applied \in [Browser -> Seq(Int)] /\ applied[b] \in Seq(Int)
      /\ batch.from \in Nat /\ batch.to \in Nat /\ batch.from <= batch.to
      /\ \A i \in DOMAIN applied[b] : applied[b][i] <= last[b]
  BY DEF PagesInv, Published
<1>1. f \in Int /\ f >= batch.from /\ f >= last[b] + 1 /\ last[b] < f
      /\ (f = batch.from \/ f = last[b] + 1)
  <2> DEFINE x == batch.from
             y == last[b] + 1
  <2>1. x \in Int /\ y \in Int
    BY <1>0
  <2> HIDE DEF x, y
  <2>2. /\ Max({x, y}) \in Int /\ Max({x, y}) >= x /\ Max({x, y}) >= y
        /\ (Max({x, y}) = x \/ Max({x, y}) = y)
    BY <2>1, MaxOfTwo
  <2>3. /\ f \in Int /\ f >= x /\ f >= y /\ (f = x \/ f = y)
    BY <2>2 DEF x, y
  <2> QED
    BY <1>0, <2>3 DEF x, y
<1> HIDE DEF f
<1>2. /\ fresh \in Seq(Int)
      /\ \A s \in Int : Contains(fresh, s) <=> f <= s /\ s <= batch.to
  <2>1. batch.to \in Int
    BY <1>0
  <2> QED
    BY <1>1, <2>1, RunOrder
<1>3. /\ applied' = [applied EXCEPT ![b] = applied[b] \o fresh]
      /\ last' = [last EXCEPT ![b] = Max({last[b]} \cup Range(fresh))]
  BY DEF ApplyNew, Fresh, f
<1>4. \A s : s \in Range(fresh) <=> s \in Int /\ f <= s /\ s <= batch.to
  <2> SUFFICES ASSUME NEW s
               PROVE  s \in Range(fresh) <=> s \in Int /\ f <= s /\ s <= batch.to
    OBVIOUS
  <2>1. s \in Range(fresh) <=> \E i \in DOMAIN fresh : fresh[i] = s
    BY Zenon DEF Range
  <2> HIDE DEF fresh
  <2>2. DOMAIN fresh = 1 .. Len(fresh) /\ \A i \in 1 .. Len(fresh) : fresh[i] \in Int
    BY <1>2
  <2>3. (\E i \in 1 .. Len(fresh) : fresh[i] = s) <=> Contains(fresh, s)
    BY DEF Contains
  <2>4. Contains(fresh, s) => s \in Int
    BY <2>2, <2>3
  <2> QED
    BY <1>2, <2>1, <2>2, <2>3, <2>4
<1>5. Max({last[b]} \cup Range(fresh)) = IF batch.to > last[b] THEN batch.to ELSE last[b]
  <2> DEFINE all == {last[b]} \cup Range(fresh)
             m == IF batch.to > last[b] THEN batch.to ELSE last[b]
  <2> HIDE DEF fresh
  <2>1. \A s : s \in all <=> s = last[b] \/ (s \in Int /\ f <= s /\ s <= batch.to)
    BY <1>4
  <2> HIDE DEF all
  <2>2. m \in Int /\ m \in all /\ \A s \in all : s \in Int /\ m >= s
    <3>1. batch.to > last[b] => f <= batch.to
      BY <1>0, <1>1
    <3> QED
      BY <1>0, <1>1, <2>1, <3>1
  <2> HIDE DEF m
  <2>3. Max(all) \in all /\ \A s \in all : Max(all) >= s
    BY <2>2 DEF Max
  <2>4. Max(all) \in Int /\ Max(all) >= m /\ m >= Max(all)
    BY <2>2, <2>3
  <2>5. Max(all) = m
    BY <2>2, <2>4
  <2> QED
    BY <2>5 DEF all, m
<1>6. last' \in [Browser -> Int] /\ last'[b] = IF batch.to > last[b] THEN batch.to ELSE last[b]
  <2> DEFINE m == IF batch.to > last[b] THEN batch.to ELSE last[b]
  <2> HIDE DEF fresh
  <2>0. Max({last[b]} \cup Range(fresh)) = m /\ m \in Int
    BY <1>0, <1>5
  <2> HIDE DEF m
  <2>1. last' = [last EXCEPT ![b] = m] /\ m \in Int
    BY <1>3, <2>0
  <2>2. last' \in [Browser -> Int] /\ last'[b] = m
    BY <1>0, <2>1
  <2> QED
    BY <2>2 DEF m
<1>7. new = applied[b] \o fresh /\ applied' \in [Browser -> Seq(Int)]
  <2> HIDE DEF fresh
  <2> QED
    BY <1>0, <1>2, <1>3
<1>8. \A c \in Browser \ {b} : last'[c] = last[c] /\ applied'[c] = applied[c]
  BY <1>0, <1>3
<1> HIDE DEF new
<1>9. /\ \A s \in Int : Contains(new, s) <=> Contains(applied[b], s) \/ (f <= s /\ s <= batch.to)
      /\ \A i \in DOMAIN new : new[i] <= last[b] \/ (f <= new[i] /\ new[i] <= batch.to)
      /\ (\A i, j \in DOMAIN applied[b] : i < j => applied[b][i] < applied[b][j]) =>
           \A i, j \in DOMAIN new : i < j => new[i] < new[j]
      /\ new \in Seq(Int)
  <2> DEFINE s == applied[b]
             l == last[b]
             t == batch.to
  <2>1. /\ s \in Seq(Int) /\ l \in Int /\ f \in Int /\ t \in Int /\ l < f
        /\ \A i \in DOMAIN s : s[i] <= l
        /\ new = s \o Run(f, t)
    BY <1>0, <1>1, <1>7
  <2> HIDE DEF s, l, t
  <2>2. /\ new \in Seq(Int)
        /\ \A e \in Int : Contains(new, e) <=> Contains(s, e) \/ (f <= e /\ e <= t)
        /\ \A i \in DOMAIN new : new[i] <= l \/ (f <= new[i] /\ new[i] <= t)
        /\ (\A i, j \in DOMAIN s : i < j => s[i] < s[j]) =>
             \A i, j \in DOMAIN new : i < j => new[i] < new[j]
    BY <2>1, RunAppended
  <2> QED
    BY <2>2 DEF s, l, t
<1>10. \A s \in Int : Contains(new, s) <=>
         \/ Contains(applied[b], s)
         \/ last[b] < s /\ batch.from <= s /\ s <= batch.to
  <2>1. \A s \in Int : f <= s <=> last[b] < s /\ batch.from <= s
    BY <1>0, <1>1
  <2> QED
    BY <1>9, <2>1
<1>11. \A i \in DOMAIN new : new[i] <= last'[b]
  <2>1. \A i \in DOMAIN new : new[i] \in Int
    BY <1>9
  <2> QED
    BY <1>0, <1>6, <1>9, <2>1
<1> QED
  BY <1>6, <1>7, <1>8, <1>9, <1>10, <1>11 DEF new

----------------------------------------------------------------------------
\* The messages of a handler carry its events, one after the other.
LEMMA MessagesShow ==
  ASSUME log \in Nat, log >= 1, NEW n \in 1 .. MaxBatch, NEW k \in 1 .. n, log' = log + n
  PROVE  /\ Messages(n, k) \in Seq(Published')
         /\ Len(Messages(n, k)) \in 1 .. 2
         /\ Messages(n, k)[1].from = log
         /\ Messages(n, k)[Len(Messages(n, k))].to + 1 = log'
         /\ Len(Messages(n, k)) = 2 => /\ Messages(n, k)[2].from = Messages(n, k)[1].to + 1
                                       /\ Messages(n, k)[2].from \in Nat
         /\ New(n) \in Published'
<1>0. n \in Nat /\ n >= 1 /\ k \in Nat /\ k >= 1 /\ k <= n
  BY FeedAssumption
<1>1. /\ [from |-> log, to |-> log + n - 1] \in Published'
      /\ [from |-> log, to |-> log + k - 1] \in Published'
      /\ k # n => [from |-> log + k, to |-> log + n - 1] \in Published'
  BY <1>0 DEF Published
<1>2. CASE k = n
  <2>1. Messages(n, k) = <<[from |-> log, to |-> log + n - 1]>>
    BY <1>2 DEF Messages, New
  <2> QED
    BY <1>0, <1>1, <2>1 DEF New
<1>3. CASE k # n
  <2> DEFINE b1 == [from |-> log, to |-> log + k - 1]
             b2 == [from |-> log + k, to |-> log + n - 1]
  <2>1. Messages(n, k) = <<b1, b2>>
    BY <1>3 DEF Messages
  <2>2. /\ b1.from = log /\ b1.to + 1 = log + k /\ b2.from = log + k /\ b2.to + 1 = log + n
        /\ b2.from \in Nat
    BY <1>0
  <2>3. b1 \in Published' /\ b2 \in Published'
    BY <1>1, <1>3
  <2> HIDE DEF b1, b2
  <2> QED
    BY <1>1, <2>1, <2>2, <2>3 DEF New
<1> QED
  BY <1>2, <1>3

\* What is published stays published while the log grows.
LEMMA StaysPublished ==
  ASSUME log \in Nat, log' \in Nat, log' >= log
  PROVE  /\ \A b \in Published : b \in Published'
         /\ \A q \in Seq(Published) : q \in Seq(Published')
<1>1. \A b \in Published : b \in Published'
  BY DEF Published
<1> QED
  BY <1>1

\* The events of the log, from its first, are published.
LEMMA SinceStart ==
  ASSUME log \in Nat, log >= 1
  PROVE  Since(0) \in Published /\ Since(0).from = 0 /\ Since(0).to = log - 1
BY DEF Since, Published

\* A broadcast of published messages leaves published batches in every queue.
LEMMA BroadcastTyped ==
  ASSUME PagesInv, log' \in Nat, log' >= log,
         NEW messages \in Seq(Published'), Broadcast(messages)
  PROVE  queue' \in [Browser -> Seq(Published')]
<1>1. \A b \in Browser : queue[b] \in Seq(Published')
  BY StaysPublished DEF PagesInv
<1>2. \A b \in Browser : queue[b] \o messages \in Seq(Published')
  BY <1>1
<1> QED
  BY <1>1, <1>2 DEF Broadcast

(* Every step keeps the types, and of every page that nothing it applied   *)
(* is later than its last event or than the log.                           *)
LEMMA PagesNext ==
  ASSUME PagesInv, [FeedNext]_feedVars
  PROVE  PagesInv'
<1> USE DEF PagesInv
<1>1. ASSUME NEW n \in 1 .. MaxBatch, log' = log + n, \E k \in 1 .. n : Broadcast(Messages(n, k)),
             UNCHANGED <<page, socket, last, applied, drops, joinedAt>>,
             replies' = replies \/ \E b \in Browser :
               replies' = [replies EXCEPT ![b] = @ \cup {New(n)}]
      PROVE  PagesInv'
  <2>0. n \in Nat /\ n >= 1 /\ log' \in Nat /\ log' >= log
    BY <1>1, FeedAssumption
  <2>1. PICK k \in 1 .. n : Broadcast(Messages(n, k))
    BY <1>1
  <2>2. Messages(n, k) \in Seq(Published') /\ New(n) \in Published'
    BY <1>1, MessagesShow
  <2>3. queue' \in [Browser -> Seq(Published')]
    BY <2>0, <2>1, <2>2, BroadcastTyped
  <2>4. replies' \in [Browser -> SUBSET (Published')]
    <3> DEFINE new == New(n)
               pub == Published'
    <3>1. replies \in [Browser -> SUBSET pub]
      <4>1. \A b \in Published : b \in pub
        BY <2>0, StaysPublished
      <4> HIDE DEF pub
      <4> QED
        BY <4>1
    <3>2. new \in pub
      BY <2>2
    <3>3. replies' = replies \/ \E b \in Browser : replies' = [replies EXCEPT ![b] = @ \cup {new}]
      BY <1>1
    <3> HIDE DEF new, pub, PagesInv
    <3>4. replies' \in [Browser -> SUBSET pub]
      BY <3>1, <3>2, <3>3
    <3> QED
      BY <3>4 DEF pub
  <2> QED
    BY <1>1, <2>0, <2>3, <2>4
<1>2. ASSUME NEW b \in Browser, NEW batch \in Published, ApplyNew(b, batch), log' = log
      PROVE  /\ last' \in [Browser -> Int] /\ applied' \in [Browser -> Seq(Int)]
             /\ \A c \in Browser : -1 <= last'[c] /\ last'[c] < log'
             /\ \A c \in Browser : \A i \in DOMAIN applied'[c] : applied'[c][i] <= last'[c]
  <2>1. /\ last' \in [Browser -> Int] /\ applied' \in [Browser -> Seq(Int)]
        /\ last'[b] = IF batch.to > last[b] THEN batch.to ELSE last[b]
        /\ \A c \in Browser \ {b} : last'[c] = last[c] /\ applied'[c] = applied[c]
        /\ \A i \in DOMAIN applied'[b] : applied'[b][i] <= last'[b]
    BY <1>2, ApplyShows
  <2>2. batch.to < log /\ batch.to \in Nat
    BY DEF Published
  <2>3. ASSUME NEW c \in Browser
        PROVE  /\ -1 <= last'[c] /\ last'[c] < log'
               /\ \A i \in DOMAIN applied'[c] : applied'[c][i] <= last'[c]
    <3>1. CASE c = b
      BY <1>2, <2>1, <2>2, <3>1
    <3>2. CASE c # b
      BY <1>2, <2>1, <3>2
    <3> QED
      BY <3>1, <3>2
  <2> QED
    BY <2>1, <2>3
<1>3. log' = log => Published' = Published
  BY DEF Published
<1>4. CASE UNCHANGED feedVars
  BY <1>3, <1>4 DEF feedVars
<1>5. ASSUME NEW n \in 1 .. MaxBatch, Publish(n) PROVE PagesInv'
  BY <1>1, <1>5 DEF Publish
<1>6. ASSUME NEW n \in 1 .. MaxBatch, NEW b \in Browser, Write(b, n) PROVE PagesInv'
  BY <1>1, <1>6 DEF Write
<1>7. ASSUME NEW b \in Browser, Load(b) PROVE PagesInv'
  BY <1>3, <1>7, SinceStart DEF Load
<1>8. ASSUME NEW b \in Browser, Connect(b) PROVE PagesInv'
  BY <1>3, <1>8 DEF Connect
<1>9. ASSUME NEW b \in Browser, Hello(b) PROVE PagesInv'
  <2>1. Append(queue[b], Since(0)) \in Seq(Published)
    BY SinceStart
  <2>2. queue' \in [Browser -> Seq(Published)]
    BY <1>9, <2>1 DEF Hello
  <2> QED
    BY <1>3, <1>9, <2>2 DEF Hello
<1>10. ASSUME NEW b \in Browser, ReceiveSocket(b) PROVE PagesInv'
  <2>1. Head(queue[b]) \in Published /\ Tail(queue[b]) \in Seq(Published)
    BY <1>10 DEF ReceiveSocket
  <2>2. ApplyNew(b, Head(queue[b])) /\ log' = log
    BY <1>10 DEF ReceiveSocket
  <2>3. queue' \in [Browser -> Seq(Published)]
    BY <1>10, <2>1 DEF ReceiveSocket
  <2> QED
    BY <1>2, <1>3, <1>10, <2>1, <2>2, <2>3 DEF ReceiveSocket
<1>11. ASSUME NEW b \in Browser, Disconnect(b) PROVE PagesInv'
  BY <1>3, <1>11 DEF Disconnect
<1>12. ASSUME NEW b \in Browser, NEW batch \in replies[b], ReceiveReply(b, batch)
       PROVE PagesInv'
  <2>1. batch \in Published
    OBVIOUS
  <2>2. ApplyNew(b, batch) /\ log' = log
    BY <1>12 DEF ReceiveReply
  <2> QED
    BY <1>2, <1>3, <1>12, <2>1, <2>2 DEF ReceiveReply
<1>13. ASSUME NEW b \in Browser, NEW batch \in replies[b], LoseReply(b, batch)
       PROVE PagesInv'
  BY <1>3, <1>13 DEF LoseReply
<1> QED
  BY <1>4, <1>5, <1>6, <1>7, <1>8, <1>9, <1>10, <1>11, <1>12, <1>13 DEF FeedNext

\* Every step keeps the events a page applied in order, none of them twice.
LEMMA OrderNext ==
  ASSUME PagesInv, AppliedOnceInOrder, [FeedNext]_feedVars
  PROVE  AppliedOnceInOrder'
<1>1. ASSUME NEW b \in Browser, NEW batch \in Published, ApplyNew(b, batch)
      PROVE  AppliedOnceInOrder'
  <2>1. /\ \A i, j \in DOMAIN applied'[b] : i < j => applied'[b][i] < applied'[b][j]
        /\ \A c \in Browser \ {b} : applied'[c] = applied[c]
    BY <1>1, ApplyShows DEF AppliedOnceInOrder
  <2> QED
    BY <2>1 DEF AppliedOnceInOrder
<1>2. ASSUME NEW b \in Browser, ReceiveSocket(b) PROVE AppliedOnceInOrder'
  <2>1. Head(queue[b]) \in Published
    BY <1>2 DEF ReceiveSocket, PagesInv
  <2> QED
    BY <1>1, <1>2, <2>1 DEF ReceiveSocket
<1>3. ASSUME NEW b \in Browser, NEW batch \in replies[b], ReceiveReply(b, batch)
      PROVE AppliedOnceInOrder'
  <2>1. batch \in Published
    BY DEF PagesInv
  <2> QED
    BY <1>1, <1>3, <2>1 DEF ReceiveReply
<1>4. CASE applied' = applied
  BY <1>4 DEF AppliedOnceInOrder
<1> QED
  BY <1>2, <1>3, <1>4
  DEF FeedNext, feedVars, Publish, Write, Load, Connect, Hello, Disconnect, LoseReply

----------------------------------------------------------------------------
\* What a watching page has, and what it will be given.
Watched(b) ==
  /\ WatcherWaits(b) /\ SocketGapless(b)
  /\ \A s \in joinedAt[b] .. last[b] : Contains(applied[b], s)

\* A step of another page leaves a page's own state alone.
LEMMA OthersKeep ==
  ASSUME NEW b, Watched(b), log' = log,
         page'[b] = page[b], socket'[b] = socket[b], queue'[b] = queue[b],
         replies'[b] = replies[b], last'[b] = last[b], applied'[b] = applied[b],
         joinedAt'[b] = joinedAt[b]
  PROVE  Watched(b)'
BY DEF Watched, WatcherWaits, SocketGapless, Reached

(* A broadcast of the events from the end of the log on closes up with     *)
(* what is already on the socket of a page.                                *)
LEMMA BroadcastKeeps ==
  ASSUME PagesInv, PagesInv', NEW b \in Browser \ Operator, Watched(b),
         NEW n \in 1 .. MaxBatch, NEW k \in 1 .. n, log' = log + n,
         Broadcast(Messages(n, k)), replies'[b] = replies[b],
         UNCHANGED <<page, socket, last, applied, joinedAt>>
  PROVE  Watched(b)'
<1> DEFINE ms == Messages(n, k)
           q == queue[b]
<1>0. /\ log \in Nat /\ log >= 1 /\ q \in Seq(Published) /\ last[b] \in Int /\ joinedAt[b] \in Nat
      /\ log' \in Nat
  BY DEF PagesInv
<1>1. /\ ms \in Seq(Published') /\ Len(ms) \in 1 .. 2 /\ ms[1].from = log
      /\ ms[Len(ms)].to + 1 = log' /\ (Len(ms) = 2 => ms[2].from = ms[1].to + 1 /\ ms[2].from \in Nat)
  BY <1>0, MessagesShow
<1>2. queue' = [c \in Browser |-> IF socket[c] # "down" THEN queue[c] \o ms ELSE queue[c]]
  BY DEF Broadcast
<1> HIDE DEF ms
<1>3. CASE socket[b] = "down"
  <2>1. queue'[b] = <<>> /\ q = <<>>
    BY <1>2, <1>3 DEF Watched, SocketGapless
  <2> QED
    BY <1>3, <2>1 DEF Watched, WatcherWaits, SocketGapless
<1>4. CASE socket[b] # "down"
  <2> DEFINE p == queue'[b]
  <2>0. p = q \o ms
    BY <1>2, <1>4
  <2>1. /\ Len(p) = Len(q) + Len(ms) /\ DOMAIN p = 1 .. Len(q) + Len(ms) /\ DOMAIN q = 1 .. Len(q)
        /\ Len(q) \in Nat
        /\ \A i \in 1 .. Len(q) : p[i] = q[i]
        /\ \A i \in 1 .. Len(ms) : p[Len(q) + i] = ms[i]
    <3>1. q \in Seq(Published')
      BY <1>0, StaysPublished
    <3>2. ms \in Seq(Published')
      BY <1>1
    <3> DEFINE P == Published'
    <3> HIDE DEF P, q
    <3>3. q \in Seq(P) /\ ms \in Seq(P)
      BY <3>1, <3>2 DEF P
    <3> QED
      BY <2>0, <3>3
  <2> HIDE DEF p, q
  <2> DEFINE R(i, s) == \/ s <= joinedAt[b] \/ s <= last[b] + 1
                        \/ \E j \in 1 .. i : s <= p[j].to + 1
  <2>2. /\ \A i \in 1 .. Len(q) : R(i - 1, p[i].from)
        /\ R(Len(q), log)
    <3>1. /\ \A i \in 1 .. Len(q) : Reached(b, i - 1, q[i].from)
          /\ Reached(b, Len(q), log)
      BY <1>4, <2>1 DEF Watched, SocketGapless, q
    <3>2. ASSUME NEW i \in 0 .. Len(q), NEW s, Reached(b, i, s) PROVE R(i, s)
      <4>1. \A j \in 1 .. i : p[j] = q[j]
        BY <2>1
      <4> QED
        BY <3>2, <4>1 DEF Reached, q
    <3> HIDE DEF R
    <3>3. \A i \in 1 .. Len(q) : i - 1 \in 0 .. Len(q) /\ p[i] = q[i]
      BY <2>1
    <3>4. Len(q) \in 0 .. Len(q)
      BY <2>1
    <3> QED
      BY <3>1, <3>2, <3>3, <3>4
  <2>3. R(Len(p), log')
    <3>1. Len(p) \in 1 .. Len(p) /\ p[Len(p)] = ms[Len(ms)]
      BY <1>1, <2>1
    <3>2. log' <= p[Len(p)].to + 1
      BY <1>0, <1>1, <3>1
    <3> QED
      BY <3>1, <3>2
  <2>4. ASSUME NEW i \in 1 .. Len(p) PROVE R(i - 1, p[i].from)
    <3>1. CASE i <= Len(q)
      <4>1. i \in 1 .. Len(q)
        BY <2>1, <3>1
      <4> HIDE DEF R
      <4> QED
        BY <2>2, <4>1
    <3>2. CASE i = Len(q) + 1
      <4>1. p[i].from = log /\ i - 1 = Len(q)
        BY <1>1, <2>1, <3>2
      <4> HIDE DEF R
      <4> QED
        BY <2>2, <4>1
    <3>3. CASE i = Len(q) + 2
      <4>1. Len(ms) = 2 /\ p[i] = ms[2] /\ p[i - 1] = ms[1] /\ i - 1 \in 1 .. i - 1
        <5>1. Len(ms) = 2 /\ 1 \in 1 .. Len(ms) /\ 2 \in 1 .. Len(ms)
              /\ i = Len(q) + 2 /\ i - 1 = Len(q) + 1 /\ i - 1 >= 1
          BY <1>1, <2>1, <3>3
        <5> QED
          BY <2>1, <5>1
      <4>2. p[i].from = p[i - 1].to + 1 /\ p[i].from \in Nat
        BY <1>1, <4>1
      <4> QED
        BY <4>1, <4>2
    <3>4. i <= Len(q) \/ i = Len(q) + 1 \/ i = Len(q) + 2
      BY <1>1, <2>1
    <3> HIDE DEF R
    <3> QED
      BY <3>1, <3>2, <3>3, <3>4
  <2>5. SocketGapless(b)'
    <3>1. \A i \in DOMAIN p : R(i - 1, p[i].from)
      BY <2>1, <2>4
    <3> QED
      BY <1>4, <2>3, <3>1 DEF SocketGapless, Reached, p
  <2> QED
    BY <1>4, <2>5 DEF Watched, WatcherWaits
<1> QED
  BY <1>3, <1>4

\* Applying the next message of the socket leaves no gap.
LEMMA ReceiveKeeps ==
  ASSUME PagesInv, PagesInv', NEW b \in Browser \ Operator, Watched(b), ReceiveSocket(b)
  PROVE  Watched(b)'
<1> DEFINE q == queue[b]
           p == queue'[b]
           h == Head(queue[b])
<1>0. /\ log \in Nat /\ q \in Seq(Published) /\ last[b] \in Int /\ joinedAt[b] \in Nat
      /\ q # <<>> /\ Len(q) \in Nat /\ DOMAIN q = 1 .. Len(q) /\ Len(q) >= 1
      /\ h = q[1] /\ h \in Published
  BY DEF PagesInv, ReceiveSocket
<1>1. /\ p = Tail(q) /\ ApplyNew(b, h) /\ joinedAt' = joinedAt /\ socket' = socket
      /\ page' = page /\ replies' = replies /\ log' = log
  BY DEF ReceiveSocket, PagesInv
<1>2. h.from \in Nat /\ h.to \in Nat /\ h.from <= h.to
  BY <1>0 DEF Published
<1>3. last'[b] \in Int /\ last'[b] >= last[b] /\ last'[b] >= h.to
  BY <1>0, <1>1, <1>2, ApplyShows
<1>4. h.from <= joinedAt[b] \/ h.from <= last[b] + 1
  <2>1. Reached(b, 0, h.from)
    BY <1>0 DEF Watched, SocketGapless
  <2> QED
    BY <2>1 DEF Reached
<1>5. ASSUME NEW s \in joinedAt'[b] .. last'[b] PROVE Contains(applied'[b], s)
  <2>1. s \in Int /\ joinedAt[b] <= s /\ s <= last'[b]
    BY <1>0, <1>1, <1>3
  <2>2. Contains(applied'[b], s) <=> Contains(applied[b], s)
                                     \/ (last[b] < s /\ h.from <= s /\ s <= h.to)
    BY <1>0, <1>1, <2>1, ApplyShows
  <2>3. last'[b] = IF h.to > last[b] THEN h.to ELSE last[b]
    BY <1>0, <1>1, ApplyShows
  <2>4. CASE s <= last[b]
    BY <1>0, <2>1, <2>2, <2>4 DEF Watched
  <2>5. CASE ~ s <= last[b]
    BY <1>0, <1>2, <1>4, <2>1, <2>2, <2>3, <2>5
  <2> QED
    BY <2>4, <2>5
<1> DEFINE R(i, s) == \/ s <= joinedAt[b] \/ s <= last'[b] + 1
                      \/ \E j \in 1 .. i : s <= p[j].to + 1
<1>6. /\ Len(p) = Len(q) - 1 /\ DOMAIN p = 1 .. Len(q) - 1
      /\ \A i \in 1 .. Len(q) - 1 : p[i] = q[i + 1]
  BY <1>0, <1>1
<1> HIDE DEF p, h
<1>7. ASSUME NEW i \in 1 .. Len(q), NEW s \in Int, Reached(b, i, s) PROVE R(i - 1, s)
  <2>1. CASE s <= joinedAt[b] \/ s <= last[b] + 1
    BY <1>0, <1>3, <2>1
  <2>2. CASE \E j \in 1 .. i : s <= q[j].to + 1
    <3>1. PICK j \in 1 .. i : s <= q[j].to + 1
      BY <2>2
    <3>2. CASE j = 1
      BY <1>0, <1>2, <1>3, <3>1, <3>2
    <3>3. CASE j # 1
      <4>1. j - 1 \in 1 .. i - 1 /\ j - 1 \in 1 .. Len(q) - 1 /\ (j - 1) + 1 = j
        BY <1>0, <3>3
      <4>2. p[j - 1] = q[j]
        BY <1>6, <4>1
      <4> QED
        BY <3>1, <4>1, <4>2
    <3> QED
      BY <3>2, <3>3
  <2> QED
    BY <1>7, <2>1, <2>2 DEF Reached
<1>8. socket[b] # "down" /\ Reached(b, Len(q), log) /\ \A i \in 1 .. Len(q) : Reached(b, i - 1, q[i].from)
  BY <1>0 DEF Watched, SocketGapless
<1>9. R(Len(p), log)
  <2>1. Len(q) \in 1 .. Len(q) /\ log \in Int
    BY <1>0
  <2> HIDE DEF R
  <2> QED
    BY <1>6, <1>7, <1>8, <2>1
<1>10. ASSUME NEW i \in 1 .. Len(p) PROVE R(i - 1, p[i].from)
  <2>1. /\ i + 1 \in 1 .. Len(q) /\ i \in 1 .. Len(q) /\ (i + 1) - 1 = i
        /\ p[i] = q[i + 1]
    BY <1>0, <1>6
  <2>2. q[i + 1].from \in Int
    <3>1. q[i + 1] \in Published
      BY <1>0, <2>1
    <3> QED
      BY <3>1 DEF Published
  <2>3. Reached(b, i, q[i + 1].from)
    BY <1>8, <2>1
  <2> HIDE DEF R
  <2> QED
    BY <1>7, <2>1, <2>2, <2>3
<1>11. SocketGapless(b)'
  <2>1. \A i \in DOMAIN p : R(i - 1, p[i].from)
    BY <1>6, <1>10
  <2> QED
    BY <1>1, <1>8, <1>9, <2>1 DEF SocketGapless, Reached, p
<1>12. WatcherWaits(b)'
  <2>1. page[b] \notin {"loading", "requested"}
    BY <1>8 DEF Watched, WatcherWaits
  <2> QED
    BY <1>1, <2>1 DEF Watched, WatcherWaits
<1> QED
  BY <1>5, <1>11, <1>12 DEF Watched

\* The backlog, which follows what is on the socket, leaves no gap.
LEMMA HelloKeeps ==
  ASSUME PagesInv, NEW b \in Browser \ Operator, Watched(b), Hello(b)
  PROVE  Watched(b)'
<1> DEFINE q == queue[b]
           p == queue'[b]
           hello == Since(0)
           R(i, s) == \/ s <= joinedAt[b] \/ s <= last[b] + 1
                      \/ \E j \in 1 .. i : s <= p[j].to + 1
<1>1. /\ socket[b] = "joined" /\ socket'[b] = "greeted" /\ p = Append(q, hello)
      /\ UNCHANGED <<log, page, replies, last, applied, joinedAt>>
      /\ q \in Seq(Published) /\ hello \in Published /\ hello.from = 0
      /\ joinedAt[b] \in Nat /\ log \in Nat
  BY SinceStart DEF Hello, PagesInv
<1>2. /\ Len(p) = Len(q) + 1 /\ DOMAIN p = 1 .. Len(q) + 1 /\ Len(q) \in Nat
      /\ \A i \in 1 .. Len(q) : p[i] = q[i]
      /\ p[Len(q) + 1] = hello /\ DOMAIN q = 1 .. Len(q)
  BY <1>1
<1>3. /\ Reached(b, Len(q), log)
      /\ \A i \in 1 .. Len(q) : Reached(b, i - 1, q[i].from)
  BY <1>1, <1>2 DEF Watched, SocketGapless
<1> HIDE DEF p, hello
<1>4. ASSUME NEW i \in 0 .. Len(q), NEW s, Reached(b, i, s) PROVE R(i, s)
  <2>1. \A j \in 1 .. i : j \in 1 .. Len(q) /\ p[j] = q[j]
    BY <1>2
  <2> QED
    BY <1>4, <2>1 DEF Reached
<1>5. R(Len(p), log)
  <2>1. R(Len(q), log)
    BY <1>2, <1>3, <1>4
  <2>2. \A j \in 1 .. Len(q) : j \in 1 .. Len(p)
    BY <1>2
  <2> QED
    BY <2>1, <2>2
<1>6. ASSUME NEW i \in 1 .. Len(p) PROVE R(i - 1, p[i].from)
  <2>1. CASE i \in 1 .. Len(q)
    <3>1. i - 1 \in 0 .. Len(q) /\ p[i] = q[i]
      BY <1>2, <2>1
    <3> HIDE DEF R
    <3> QED
      BY <1>3, <1>4, <2>1, <3>1
  <2>2. CASE i = Len(q) + 1
    BY <1>1, <1>2, <2>2
  <2> QED
    BY <1>2, <2>1, <2>2
<1>7. SocketGapless(b)'
  <2>1. \A i \in DOMAIN p : R(i - 1, p[i].from)
    BY <1>2, <1>6
  <2> QED
    BY <1>1, <1>5, <2>1 DEF SocketGapless, Reached, p
<1>8. page[b] \notin {"loading", "requested"}
  BY <1>1 DEF Watched, WatcherWaits
<1> QED
  BY <1>1, <1>7, <1>8 DEF Watched, WatcherWaits

\* The backlog reply gives a watching page everything from the first event on.
LEMMA ReplyKeeps ==
  ASSUME PagesInv, NEW b \in Browser \ Operator, Watched(b),
         NEW batch \in Published, ReceiveReply(b, batch)
  PROVE  Watched(b)'
<1>1. /\ page[b] = "requested" /\ batch.from = 0 /\ replies'[b] = {}
      /\ socket[b] = "down" /\ queue[b] = <<>> /\ last[b] = -1 /\ joinedAt[b] = 0
  BY DEF ReceiveReply, Watched, WatcherWaits, SocketGapless, PagesInv
<1>2. page'[b] = "ready" /\ UNCHANGED <<log, socket, queue, joinedAt>>
  BY DEF ReceiveReply, PagesInv
<1>3. ApplyNew(b, batch) /\ batch.to \in Nat
  BY DEF ReceiveReply, Published
<1>4. last'[b] = batch.to
  <2>1. last'[b] = IF batch.to > last[b] THEN batch.to ELSE last[b]
    BY <1>3, ApplyShows
  <2> QED
    BY <1>1, <1>3, <2>1
<1>5. \A s \in Int : Contains(applied'[b], s) <=>
        Contains(applied[b], s) \/ (last[b] < s /\ batch.from <= s /\ s <= batch.to)
  BY <1>3, ApplyShows
<1>6. ASSUME NEW s \in joinedAt'[b] .. last'[b] PROVE Contains(applied'[b], s)
  <2>1. s \in Int /\ last[b] < s /\ batch.from <= s /\ s <= batch.to
    BY <1>1, <1>2, <1>3, <1>4
  <2> QED
    BY <1>5, <2>1
<1> QED
  BY <1>1, <1>2, <1>6 DEF Watched, WatcherWaits, SocketGapless

\* Every step keeps what a watching page has and will be given.
LEMMA WatchedNext ==
  ASSUME PagesInv, PagesInv', NEW b \in Browser \ Operator, Watched(b), [FeedNext]_feedVars
  PROVE  Watched(b)'
<1> USE DEF PagesInv
<1>1. CASE UNCHANGED feedVars
  BY <1>1, OthersKeep DEF feedVars
<1>2. ASSUME NEW n \in 1 .. MaxBatch, Publish(n) PROVE Watched(b)'
  BY <1>2, BroadcastKeeps DEF Publish
<1>3. ASSUME NEW n \in 1 .. MaxBatch, NEW c \in Browser, Write(c, n) PROVE Watched(b)'
  <2>1. c # b /\ replies'[b] = replies[b]
    BY <1>3 DEF Write
  <2> QED
    BY <1>3, <2>1, BroadcastKeeps DEF Write
<1>4. ASSUME NEW c \in Browser, Load(c) PROVE Watched(b)'
  <2>1. CASE c = b
    <3>1. replies[b] = {} /\ replies'[b] = {Since(0)} /\ page'[b] = "requested"
      BY <1>4, <2>1 DEF Load, Watched, WatcherWaits
    <3>2. WatcherWaits(b)'
      BY <1>4, <2>1, <3>1, SinceStart DEF Load, Watched, WatcherWaits
    <3>3. UNCHANGED <<log, socket, queue, last, applied, joinedAt>>
      BY <1>4 DEF Load
    <3> QED
      BY <3>2, <3>3 DEF Watched, SocketGapless, Reached
  <2>2. CASE c # b
    BY <1>4, <2>2, OthersKeep DEF Load
  <2> QED
    BY <2>1, <2>2
<1>5. ASSUME NEW c \in Browser, Connect(c) PROVE Watched(b)'
  <2>1. CASE c = b
    <3>1. /\ page[b] = "ready" /\ page'[b] = "ready" /\ socket'[b] = "joined"
          /\ queue'[b] = <<>> /\ joinedAt'[b] = log /\ log' = log /\ last'[b] = last[b]
          /\ replies'[b] = replies[b]
      BY <1>5, <2>1 DEF Connect, CanConnect, Watched, SocketGapless
    <3>2. WatcherWaits(b)'
      BY <3>1 DEF Watched, WatcherWaits
    <3>3. SocketGapless(b)'
      BY <3>1 DEF SocketGapless, Reached
    <3>4. joinedAt'[b] .. last'[b] = {}
      <4>1. joinedAt'[b] \in Int /\ last'[b] \in Int /\ last'[b] < joinedAt'[b]
        BY <3>1
      <4> HIDE DEF PagesInv
      <4> QED
        BY <4>1
    <3> QED
      BY <3>2, <3>3, <3>4 DEF Watched
  <2>2. CASE c # b
    BY <1>5, <2>2, OthersKeep DEF Connect
  <2> QED
    BY <2>1, <2>2
<1>6. ASSUME NEW c \in Browser, Hello(c) PROVE Watched(b)'
  <2>1. CASE c = b
    BY <1>6, <2>1, HelloKeeps
  <2>2. CASE c # b
    BY <1>6, <2>2, OthersKeep DEF Hello
  <2> QED
    BY <2>1, <2>2
<1>7. ASSUME NEW c \in Browser, ReceiveSocket(c) PROVE Watched(b)'
  <2>1. CASE c = b
    BY <1>7, <2>1, ReceiveKeeps
  <2>2. CASE c # b
    <3>1. Head(queue[c]) \in Published /\ ApplyNew(c, Head(queue[c]))
      BY <1>7 DEF ReceiveSocket
    <3>2. last'[b] = last[b] /\ applied'[b] = applied[b]
      <4>1. \A d \in Browser \ {c} : last'[d] = last[d] /\ applied'[d] = applied[d]
        BY <3>1, ApplyShows
      <4> QED
        BY <2>2, <4>1
    <3> QED
      BY <1>7, <2>2, <3>2, OthersKeep DEF ReceiveSocket
  <2> QED
    BY <2>1, <2>2
<1>8. ASSUME NEW c \in Browser, Disconnect(c) PROVE Watched(b)'
  <2>1. CASE c = b
    <3>1. /\ socket[b] # "down" /\ socket'[b] = "down" /\ queue'[b] = <<>>
          /\ UNCHANGED <<log, page, replies, last, applied, joinedAt>>
      BY <1>8, <2>1 DEF Disconnect
    <3>2. page[b] \notin {"loading", "requested"}
      BY <3>1 DEF Watched, WatcherWaits
    <3> QED
      BY <3>1, <3>2 DEF Watched, WatcherWaits, SocketGapless
  <2>2. CASE c # b
    BY <1>8, <2>2, OthersKeep DEF Disconnect
  <2> QED
    BY <2>1, <2>2
<1>9. ASSUME NEW c \in Browser, NEW batch \in replies[c], ReceiveReply(c, batch)
      PROVE  Watched(b)'
  <2>0. batch \in Published /\ ApplyNew(c, batch)
    BY <1>9 DEF ReceiveReply
  <2>1. CASE c = b
    BY <1>9, <2>0, <2>1, ReplyKeeps
  <2>2. CASE c # b
    <3>1. last'[b] = last[b] /\ applied'[b] = applied[b]
      <4>1. \A d \in Browser \ {c} : last'[d] = last[d] /\ applied'[d] = applied[d]
        BY <2>0, ApplyShows
      <4> QED
        BY <2>2, <4>1
    <3> QED
      BY <1>9, <2>2, <3>1, OthersKeep DEF ReceiveReply
  <2> QED
    BY <2>1, <2>2
<1>10. ASSUME NEW c \in Browser, NEW batch \in replies[c], LoseReply(c, batch)
       PROVE  Watched(b)'
  <2>1. CASE c = b
    <3>1. page[b] = "requested" /\ page'[b] = "failed" /\ replies'[b] = {}
      BY <1>10, <2>1 DEF LoseReply, Watched, WatcherWaits
    <3>2. UNCHANGED <<log, socket, queue, last, applied, joinedAt>>
      BY <1>10 DEF LoseReply
    <3> QED
      BY <3>1, <3>2 DEF Watched, WatcherWaits, SocketGapless, Reached
  <2>2. CASE c # b
    BY <1>10, <2>2, OthersKeep DEF LoseReply
  <2> QED
    BY <2>1, <2>2
<1> QED
  BY <1>1, <1>2, <1>3, <1>4, <1>5, <1>6, <1>7, <1>8, <1>9, <1>10 DEF FeedNext

----------------------------------------------------------------------------
(* The feed's invariant: types, events applied in order, and of a watching *)
(* page that its socket carries every event from its opening on, so that   *)
(* applying the socket's messages one by one leaves no gap.                *)
THEOREM FeedInvariant == FeedSpec => []FeedInv
<1>1. FeedInit => FeedInv
  <2> SUFFICES ASSUME FeedInit PROVE FeedInv
    OBVIOUS
  <2>1. PagesInv
    BY DEF FeedInit, PagesInv
  <2>2. AppliedOnceInOrder
    BY DEF FeedInit, AppliedOnceInOrder
  <2>3. ASSUME NEW b \in Browser PROVE WatcherWaits(b) /\ SocketGapless(b)
    BY DEF FeedInit, WatcherWaits, SocketGapless
  <2>4. WatcherMissesOnlyWhileAway
    <3>1. \A b \in Browser : joinedAt[b] .. last[b] = {}
      BY DEF FeedInit
    <3> QED
      BY <3>1 DEF WatcherMissesOnlyWhileAway
  <2> QED
    BY <2>1, <2>2, <2>3, <2>4 DEF FeedInv
<1>2. FeedInv /\ [FeedNext]_feedVars => FeedInv'
  <2> SUFFICES ASSUME FeedInv, [FeedNext]_feedVars PROVE FeedInv'
    OBVIOUS
  <2>1. PagesInv' /\ AppliedOnceInOrder'
    BY PagesNext, OrderNext DEF FeedInv
  <2>2. ASSUME NEW b \in Browser \ Operator PROVE Watched(b)'
    <3>1. Watched(b)
      BY DEF FeedInv, Watched, WatcherMissesOnlyWhileAway
    <3> QED
      BY <2>1, <3>1, WatchedNext DEF FeedInv
  <2> QED
    BY <2>1, <2>2 DEF FeedInv, Watched, WatcherMissesOnlyWhileAway
<1> QED
  BY <1>1, <1>2, PTL DEF FeedSpec

(* No page applies an event twice or after a later one, however many       *)
(* copies of it the socket and the replies carry (applyNewEvents).         *)
THEOREM PagesApplyInOrder == FeedSpec => []AppliedOnceInOrder
<1>1. FeedInv => AppliedOnceInOrder
  BY DEF FeedInv
<1> QED
  BY <1>1, FeedInvariant, PTL

(* A page that only watches misses nothing published while its socket was  *)
(* up, for any number of pages, events and losses (broadcast, attachWs).   *)
THEOREM WatchersMissNothing == FeedSpec => []WatcherMissesOnlyWhileAway
<1>1. FeedInv => WatcherMissesOnlyWhileAway
  BY DEF FeedInv
<1> QED
  BY <1>1, FeedInvariant, PTL

----------------------------------------------------------------------------
(***************************************************************************)
(* The search for the least travel time.                                   *)
(***************************************************************************)
Looping == INSTANCE FoldLaws WITH Op <- LAMBDA p, s, n : Settle(s, p.to, p.edges)
Timing == INSTANCE FoldLaws WITH Op <- LAMBDA p, t, n : t + Min(StepCosts(p.w[n], p.w[n + 1], p.edges))

(* Roads lead both ways between finitely many places, in some ticks.       *)
IsGraph(edges, P) ==
  /\ IsFiniteSet(P)
  /\ \A e \in edges : e.from \in P /\ e.to \in P /\ e.ticks \in Nat
  /\ \A e \in edges : \E f \in edges : f.from = e.to
Starts(edges) == {e.from : e \in edges}

(* A trip from one place over n places, and the ticks up to each.          *)
Trip(w, t, n, from, d, P, edges) ==
  /\ w \in [1 .. n -> P] /\ w[1] = from /\ w[n] = d
  /\ t \in [1 .. n -> Nat] /\ t[1] = 0
  /\ \A i \in 1 .. n - 1 : /\ StepCosts(w[i], w[i + 1], edges) # {}
                           /\ t[i + 1] = t[i] + Min(StepCosts(w[i], w[i + 1], edges))

(* What is known after any number of passes.                               *)
Explored(s, from, to, edges, P) ==
  /\ s = [visited |-> s.visited, dist |-> s.dist]
  /\ from \in DOMAIN s.dist /\ s.dist[from] = 0
  /\ DOMAIN s.dist \subseteq P /\ DOMAIN s.dist \subseteq Starts(edges) \cup {from}
  /\ \A d \in DOMAIN s.dist : s.dist[d] \in Nat
  /\ s.visited \subseteq DOMAIN s.dist /\ to \notin s.visited
  /\ \A u \in s.visited : \A v \in Frontier(s) : s.dist[u] <= s.dist[v]
  /\ \A e \in edges : e.from \in s.visited =>
       e.to \in DOMAIN s.dist /\ s.dist[e.to] <= s.dist[e.from] + e.ticks
  /\ \A d \in DOMAIN s.dist : \E n \in 1 .. Cardinality(s.visited) + 1 : \E w, t :
       Trip(w, t, n, from, d, P, edges) /\ t[n] = s.dist[d]

Done(s, to) == Frontier(s) = {} \/ Closest(s) = to

(* The least of some numbers. *)
LEMMA MinIsLeast ==
  ASSUME NEW S \in SUBSET Nat, S # {}
  PROVE  Min(S) \in S /\ \A y \in S : Min(S) <= y
<1>1. \E x \in S : \A y \in S : x <= y
  BY Looping!LeastNumber
<1> QED BY <1>1 DEF Min

LEMMA MinIs ==
  ASSUME NEW S \in SUBSET Nat, NEW x \in S, \A y \in S : x <= y
  PROVE  Min(S) = x
<1>1. Min(S) \in S /\ Min(S) <= x
  BY MinIsLeast
<1>2. x <= Min(S) /\ x \in Nat /\ Min(S) \in Nat
  BY <1>1
<1> QED BY <1>1, <1>2

(* The closest place of the frontier. *)
LEMMA ClosestIs ==
  ASSUME NEW s, Frontier(s) # {}, \A d \in DOMAIN s.dist : s.dist[d] \in Nat
  PROVE  Closest(s) \in Frontier(s) /\ \A v \in Frontier(s) : s.dist[Closest(s)] <= s.dist[v]
<1> DEFINE S == {s.dist[v] : v \in Frontier(s)}
<1>1. S \in SUBSET Nat /\ S # {}
  BY DEF Frontier
<1>2. Min(S) \in S /\ \A y \in S : Min(S) <= y
  <2> HIDE DEF S
  <2> QED BY <1>1, MinIsLeast
<1>3. PICK d \in Frontier(s) : Min(S) = s.dist[d]
  BY <1>2
<1>4. \A v \in Frontier(s) : s.dist[d] <= s.dist[v]
  BY <1>2, <1>3
<1> QED BY <1>4 DEF Closest

(* The costs of a step are numbers, and there are some where a road leads. *)
LEMMA CostsAre ==
  ASSUME NEW edges, NEW P, IsGraph(edges, P), NEW d, NEW e
  PROVE  /\ StepCosts(d, e, edges) \in SUBSET Nat
         /\ \A x : x \in StepCosts(d, e, edges) <=>
              \E y \in edges : y.from = d /\ y.to = e /\ y.ticks = x
BY DEF IsGraph, StepCosts

(* What one pass makes of the distance of a place. *)
LEMMA RelaxedIs ==
  ASSUME NEW edges, NEW P, IsGraph(edges, P), NEW s, NEW c \in DOMAIN s.dist,
         \A d \in DOMAIN s.dist : s.dist[d] \in Nat,
         NEW d \in DOMAIN s.dist \cup Neighbours(c, edges)
  PROVE  LET r == Relaxed(s, c, d, edges)
         IN  /\ r \in Nat
             /\ \A x \in StepCosts(c, d, edges) : r <= s.dist[c] + x
             /\ d \in DOMAIN s.dist => r <= s.dist[d]
             /\ \/ d \in DOMAIN s.dist /\ r = s.dist[d]
                \/ StepCosts(c, d, edges) # {} /\ r = s.dist[c] + Min(StepCosts(c, d, edges))
<1> DEFINE C == StepCosts(c, d, edges)
           S == {s.dist[c] + x : x \in C} \cup {s.dist[e] : e \in DOMAIN s.dist \cap {d}}
           b == s.dist[c]
           r == Min(S)
<1>1. C \in SUBSET Nat /\ b \in Nat
  BY CostsAre
<1>2. Relaxed(s, c, d, edges) = r
  BY DEF Relaxed
<1>3. d \in DOMAIN s.dist \/ C # {}
  BY CostsAre DEF Neighbours
<1> HIDE DEF C
<1>4. S \in SUBSET Nat
  <2>1. \A x \in C : b + x \in Nat
    BY <1>1
  <2> HIDE DEF b
  <2> QED BY <2>1 DEF b
<1>5. S # {}
  BY <1>3
<1>6. r \in S /\ \A y \in S : r <= y
  <2> HIDE DEF S
  <2> QED BY <1>4, <1>5, MinIsLeast
<1>7. \A x \in C : r <= b + x
  BY <1>6
<1>8. d \in DOMAIN s.dist => r <= s.dist[d]
  BY <1>6
<1>9. (d \in DOMAIN s.dist /\ r = s.dist[d]) \/ (C # {} /\ r = b + Min(C))
  <2>1. CASE d \in DOMAIN s.dist /\ r = s.dist[d]
    BY <2>1
  <2>2. CASE \E x \in C : r = b + x
    <3>1. PICK x \in C : r = b + x
      BY <2>2
    <3>2. Min(C) \in C /\ Min(C) <= x
      BY <1>1, MinIsLeast
    <3>3. r <= b + Min(C)
      BY <1>7, <3>2
    <3> DEFINE m == Min(C)
    <3> HIDE DEF m, r, b
    <3>4. m \in Nat /\ x \in Nat /\ m <= x /\ b + x <= b + m /\ b \in Nat
      BY <1>1, <3>1, <3>2, <3>3 DEF m
    <3>5. x = m
      BY <3>4
    <3> QED BY <3>1, <3>5 DEF m
  <2> QED BY <1>6, <2>1, <2>2
<1>10. r \in Nat
  BY <1>4, <1>6
<1> HIDE DEF r
<1> QED BY <1>2, <1>7, <1>8, <1>9, <1>10 DEF C

(* One place more on a trip. *)
LEMMA TripOn ==
  ASSUME NEW P, NEW edges, IsGraph(edges, P), NEW n \in Nat, n >= 1, NEW w, NEW t, NEW from, NEW c,
         Trip(w, t, n, from, c, P, edges), NEW d \in P, StepCosts(c, d, edges) # {}
  PROVE  \E v, u : /\ Trip(v, u, n + 1, from, d, P, edges)
                   /\ u[n + 1] = t[n] + Min(StepCosts(c, d, edges))
<1> DEFINE m == Min(StepCosts(c, d, edges))
           k == n + 1
           v == [i \in 1 .. k |-> IF i = k THEN d ELSE w[i]]
           u == [i \in 1 .. k |-> IF i = k THEN t[n] + m ELSE t[i]]
<1>1. m \in Nat
  BY CostsAre, MinIsLeast
<1> HIDE DEF m
<1>2. /\ w \in [1 .. n -> P] /\ w[1] = from /\ w[n] = c
      /\ t \in [1 .. n -> Nat] /\ t[1] = 0
      /\ \A i \in 1 .. n - 1 : /\ StepCosts(w[i], w[i + 1], edges) # {}
                               /\ t[i + 1] = t[i] + Min(StepCosts(w[i], w[i + 1], edges))
  BY DEF Trip
<1>3. /\ n \in 1 .. n /\ 1 \in 1 .. k /\ k \in 1 .. k /\ 1 # k /\ n # k /\ n \in 1 .. k
      /\ \A i \in 1 .. k : i # k => i \in 1 .. n
      /\ \A i \in 1 .. n : i \in 1 .. k /\ i # k
  OBVIOUS
<1> HIDE DEF k
<1>4. v \in [1 .. k -> P] /\ u \in [1 .. k -> Nat]
  <2>1. t[n] + m \in Nat
    BY <1>1, <1>2, <1>3
  <2> QED BY <1>2, <1>3, <2>1
<1>5. v[k] = d /\ u[k] = t[n] + m /\ \A i \in 1 .. n : v[i] = w[i] /\ u[i] = t[i]
  BY <1>3
<1> HIDE DEF v, u
<1>6. v[1] = from /\ u[1] = 0
  <2>1. 1 \in 1 .. n
    OBVIOUS
  <2> QED BY <1>2, <1>5, <2>1
<1>7. ASSUME NEW i \in 1 .. k - 1
      PROVE  /\ StepCosts(v[i], v[i + 1], edges) # {}
             /\ u[i + 1] = u[i] + Min(StepCosts(v[i], v[i + 1], edges))
  <2>1. CASE i = n
    <3>1. i + 1 = k /\ v[i] = c /\ v[i + 1] = d /\ u[i] = t[n] /\ u[i + 1] = t[n] + m
      BY <1>2, <1>3, <1>5, <2>1 DEF k
    <3> QED BY <3>1 DEF m
  <2>2. CASE i # n
    <3>1. i \in 1 .. n - 1 /\ i \in 1 .. n /\ i + 1 \in 1 .. n
      BY <2>2 DEF k
    <3>2. v[i] = w[i] /\ v[i + 1] = w[i + 1] /\ u[i] = t[i] /\ u[i + 1] = t[i + 1]
      BY <1>5, <3>1
    <3> QED BY <1>2, <3>1, <3>2
  <2> QED BY <2>1, <2>2
<1>8. Trip(v, u, k, from, d, P, edges)
  BY <1>4, <1>5, <1>6, <1>7 DEF Trip
<1> QED BY <1>5, <1>8 DEF k, m

(* Before the first pass. *)
LEMMA ExploredStart ==
  ASSUME NEW edges, NEW P, IsGraph(edges, P), NEW from \in P, NEW to
  PROVE  Explored([visited |-> {}, dist |-> [d \in {from} |-> 0]], from, to, edges, P)
<1> DEFINE dist == [d \in {from} |-> 0]
           s == [visited |-> {}, dist |-> dist]
           one == [i \in 1 .. 1 |-> from]
           zero == [i \in 1 .. 1 |-> 0]
<1>1. DOMAIN dist = {from} /\ dist[from] = 0
  OBVIOUS
<1> HIDE DEF dist
<1>2. s.visited = {} /\ s.dist = dist /\ s = [visited |-> s.visited, dist |-> s.dist]
  OBVIOUS
<1>3. Trip(one, zero, 1, from, from, P, edges) /\ zero[1] = 0
  BY DEF Trip
<1>4. Cardinality({}) = 0 /\ 1 \in 1 .. 0 + 1
  BY FS_EmptySet
<1> HIDE DEF one, zero, s
<1>5. ASSUME NEW d \in DOMAIN s.dist
      PROVE  \E n \in 1 .. Cardinality(s.visited) + 1 : \E w, t :
               Trip(w, t, n, from, d, P, edges) /\ t[n] = s.dist[d]
  BY <1>1, <1>2, <1>3, <1>4
<1>6. Explored(s, from, to, edges, P)
  BY <1>1, <1>2, <1>5 DEF Explored
<1> QED BY <1>6 DEF s, dist

(* A pass that does not break off. *)
LEMMA ExploredOn ==
  ASSUME NEW edges, NEW P, IsGraph(edges, P), NEW from \in P, NEW to, NEW s,
         Explored(s, from, to, edges, P), ~Done(s, to)
  PROVE  /\ Explored(Settle(s, to, edges), from, to, edges, P)
         /\ Cardinality(Settle(s, to, edges).visited) = Cardinality(s.visited) + 1
<1> DEFINE c == Closest(s)
           V == s.visited
           D == DOMAIN s.dist
           V2 == V \cup {c}
           D2 == D \cup Neighbours(c, edges)
           dist2 == [d \in D2 |-> Relaxed(s, c, d, edges)]
           s2 == [visited |-> V2, dist |-> dist2]
<1>1. /\ s = [visited |-> s.visited, dist |-> s.dist]
      /\ from \in D /\ s.dist[from] = 0
      /\ D \subseteq P /\ D \subseteq Starts(edges) \cup {from}
      /\ \A d \in D : s.dist[d] \in Nat
      /\ V \subseteq D /\ to \notin V
      /\ \A u \in V : \A v \in D \ V : s.dist[u] <= s.dist[v]
      /\ \A e \in edges : e.from \in V => e.to \in D /\ s.dist[e.to] <= s.dist[e.from] + e.ticks
      /\ \A d \in D : \E n \in 1 .. Cardinality(V) + 1 : \E w, t :
           Trip(w, t, n, from, d, P, edges) /\ t[n] = s.dist[d]
  BY DEF Explored, Frontier
<1>2. Frontier(s) # {} /\ c # to
  BY DEF Done
<1>3. c \in D \ V /\ \A v \in D \ V : s.dist[c] <= s.dist[v]
  BY <1>1, <1>2, ClosestIs DEF Frontier
<1>4. Settle(s, to, edges) = s2
  BY <1>2 DEF Settle
<1> HIDE DEF c
<1>5. s2.visited = V2 /\ s2.dist = dist2 /\ DOMAIN s2.dist = D2
      /\ s2 = [visited |-> s2.visited, dist |-> s2.dist]
  OBVIOUS
<1>6. ASSUME NEW d \in D2
      PROVE  /\ dist2[d] \in Nat
             /\ \A x \in StepCosts(c, d, edges) : dist2[d] <= s.dist[c] + x
             /\ d \in D => dist2[d] <= s.dist[d]
             /\ \/ d \in D /\ dist2[d] = s.dist[d]
                \/ /\ StepCosts(c, d, edges) # {}
                   /\ dist2[d] = s.dist[c] + Min(StepCosts(c, d, edges))
  <2> DEFINE r == Relaxed(s, c, d, edges)
  <2>1. dist2[d] = r
    OBVIOUS
  <2>2. /\ r \in Nat
        /\ \A x \in StepCosts(c, d, edges) : r <= s.dist[c] + x
        /\ d \in D => r <= s.dist[d]
        /\ \/ d \in D /\ r = s.dist[d]
           \/ StepCosts(c, d, edges) # {} /\ r = s.dist[c] + Min(StepCosts(c, d, edges))
    BY <1>1, <1>3, RelaxedIs
  <2> HIDE DEF r, dist2
  <2> QED BY <2>1, <2>2
<1>7. \A d : StepCosts(c, d, edges) # {} => Min(StepCosts(c, d, edges)) \in Nat
  BY CostsAre, MinIsLeast
<1> HIDE DEF dist2, s2
\* Nothing settled changes, and nothing becomes closer than the place settled now.
<1>8. ASSUME NEW d \in D2
      PROVE  /\ d \in V2 => dist2[d] = s.dist[d]
             /\ d \notin V2 => dist2[d] >= s.dist[c]
  <2> DEFINE m == Min(StepCosts(c, d, edges))
             b == s.dist[c]
             a == s.dist[d]
             r == dist2[d]
  <2>1. b \in Nat /\ r \in Nat /\ (d \in D => a \in Nat /\ r <= a)
        /\ ((r = a /\ d \in D) \/ (m \in Nat /\ r = b + m))
    BY <1>1, <1>3, <1>6, <1>7
  <2>2. d \in V2 => d \in D /\ a <= b
    <3>1. CASE d = c
      BY <1>3, <2>1, <3>1
    <3>2. CASE d \in V
      BY <1>1, <1>3, <3>2
    <3> QED BY <3>1, <3>2
  <2>3. d \in D /\ d \notin V2 => a >= b
    BY <1>1, <1>3, <2>1
  <2> HIDE DEF m, b, a, r
  <2>4. d \in V2 => r = a
    BY <2>1, <2>2
  <2>5. d \notin V2 => r >= b
    BY <2>1, <2>3
  <2> QED BY <2>4, <2>5 DEF r, a, b
<1>9. from \in D2 /\ dist2[from] = 0
  <2>1. from \in D2 /\ dist2[from] \in Nat /\ dist2[from] <= 0
    BY <1>1, <1>6
  <2> QED BY <2>1
<1>10. D2 \subseteq P /\ D2 \subseteq Starts(edges) \cup {from}
  <2>1. ASSUME NEW d \in Neighbours(c, edges) PROVE d \in P /\ d \in Starts(edges)
    BY <2>1 DEF Neighbours, Starts, IsGraph
  <2> QED BY <1>1, <2>1
<1>11. V2 \subseteq D2 /\ to \notin V2
  BY <1>1, <1>2, <1>3
<1>12. ASSUME NEW u \in V2, NEW v \in D2 \ V2 PROVE dist2[u] <= dist2[v]
  <2>1. dist2[u] = s.dist[u] /\ dist2[v] >= s.dist[c] /\ u \in D
    BY <1>1, <1>3, <1>8, <1>11
  <2>2. s.dist[u] <= s.dist[c]
    BY <1>1, <1>3
  <2>3. s.dist[u] \in Nat /\ s.dist[c] \in Nat /\ dist2[v] \in Nat
    BY <1>1, <1>3, <1>6, <2>1
  <2> QED BY <2>1, <2>2, <2>3
<1>13. ASSUME NEW e \in edges, e.from \in V2
       PROVE  e.to \in D2 /\ dist2[e.to] <= dist2[e.from] + e.ticks
  <2>1. dist2[e.from] = s.dist[e.from]
    BY <1>8, <1>11, <1>13
  <2>2. CASE e.from = c
    <3>1. e.to \in D2 /\ e.ticks \in StepCosts(c, e.to, edges)
      BY <2>2 DEF Neighbours, StepCosts
    <3> QED BY <1>6, <2>1, <2>2, <3>1
  <2>3. CASE e.from \in V
    <3>1. e.to \in D /\ s.dist[e.to] <= s.dist[e.from] + e.ticks
      BY <1>1, <2>3
    <3>2. dist2[e.to] <= s.dist[e.to] /\ dist2[e.to] \in Nat /\ s.dist[e.to] \in Nat
          /\ s.dist[e.from] \in Nat /\ e.ticks \in Nat
      BY <1>1, <1>6, <2>3, <3>1 DEF IsGraph
    <3> QED BY <2>1, <3>1, <3>2
  <2> QED BY <1>13, <2>2, <2>3
<1>14. IsFiniteSet(V) /\ Cardinality(V2) = Cardinality(V) + 1 /\ Cardinality(V) \in Nat
  <2>1. IsFiniteSet(V)
    BY <1>1, FS_Subset DEF IsGraph
  <2> QED BY <1>3, <2>1, FS_AddElement, FS_CardinalityType
<1>15. ASSUME NEW d \in D2
       PROVE  \E n \in 1 .. Cardinality(V2) + 1 : \E w, t :
                Trip(w, t, n, from, d, P, edges) /\ t[n] = dist2[d]
  <2>0. \A n \in 1 .. Cardinality(V) + 1 :
          n \in Nat /\ n >= 1 /\ n \in 1 .. Cardinality(V2) + 1 /\ n + 1 \in 1 .. Cardinality(V2) + 1
    BY <1>14
  <2>1. CASE d \in D /\ dist2[d] = s.dist[d]
    <3>1. PICK n \in 1 .. Cardinality(V) + 1 : \E w, t :
            Trip(w, t, n, from, d, P, edges) /\ t[n] = s.dist[d]
      BY <1>1, <2>1
    <3>2. n \in 1 .. Cardinality(V2) + 1
      BY <2>0
    <3> QED BY <2>1, <3>1, <3>2
  <2>2. CASE StepCosts(c, d, edges) # {} /\ dist2[d] = s.dist[c] + Min(StepCosts(c, d, edges))
    <3>1. PICK n \in 1 .. Cardinality(V) + 1 : \E w, t :
            Trip(w, t, n, from, c, P, edges) /\ t[n] = s.dist[c]
      BY <1>1, <1>3
    <3>2. PICK w, t : Trip(w, t, n, from, c, P, edges) /\ t[n] = s.dist[c]
      BY <3>1
    <3>3. PICK v, u : /\ Trip(v, u, n + 1, from, d, P, edges)
                      /\ u[n + 1] = t[n] + Min(StepCosts(c, d, edges))
      BY <1>10, <2>0, <2>2, <3>2, TripOn
    <3> QED BY <2>0, <2>2, <3>2, <3>3
  <2> QED BY <1>6, <2>1, <2>2
<1> HIDE DEF V, D, V2, D2
<1>16. Explored(s2, from, to, edges, P)
  BY <1>5, <1>6, <1>9, <1>10, <1>11, <1>12, <1>13, <1>15 DEF Explored, Frontier
<1> QED BY <1>4, <1>5, <1>14, <1>16 DEF V

(* After a pass that breaks off nothing changes any more. *)
LEMMA DoneStays ==
  ASSUME NEW s, NEW to, NEW edges, Done(s, to)
  PROVE  Settle(s, to, edges) = s
BY DEF Settle, Done

(* No trip to the destination is shorter than what the search found.       *)
LEMMA NoneShorter ==
  ASSUME NEW edges, NEW P, IsGraph(edges, P), NEW from \in P, NEW to, NEW s,
         Explored(s, from, to, edges, P), Done(s, to),
         NEW n \in Nat, n >= 1, NEW w, NEW t, Trip(w, t, n, from, to, P, edges)
  PROVE  to \in DOMAIN s.dist /\ s.dist[to] <= t[n]
<1> DEFINE T == {i \in Nat : i + 1 <= n =>
                   \/ w[i + 1] \in s.visited /\ s.dist[w[i + 1]] <= t[i + 1]
                   \/ to \in DOMAIN s.dist /\ s.dist[to] <= t[i + 1]}
<1>1. /\ from \in DOMAIN s.dist /\ s.dist[from] = 0
      /\ \A d \in DOMAIN s.dist : s.dist[d] \in Nat
      /\ s.visited \subseteq DOMAIN s.dist /\ to \notin s.visited
      /\ \A e \in edges : e.from \in s.visited =>
           e.to \in DOMAIN s.dist /\ s.dist[e.to] <= s.dist[e.from] + e.ticks
  BY DEF Explored
<1>2. /\ w[1] = from /\ w[n] = to /\ t \in [1 .. n -> Nat] /\ t[1] = 0
      /\ \A i \in 1 .. n - 1 : /\ StepCosts(w[i], w[i + 1], edges) # {}
                               /\ t[i + 1] = t[i] + Min(StepCosts(w[i], w[i + 1], edges))
  BY DEF Trip
<1>3. ASSUME NEW d \in DOMAIN s.dist, d \notin s.visited
      PROVE  to \in DOMAIN s.dist /\ s.dist[to] <= s.dist[d]
  <2>1. d \in Frontier(s)
    BY <1>3 DEF Frontier
  <2>2. Closest(s) = to /\ Closest(s) \in Frontier(s)
        /\ \A v \in Frontier(s) : s.dist[Closest(s)] <= s.dist[v]
    BY <1>1, <2>1, ClosestIs DEF Done
  <2> QED BY <2>1, <2>2 DEF Frontier
<1>4. 0 \in T
  BY <1>1, <1>2, <1>3
<1>5. ASSUME NEW i \in 0 .. n - 1, i \in T PROVE i + 1 \in T
  <2> DEFINE k == i + 1
             x == w[k]
             y == w[k + 1]
             m == Min(StepCosts(x, y, edges))
  <2> SUFFICES ASSUME k + 1 <= n
               PROVE  \/ y \in s.visited /\ s.dist[y] <= t[k + 1]
                      \/ to \in DOMAIN s.dist /\ s.dist[to] <= t[k + 1]
    OBVIOUS
  <2>1. k \in 1 .. n - 1 /\ k \in 1 .. n /\ k + 1 \in 1 .. n /\ k <= n
    OBVIOUS
  <2>2. \/ x \in s.visited /\ s.dist[x] <= t[k]
        \/ to \in DOMAIN s.dist /\ s.dist[to] <= t[k]
    BY <1>5, <2>1
  <2>3. StepCosts(x, y, edges) # {} /\ t[k + 1] = t[k] + m /\ t[k] \in Nat /\ t[k + 1] \in Nat
    BY <1>2, <2>1
  <2>4. m \in Nat /\ m \in StepCosts(x, y, edges)
    BY <2>3, CostsAre, MinIsLeast
  <2>5. PICK e \in edges : e.from = x /\ e.to = y /\ e.ticks = m
    BY <2>4, CostsAre
  <2> HIDE DEF m, k, x, y, T
  <2>6. CASE to \in DOMAIN s.dist /\ s.dist[to] <= t[k]
    <3>1. s.dist[to] \in Nat
      BY <1>1, <2>6
    <3>2. s.dist[to] <= t[k + 1]
      BY <2>3, <2>4, <2>6, <3>1
    <3> QED BY <2>6, <3>2
  <2>7. CASE x \in s.visited /\ s.dist[x] <= t[k]
    <3>1. y \in DOMAIN s.dist /\ s.dist[y] <= s.dist[x] + m /\ s.dist[x] \in Nat /\ s.dist[y] \in Nat
      BY <1>1, <2>5, <2>7
    <3>2. s.dist[y] <= t[k + 1]
      BY <2>3, <2>4, <2>7, <3>1
    <3>3. CASE y \in s.visited
      BY <3>2, <3>3
    <3>4. CASE y \notin s.visited
      <4>1. to \in DOMAIN s.dist /\ s.dist[to] <= s.dist[y] /\ s.dist[to] \in Nat
        BY <1>1, <1>3, <3>1, <3>4
      <4>2. s.dist[to] <= t[k + 1]
        BY <2>3, <3>1, <3>2, <4>1
      <4> QED BY <4>1, <4>2
    <3> QED BY <3>3, <3>4
  <2> QED BY <2>2, <2>6, <2>7
<1>6. n - 1 \in T
  <2> HIDE DEF T
  <2>1. \A i \in 0 .. n : i \in T
    BY <1>4, <1>5, Looping!UpTo
  <2> QED BY <2>1
<1> QED BY <1>1, <1>2, <1>6

(* The loop makes as many passes as it may.                                *)
Loops(g, start, to, edges, N) ==
  g = [n \in 0 .. N |-> IF n = 0 THEN start ELSE Settle(g[n - 1], to, edges)]

LEMMA LoopRuns ==
  ASSUME NEW start, NEW to, NEW edges, NEW N \in Nat
  PROVE  \E g : Loops(g, start, to, edges, N)
<1> DEFINE p == [to |-> to, edges |-> edges]
           seq == [k \in 1 .. N |-> k]
<1>1. seq \in Seq(Nat) /\ Len(seq) = N
  OBVIOUS
<1>2. PICK h : Looping!Through(p, start, seq, h)
  BY <1>1, Looping!FoldGoesThrough
<1>3. h[0] = start /\ \A k \in 1 .. N : h[k] = Settle(h[k - 1], to, edges)
  <2>1. p.to = to /\ p.edges = edges
    OBVIOUS
  <2> HIDE DEF p, seq
  <2> QED BY <1>1, <1>2, <2>1 DEF Looping!Through
<1> DEFINE g == [n \in 0 .. N |-> h[n]]
<1>4. ASSUME NEW n \in 0 .. N
      PROVE  g[n] = IF n = 0 THEN start ELSE Settle(g[n - 1], to, edges)
  <2>1. n # 0 => n \in 1 .. N /\ n - 1 \in 0 .. N
    OBVIOUS
  <2> QED BY <1>3, <2>1
<1>5. g = [n \in 0 .. N |-> g[n]]
  OBVIOUS
<1> HIDE DEF g
<1>6. Loops(g, start, to, edges, N)
  BY <1>4, <1>5 DEF Loops
<1> QED BY <1>6

(* The passes are enough: the last one breaks off.                         *)
LEMMA LoopEnds ==
  ASSUME NEW edges, NEW P, IsGraph(edges, P), NEW from \in P, NEW to, NEW start,
         Explored(start, from, to, edges, P), start.visited = {},
         NEW g, Loops(g, start, to, edges, Passes(edges))
  PROVE  /\ Explored(g[Passes(edges)], from, to, edges, P)
         /\ Done(g[Passes(edges)], to)
<1> DEFINE N == Passes(edges)
           A == Starts(edges)
           K == {n \in Nat : n <= N => /\ Explored(g[n], from, to, edges, P)
                                       /\ Done(g[n], to) \/ Cardinality(g[n].visited) = n}
<1>1. IsFiniteSet(A) /\ N = Cardinality(A) + 1 /\ N \in Nat
  <2>1. A \subseteq P
    BY DEF Starts, IsGraph
  <2>2. IsFiniteSet(A) /\ Cardinality(A) \in Nat
    BY <2>1, FS_Subset, FS_CardinalityType DEF IsGraph
  <2> QED BY <2>2 DEF Passes, Starts
<1> HIDE DEF N
<1>2. /\ \A n \in 0 .. N : n # 0 => g[n] = Settle(g[n - 1], to, edges)
      /\ g[0] = start
  BY <1>1 DEF Loops, N
<1>3. 0 \in K
  <2>1. Cardinality({}) = 0
    BY FS_EmptySet
  <2> QED BY <1>2, <2>1
<1>4. ASSUME NEW n \in 0 .. N - 1, n \in K PROVE n + 1 \in K
  <2> DEFINE k == n + 1
             s == g[n]
  <2>1. n \in Nat /\ n <= N /\ k \in 0 .. N /\ k # 0 /\ k - 1 = n
    BY <1>1
  <2>2. Explored(s, from, to, edges, P) /\ (Done(s, to) \/ Cardinality(s.visited) = n)
    BY <1>4, <2>1
  <2>3. g[k] = Settle(s, to, edges)
    BY <1>2, <2>1
  <2> HIDE DEF s
  <2>4. CASE Done(s, to)
    <3>1. g[k] = s
      BY <2>3, <2>4, DoneStays
    <3>2. k \in K
      BY <2>1, <2>2, <2>4, <3>1
    <3> QED BY <3>2
  <2>5. CASE ~Done(s, to)
    <3>1. Explored(g[k], from, to, edges, P) /\ Cardinality(g[k].visited) = n + 1
      BY <2>2, <2>3, <2>5, ExploredOn
    <3>2. k \in K
      BY <2>1, <3>1
    <3> QED BY <3>2
  <2> QED BY <2>4, <2>5
<1>5. N \in K
  <2> HIDE DEF K
  <2>1. \A n \in 0 .. N : n \in K
    BY <1>1, <1>3, <1>4, Looping!UpTo
  <2> QED BY <1>1, <2>1
<1> DEFINE s == g[N]
<1>6. Explored(s, from, to, edges, P) /\ (Done(s, to) \/ Cardinality(s.visited) = N)
  BY <1>1, <1>5
<1> HIDE DEF s, K
<1>7. ASSUME Cardinality(s.visited) = N PROVE Done(s, to)
  <2> DEFINE B == A \cup {from}
  <2>1. IsFiniteSet(B) /\ Cardinality(B) <= N /\ Cardinality(B) \in Nat
    <3>1. Cardinality(A) \in Nat
      BY <1>1, FS_CardinalityType
    <3>2. IsFiniteSet(B) /\ Cardinality(B) = IF from \in A THEN Cardinality(A) ELSE Cardinality(A) + 1
      <4> HIDE DEF A
      <4> QED BY <1>1, FS_AddElement
    <3> HIDE DEF A, B
    <3> QED BY <1>1, <3>1, <3>2
  <2>2. s.visited \subseteq DOMAIN s.dist /\ DOMAIN s.dist \subseteq B
    BY <1>6 DEF Explored
  <2>3. s.visited \subseteq B
    BY <2>2
  <2> HIDE DEF B
  <2>4. Cardinality(s.visited) <= Cardinality(B)
    BY <2>1, <2>3, FS_Subset
  <2>5. Cardinality(s.visited) = Cardinality(B)
    BY <1>1, <1>7, <2>1, <2>4
  <2>6. s.visited = B
    BY <2>1, <2>3, <2>5, FS_Subset
  <2> QED BY <2>2, <2>6 DEF Done, Frontier
<1> QED BY <1>6, <1>7 DEF s, N

(* So the search ends with all that is known.                              *)
LEMMA SearchEnds ==
  ASSUME NEW roads_, NEW closed_, NEW P, IsGraph(Edges(roads_, closed_), P),
         NEW from \in P, NEW to, from # to
  PROVE  \E s : /\ Explored(s, from, to, Edges(roads_, closed_), P) /\ Done(s, to)
                /\ ShortestTravel(from, to, roads_, closed_) =
                     IF to \in DOMAIN s.dist THEN s.dist[to] ELSE NoPath
<1> DEFINE edges == Edges(roads_, closed_)
           start == [visited |-> {}, dist |-> [d \in {from} |-> 0]]
           N == Passes(edges)
           loop == CHOOSE g : g = [n \in 0 .. N |->
                                     IF n = 0 THEN start ELSE Settle(g[n - 1], to, edges)]
           s == loop[N]
<1>1. N \in Nat
  <2>1. Starts(edges) \subseteq P
    BY DEF Starts, IsGraph
  <2>2. Cardinality(Starts(edges)) \in Nat
    BY <2>1, FS_Subset, FS_CardinalityType DEF IsGraph
  <2> QED BY <2>2 DEF Passes, Starts
<1>2. ShortestTravel(from, to, roads_, closed_) = IF to \in DOMAIN s.dist THEN s.dist[to] ELSE NoPath
  BY DEF ShortestTravel
<1>3. Explored(start, from, to, edges, P) /\ start.visited = {}
  BY ExploredStart
<1> HIDE DEF edges, start, N
<1>4. Loops(loop, start, to, edges, N)
  <2>1. \E g : Loops(g, start, to, edges, N)
    BY <1>1, LoopRuns
  <2> QED BY <2>1 DEF Loops
<1> HIDE DEF loop
<1>5. Explored(s, from, to, edges, P) /\ Done(s, to)
  <2>1. IsGraph(edges, P)
    BY DEF edges
  <2> QED BY <1>3, <1>4, <2>1, LoopEnds DEF N
<1> QED BY <1>2, <1>5 DEF edges

----------------------------------------------------------------------------
(* The time of a walk is that of its trip.                                 *)
LEMMA TimesAgree ==
  ASSUME NEW w, NEW t, NEW u, NEW n \in Nat, n >= 1, NEW from, NEW d, NEW P, NEW edges,
         Trip(w, t, n, from, d, P, edges), Trip(w, u, n, from, d, P, edges)
  PROVE  t[n] = u[n]
<1> DEFINE T == {i \in Nat : i + 1 <= n => t[i + 1] = u[i + 1]}
<1>1. 0 \in T
  BY DEF Trip
<1>2. ASSUME NEW i \in 0 .. n - 1, i \in T PROVE i + 1 \in T
  <2> DEFINE k == i + 1
  <2> SUFFICES ASSUME k + 1 <= n PROVE t[k + 1] = u[k + 1]
    OBVIOUS
  <2>1. k \in 1 .. n - 1 /\ t[k] = u[k]
    BY <1>2
  <2> HIDE DEF k, T
  <2> QED BY <2>1 DEF Trip
<1>3. n - 1 \in T
  <2> HIDE DEF T
  <2>1. \A i \in 0 .. n : i \in T
    BY <1>1, <1>2, Looping!UpTo
  <2> QED BY <2>1
<1> QED BY <1>3

LEMMA WalkTimed ==
  ASSUME NEW edges, NEW P, IsGraph(edges, P), NEW n \in Nat, n >= 1, NEW w \in [1 .. n -> P],
         \A i \in 1 .. n - 1 : StepCosts(w[i], w[i + 1], edges) # {}
  PROVE  \E t : Trip(w, t, n, w[1], w[n], P, edges) /\ WalkTicks(w, edges) = t[n]
<1> DEFINE p == [w |-> w, edges |-> edges]
           seq == [k \in 1 .. n - 1 |-> k]
           t == CHOOSE f : f = [i \in DOMAIN w |->
                   IF i = 1 THEN 0 ELSE f[i - 1] + Min(StepCosts(w[i - 1], w[i], edges))]
<1>1. seq \in Seq(Nat) /\ Len(seq) = n - 1 /\ \A k \in 1 .. n - 1 : seq[k] = k
  BY n - 1 \in Nat
<1>2. PICK g : Timing!Through(p, 0, seq, g)
  BY <1>1, Timing!FoldGoesThrough
<1>3. g[0] = 0 /\ \A k \in 1 .. n - 1 : g[k] = g[k - 1] + Min(StepCosts(w[k], w[k + 1], edges))
  <2>1. p.w = w /\ p.edges = edges
    OBVIOUS
  <2> HIDE DEF p, seq
  <2> QED BY <1>1, <1>2, <2>1 DEF Timing!Through
<1>4. DOMAIN w = 1 .. n /\ Len(w) = n
  <2>1. w \in Seq(P)
    OBVIOUS
  <2> QED BY <2>1
<1> DEFINE f == [i \in 1 .. n |-> g[i - 1]]
<1>5. f = [i \in DOMAIN w |-> IF i = 1 THEN 0 ELSE f[i - 1] + Min(StepCosts(w[i - 1], w[i], edges))]
  <2>1. ASSUME NEW i \in 1 .. n
        PROVE  f[i] = IF i = 1 THEN 0 ELSE f[i - 1] + Min(StepCosts(w[i - 1], w[i], edges))
    <3>1. CASE i = 1
      BY <1>3, <3>1
    <3>2. CASE i # 1
      <4> DEFINE k == i - 1
      <4>1. k \in 1 .. n - 1 /\ k \in 1 .. n /\ i = k + 1 /\ f[i] = g[k] /\ f[k] = g[k - 1]
        BY <3>2
      <4>2. f[i] = f[k] + Min(StepCosts(w[k], w[k + 1], edges))
        <5> HIDE DEF k, f
        <5> QED BY <1>3, <4>1
      <4> HIDE DEF f
      <4> QED BY <3>2, <4>1, <4>2
    <3> QED BY <3>1, <3>2
  <2>2. f = [i \in 1 .. n |-> f[i]]
    OBVIOUS
  <2> HIDE DEF f
  <2> QED BY <1>4, <2>1, <2>2
<1> HIDE DEF f
<1>6. t = [i \in DOMAIN w |-> IF i = 1 THEN 0 ELSE t[i - 1] + Min(StepCosts(w[i - 1], w[i], edges))]
  BY <1>5
<1>7. WalkTicks(w, edges) = t[n]
  BY <1>4 DEF WalkTicks
<1> HIDE DEF t
<1>8. t[1] = 0 /\ \A i \in 1 .. n - 1 : t[i + 1] = t[i] + Min(StepCosts(w[i], w[i + 1], edges))
  <2>1. t[1] = 0
    BY <1>4, <1>6
  <2>2. ASSUME NEW i \in 1 .. n - 1
        PROVE  t[i + 1] = t[i] + Min(StepCosts(w[i], w[i + 1], edges))
    <3>1. i + 1 \in 1 .. n /\ i + 1 # 1 /\ (i + 1) - 1 = i
      OBVIOUS
    <3> QED BY <1>4, <1>6, <3>1
  <2> QED BY <2>1, <2>2
<1>9. \A i \in 1 .. n : t[i] \in Nat
  <2> DEFINE T == {i \in Nat : i + 1 <= n => t[i + 1] \in Nat}
  <2>1. 0 \in T
    BY <1>8
  <2>2. ASSUME NEW i \in 0 .. n - 1, i \in T PROVE i + 1 \in T
    <3> DEFINE k == i + 1
    <3> SUFFICES ASSUME k + 1 <= n PROVE t[k + 1] \in Nat
      OBVIOUS
    <3>1. k \in 1 .. n - 1 /\ t[k] \in Nat
      BY <2>2
    <3>2. Min(StepCosts(w[k], w[k + 1], edges)) \in Nat
      <4>1. StepCosts(w[k], w[k + 1], edges) # {}
        BY <3>1
      <4>2. StepCosts(w[k], w[k + 1], edges) \in SUBSET Nat
        BY CostsAre
      <4> HIDE DEF k
      <4> QED BY <4>1, <4>2, MinIsLeast
    <3> HIDE DEF k, T
    <3> QED BY <1>8, <3>1, <3>2
  <2>3. \A i \in 0 .. n : i \in T
    <3> HIDE DEF T
    <3> QED BY <2>1, <2>2, Looping!UpTo
  <2>4. ASSUME NEW i \in 1 .. n PROVE t[i] \in Nat
    <3>1. i - 1 \in T /\ (i - 1) + 1 = i /\ i <= n
      BY <2>3
    <3> QED BY <3>1
  <2> QED BY <2>4
<1>10. t \in [1 .. n -> Nat]
  BY <1>4, <1>6, <1>9
<1>11. Trip(w, t, n, w[1], w[n], P, edges)
  BY <1>8, <1>10 DEF Trip
<1> QED BY <1>7, <1>11

(* The walks of the reference are trips, and their times are numbers.      *)
LEMMA WalksAreTrips ==
  ASSUME NEW edges, NEW P, IsGraph(edges, P), NEW from, NEW to,
         NEW w \in Walks(from, to, P, edges)
  PROVE  \E n \in Nat : \E t : /\ n >= 1 /\ Trip(w, t, n, from, to, P, edges)
                               /\ WalkTicks(w, edges) = t[n] /\ t[n] \in Nat
<1>1. PICK n \in 1 .. Cardinality(P) : w \in [1 .. n -> P]
  BY DEF Walks
<1>2. n \in Nat /\ n >= 1 /\ Len(w) = n /\ n \in 1 .. n
  <2>1. n \in Nat /\ n >= 1
    BY FS_CardinalityType DEF IsGraph
  <2>2. w \in Seq(P)
    BY <1>1, <2>1
  <2> QED BY <1>1, <2>1, <2>2
<1>3. w[1] = from /\ w[n] = to /\ \A i \in 1 .. n - 1 : StepCosts(w[i], w[i + 1], edges) # {}
  BY <1>2 DEF Walks
<1>4. PICK t : Trip(w, t, n, w[1], w[n], P, edges) /\ WalkTicks(w, edges) = t[n]
  BY <1>1, <1>2, <1>3, WalkTimed
<1>5. t[n] \in Nat
  BY <1>2, <1>4 DEF Trip
<1> QED BY <1>2, <1>3, <1>4, <1>5

LEMMA TripsAreWalks ==
  ASSUME NEW edges, NEW P, IsGraph(edges, P), NEW from, NEW to, NEW n \in 1 .. Cardinality(P),
         NEW w, NEW t, Trip(w, t, n, from, to, P, edges)
  PROVE  w \in Walks(from, to, P, edges) /\ WalkTicks(w, edges) = t[n]
<1>1. n \in Nat /\ n >= 1
  BY FS_CardinalityType DEF IsGraph
<1>2. /\ w \in [1 .. n -> P] /\ w[1] = from /\ w[n] = to
      /\ \A i \in 1 .. n - 1 : StepCosts(w[i], w[i + 1], edges) # {}
  BY DEF Trip
<1>3. Len(w) = n
  <2>1. w \in Seq(P)
    BY <1>1, <1>2
  <2> QED BY <1>1, <1>2, <2>1
<1>4. w \in Walks(from, to, P, edges)
  BY <1>2, <1>3 DEF Walks
<1>5. PICK u : Trip(w, u, n, from, to, P, edges) /\ WalkTicks(w, edges) = u[n]
  BY <1>1, <1>2, WalkTimed
<1> QED BY <1>1, <1>4, <1>5, TimesAgree

(* The search finds the time of the shortest walk, or that there is none.  *)
LEMMA SearchIsReference ==
  ASSUME NEW roads_, NEW closed_, NEW P, IsGraph(Edges(roads_, closed_), P),
         NEW from \in P, NEW to \in P
  PROVE  ShortestTravel(from, to, roads_, closed_) =
           ReferenceTravel(from, to, P, Edges(roads_, closed_))
<1> DEFINE edges == Edges(roads_, closed_)
           walks == Walks(from, to, P, edges)
           ticks == {WalkTicks(w, edges) : w \in walks}
<1>1. IsFiniteSet(P) /\ Cardinality(P) \in Nat
  BY FS_CardinalityType DEF IsGraph
<1>2. ASSUME NEW w \in walks PROVE WalkTicks(w, edges) \in Nat
  BY WalksAreTrips
<1>3. CASE from = to
  <2> DEFINE one == [i \in 1 .. 1 |-> from]
             zero == [i \in 1 .. 1 |-> 0]
  <2>1. Trip(one, zero, 1, from, to, P, edges) /\ zero[1] = 0
    BY <1>3 DEF Trip
  <2>2. 1 \in 1 .. Cardinality(P)
    <3>1. Cardinality(P) # 0
      BY <1>1, FS_EmptySet
    <3> QED BY <1>1, <3>1
  <2> HIDE DEF one, zero, edges
  <2>3. IsGraph(edges, P)
    BY DEF edges
  <2>4. one \in walks /\ WalkTicks(one, edges) = 0
    BY <2>1, <2>2, <2>3, TripsAreWalks
  <2> HIDE DEF walks
  <2>5. Min(ticks) = 0
    <3>1. ticks \in SUBSET Nat /\ 0 \in ticks /\ \A y \in ticks : 0 <= y
      BY <1>2, <2>4
    <3> HIDE DEF ticks
    <3> QED BY <3>1, MinIs
  <2>6. ReferenceTravel(from, to, P, edges) = 0
    BY <2>4, <2>5 DEF ReferenceTravel, walks
  <2>7. ShortestTravel(from, to, roads_, closed_) = 0
    BY <1>3 DEF ShortestTravel
  <2> QED BY <2>6, <2>7 DEF edges
<1>4. CASE from # to
  <2>1. PICK s : /\ Explored(s, from, to, edges, P) /\ Done(s, to)
                 /\ ShortestTravel(from, to, roads_, closed_) =
                      IF to \in DOMAIN s.dist THEN s.dist[to] ELSE NoPath
    BY <1>4, SearchEnds
  <2>2. IsGraph(edges, P)
    OBVIOUS
  <2> HIDE DEF edges
  <2>3. ASSUME NEW w \in walks
        PROVE  to \in DOMAIN s.dist /\ s.dist[to] <= WalkTicks(w, edges)
    <3>1. PICK n \in Nat : \E t : /\ n >= 1 /\ Trip(w, t, n, from, to, P, edges)
                                  /\ WalkTicks(w, edges) = t[n]
      BY <2>2, WalksAreTrips
    <3>2. PICK t : n >= 1 /\ Trip(w, t, n, from, to, P, edges) /\ WalkTicks(w, edges) = t[n]
      BY <3>1
    <3> QED BY <2>1, <2>2, <3>2, NoneShorter
  <2>4. CASE to \in DOMAIN s.dist
    <3>1. PICK n \in 1 .. Cardinality(s.visited) + 1 : \E w, t :
            Trip(w, t, n, from, to, P, edges) /\ t[n] = s.dist[to]
      BY <2>1, <2>4 DEF Explored
    <3>2. PICK w, t : Trip(w, t, n, from, to, P, edges) /\ t[n] = s.dist[to]
      BY <3>1
    <3>3. n \in 1 .. Cardinality(P)
      <4> DEFINE Q == P \ {to}
      <4>1. s.visited \subseteq Q
        BY <2>1 DEF Explored
      <4>2. IsFiniteSet(Q) /\ Cardinality(Q) = Cardinality(P) - 1
        BY <1>1, FS_RemoveElement
      <4> HIDE DEF Q
      <4>3. Cardinality(s.visited) \in Nat /\ Cardinality(s.visited) <= Cardinality(Q)
        BY <4>1, <4>2, FS_Subset, FS_CardinalityType
      <4> QED BY <1>1, <4>2, <4>3
    <3>4. w \in walks /\ WalkTicks(w, edges) = s.dist[to]
      BY <2>2, <3>2, <3>3, TripsAreWalks
    <3> HIDE DEF walks
    <3>5. Min(ticks) = s.dist[to]
      <4> DEFINE x == s.dist[to]
      <4>1. ticks \in SUBSET Nat /\ x \in ticks /\ \A y \in ticks : x <= y
        BY <1>2, <2>3, <3>4
      <4> HIDE DEF ticks, x
      <4>2. Min(ticks) = x
        BY <4>1, MinIs
      <4> QED BY <4>2 DEF x
    <3>6. ReferenceTravel(from, to, P, edges) = s.dist[to]
      BY <3>4, <3>5 DEF ReferenceTravel, walks
    <3> QED BY <2>1, <2>4, <3>6 DEF edges
  <2>5. CASE to \notin DOMAIN s.dist
    <3>1. walks = {}
      BY <2>3, <2>5
    <3>2. ReferenceTravel(from, to, P, edges) = NoPath
      BY <3>1 DEF ReferenceTravel
    <3> QED BY <2>1, <2>5, <3>2 DEF edges
  <2> QED BY <2>4, <2>5
<1> QED BY <1>3, <1>4

(* The roads are a network of the scenario, whichever of them are closed.  *)
RoadInv == IsFiniteSet(Districts) /\ IsNetwork(roads)

LEMMA OpenRoadsAreGraph ==
  ASSUME NEW P, IsFiniteSet(P), NEW net, NEW shut,
         \A r \in DOMAIN net : net[r].from \in P /\ net[r].to \in P /\ net[r].ticks \in Nat
  PROVE  IsGraph(Edges(net, shut), P)
<1> DEFINE E == Edges(net, shut)
<1>1. ASSUME NEW e \in E
      PROVE  /\ e.from \in P /\ e.to \in P /\ e.ticks \in Nat
             /\ \E f \in E : f.from = e.to
  <2>1. PICK r \in DOMAIN net \ shut :
           \/ e = [from |-> net[r].from, to |-> net[r].to, ticks |-> net[r].ticks]
           \/ e = [from |-> net[r].to, to |-> net[r].from, ticks |-> net[r].ticks]
    BY DEF Edges
  <2> DEFINE f == [from |-> net[r].from, to |-> net[r].to, ticks |-> net[r].ticks]
             g == [from |-> net[r].to, to |-> net[r].from, ticks |-> net[r].ticks]
  <2>2. f \in E /\ g \in E
    BY DEF Edges
  <2> HIDE DEF E
  <2> QED BY <2>1, <2>2
<1> HIDE DEF E
<1> QED BY <1>1 DEF IsGraph, E

(* In every network, whichever roads are closed, shortestTravelPath of     *)
(* graph.ts, with its bound on the passes and its early exit at the        *)
(* destination, returns the least total over all routes, or null only      *)
(* when no route is open.                                                  *)
THEOREM DijkstraIsShortestCorrect == RoadSpec => []DijkstraIsShortest
<1>1. RoadInit => RoadInv
  BY NetworkAssumption DEF RoadInit, RoadInv
<1>2. RoadInv /\ [RoadNext]_roadVars => RoadInv'
  BY DEF RoadInv, RoadNext, CloseRoad, ReopenRoad, roadVars, IsNetwork
<1>3. RoadInv => DijkstraIsShortest
  <2> SUFFICES ASSUME RoadInv, NEW from \in Districts, NEW to \in Districts
               PROVE  ShortestTravel(from, to, roads, closed) =
                        ReferenceTravel(from, to, Districts, Edges(roads, closed))
    BY DEF DijkstraIsShortest
  <2>1. IsGraph(Edges(roads, closed), Districts)
    <3>1. \A r \in DOMAIN roads :
            roads[r].from \in Districts /\ roads[r].to \in Districts /\ roads[r].ticks \in Nat
      BY DEF RoadInv, IsNetwork
    <3> QED BY <3>1, OpenRoadsAreGraph DEF RoadInv
  <2> QED BY <2>1, SearchIsReference
<1> QED BY <1>1, <1>2, <1>3, PTL DEF RoadSpec
======

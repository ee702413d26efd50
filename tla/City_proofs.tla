------------------------------ MODULE City_proofs ------------------------------
(***************************************************************************)
(* Proofs about City: chains start exactly on sustained conditions,        *)
(* outcomes are final, a running generator holds the power, and neglect is *)
(* charged.                                                                *)
(*                                                                         *)
(* The phases of a tick are folds over the scenario's lists: the laws of   *)
(* FoldLaws hold of the monitors, of the lists of incidents, of pressure   *)
(* and effects, and of the sums.                                           *)
(***************************************************************************)
EXTENDS City, TeamOrders_proofs

Monitors  == INSTANCE FoldLaws WITH Op <- LAMBDA p, s, i : Watch(s, p, i)
Listings  == INSTANCE FoldLaws WITH Op <- LAMBDA p, s, i : IF i \in p THEN Append(s, i) ELSE s
Pressures == INSTANCE FoldLaws WITH Op <- LAMBDA p, s, i :
               IF i \in p THEN Changed(s, Def[i].district, Def[i].attribute, Def[i].delta) ELSE s
Schedules == INSTANCE FoldLaws WITH Op <- LAMBDA p, s, n :
               IF n \in p
               THEN Changed(s, Effects[n].district, Effects[n].attribute, Effects[n].delta) ELSE s

(* The model's folds are those of the laws. *)
LEMMA MonitoredIsFold ==
  ASSUME NEW s, NEW v
  PROVE  Monitored(s, v) = Monitors!Fold(v, s, Scripted)
BY DEF Monitored, Monitors!Fold, Monitors!Highest, FoldLeft, MapThenFoldSet, Max

LEMMA ListedIsFold ==
  ASSUME NEW list, NEW new
  PROVE  Listed(list, new) = Listings!Fold(new, list, Scripted)
BY DEF Listed, Listings!Fold, Listings!Highest, FoldLeft, MapThenFoldSet, Max

LEMMA PressedIsFold ==
  ASSUME NEW levels, NEW active, NEW list
  PROVE  Pressed(levels, active, list) = Pressures!Fold(active, levels, list)
BY DEF Pressed, Pressures!Fold, Pressures!Highest, FoldLeft, MapThenFoldSet, Max

LEMMA ScheduledIsFold ==
  ASSUME NEW levels, NEW due
  PROVE  Scheduled(levels, due) = Schedules!Fold(due, levels, [n \in DOMAIN Effects |-> n])
BY DEF Scheduled, Schedules!Fold, Schedules!Highest, FoldLeft, MapThenFoldSet, Max

(* The script names each incident once. *)
LEMMA ScriptedOnce ==
  /\ Len(Scripted) \in Nat
  /\ DOMAIN Scripted = 1 .. Len(Scripted)
  /\ Scripted \in Seq(Incident) /\ Scripted \in [1 .. Len(Scripted) -> Incident]
  /\ \A n \in 1 .. Len(Scripted) : Scripted[n] \in Incident
  /\ \A n, m \in 1 .. Len(Scripted) : Scripted[n] = Scripted[m] => n = m
  /\ \A i \in Incident : \E n \in 1 .. Len(Scripted) : Scripted[n] = i
<1>1. /\ Scripted \in Seq(Incident)
      /\ \A i \in Incident : \E n \in DOMAIN Scripted : Scripted[n] = i
      /\ \A n, m \in DOMAIN Scripted : Scripted[n] = Scripted[m] => n = m
  BY CityAssumption
<1> QED BY <1>1

(* The scenario has finitely many incidents. *)
LEMMA IncidentsFinite == IsFiniteSet(Incident)
<1> DEFINE N == Len(Scripted)
<1>1. N \in Nat /\ Scripted \in [1 .. N -> Incident]
  BY ScriptedOnce
<1>2. \A i \in Incident : \E n \in 1 .. N : Scripted[n] = i
  BY ScriptedOnce
<1> HIDE DEF N
<1>3. IsFiniteSet(1 .. N)
  BY <1>1, FS_Interval
<1>4. Scripted \in Surjection(1 .. N, Incident)
  BY <1>1, <1>2 DEF Surjection
<1> QED BY <1>3, <1>4, FS_Surjection

----------------------------------------------------------------------------
(***************************************************************************)
(* Monitors.  A roll is what a monitor reads and changes.                  *)
(***************************************************************************)
Roll(now) ==
  [started : [Incident -> Moment], occurred : Seq(Incident), below : [Triggered -> Nat],
   held : [Triggered -> SUBSET (1 .. now)]]

(* What the turn of incident i makes of its own entries, when its source   *)
(* is found burning or not.                                                *)
Turn(s, r, v, i, burning) ==
  LET low   == burning /\ v.level[Watched[i]][ChainOf[i].attribute] < ChainOf[i].below
      fires == low /\ s.below[i] + 1 >= ChainOf[i].forTicks
  IN  /\ r.held[i] = IF low THEN s.held[i] \cup {v.tick} ELSE s.held[i]
      /\ IF burning /\ ~Burning(s, v, i)
         THEN /\ r.below[i] = IF low /\ ~fires THEN s.below[i] + 1 ELSE 0
              /\ r.started[i] = IF fires /\ s.started[i] = NoTick THEN v.tick ELSE s.started[i]
         ELSE r.below[i] = s.below[i] /\ r.started[i] = s.started[i]

(* An incident that had its turn: a source that burned before the monitors *)
(* is found burning, and one found burning still burns.                    *)
Turned(s, r, v, i) ==
  \E burning \in BOOLEAN :
    /\ Turn(s, r, v, i, burning)
    /\ burning => Burning(r, v, ChainOf[i].source)
    /\ Burning(s, v, ChainOf[i].source) => burning

(* One that waits for its turn. *)
Waiting(s, r, i) ==
  /\ r.started[i] = s.started[i]
  /\ i \in Triggered => r.below[i] = s.below[i] /\ r.held[i] = s.held[i]

(* Monitors only start what had not started. *)
Grown(s, r, v) ==
  \A i \in Incident :
    \/ r.started[i] = s.started[i]
    \/ i \in Triggered /\ s.started[i] = NoTick /\ r.started[i] = v.tick

(* What monitors read. *)
Reading(v) == v.tick \in Nat \ {0} /\ v.handled \in [Incident -> Moment]

(* A list grows by an incident that starts. *)
LEMMA ListGrows ==
  ASSUME NEW list \in Seq(Incident), NEW start \in [Incident -> Moment], Lists(list, start),
         NEW i \in Incident, start[i] = NoTick, NEW now \in Nat
  PROVE  Lists(Append(list, i), [start EXCEPT ![i] = now])
<1> DEFINE longer == Append(list, i)
           later  == [start EXCEPT ![i] = now]
           N      == Len(list)
<1>1. /\ N \in Nat /\ DOMAIN list = 1 .. N /\ DOMAIN longer = 1 .. N + 1
      /\ longer[N + 1] = i /\ \A n \in 1 .. N : longer[n] = list[n]
  OBVIOUS
<1>2. \A n \in 1 .. N : list[n] # i
  BY <1>1 DEF Lists
<1>3. ASSUME NEW n \in 1 .. N + 1, NEW m \in 1 .. N + 1, longer[n] = longer[m] PROVE n = m
  <2>1. \A k \in 1 .. N + 1 : k = N + 1 \/ k \in 1 .. N
    BY <1>1
  <2> HIDE DEF longer, N
  <2> QED BY <1>1, <1>2, <1>3, <2>1 DEF Lists
<1>4. ASSUME NEW j \in Incident
      PROVE  later[j] # NoTick <=> \E n \in 1 .. N + 1 : longer[n] = j
  <2>1. CASE j = i
    <3>1. later[j] = now /\ now # NoTick
      BY <2>1, NullAssumption
    <3>2. N + 1 \in 1 .. N + 1
      BY <1>1
    <3> HIDE DEF longer, later, N
    <3> QED BY <1>1, <2>1, <3>1, <3>2
  <2>2. CASE j # i
    <3>1. later[j] = start[j]
      BY <2>2
    <3>2. start[j] # NoTick <=> \E n \in 1 .. N : list[n] = j
      BY <1>1 DEF Lists
    <3>3. \A k \in 1 .. N + 1 : k = N + 1 \/ k \in 1 .. N
      BY <1>1
    <3>4. \A k \in 1 .. N : k \in 1 .. N + 1
      BY <1>1
    <3> HIDE DEF longer, later, N
    <3> QED BY <1>1, <2>2, <3>1, <3>2, <3>3, <3>4
  <2> QED BY <2>1, <2>2
<1> HIDE DEF longer, later, N
<1>5. Lists(longer, later)
  BY <1>1, <1>3, <1>4 DEF Lists
<1> QED BY <1>5 DEF longer, later

(* One turn. *)
LEMMA WatchTurn ==
  ASSUME NEW v, Reading(v), NEW s \in Roll(v.tick), Lists(s.occurred, s.started),
         NEW i \in Incident
  PROVE  /\ Watch(s, v, i) \in Roll(v.tick)
         /\ Lists(Watch(s, v, i).occurred, Watch(s, v, i).started)
         /\ \A j \in Incident \ {i} : Waiting(s, Watch(s, v, i), j)
         /\ Grown(s, Watch(s, v, i), v)
         /\ IF i \in Triggered
            THEN Turn(s, Watch(s, v, i), v, i, Burning(s, v, ChainOf[i].source))
            ELSE Watch(s, v, i) = s
<1> DEFINE r == Watch(s, v, i)
<1>1. CASE i \notin Triggered
  BY <1>1 DEF Watch, Waiting, Grown
<1>2. CASE i \in Triggered
  <2> DEFINE b   == Burning(s, v, ChainOf[i].source)
             low == Holding(s, v, i)
             held == IF low THEN [s.held EXCEPT ![i] = @ \cup {v.tick}] ELSE s.held
             same == Burning(s, v, i) \/ ~b
             fires == low /\ s.below[i] + 1 >= ChainOf[i].forTicks
             starts == ~same /\ fires /\ s.started[i] = NoTick
             below1 == IF same THEN s.below
                       ELSE [s.below EXCEPT ![i] = IF low /\ ~fires THEN @ + 1 ELSE 0]
             started1 == IF starts THEN [s.started EXCEPT ![i] = v.tick] ELSE s.started
             occurred1 == IF starts THEN Append(s.occurred, i) ELSE s.occurred
  <2>1. /\ s = [started |-> s.started, occurred |-> s.occurred, below |-> s.below, held |-> s.held]
        /\ s.started \in [Incident -> Moment] /\ s.occurred \in Seq(Incident)
        /\ s.below \in [Triggered -> Nat] /\ s.held \in [Triggered -> SUBSET (1 .. v.tick)]
    BY DEF Roll
  <2>2. ChainOf[i].forTicks \in Nat \ {0} /\ s.below[i] \in Nat
    BY <1>2, <2>1, CityAssumption
  <2>3. r = [started |-> started1, occurred |-> occurred1, below |-> below1, held |-> held]
    <3> DEFINE n == Noticed(s, v, i)
    <3>1. n = [started |-> s.started, occurred |-> s.occurred, below |-> s.below, held |-> held]
      BY <2>1 DEF Noticed
    <3>2. /\ n.started = s.started /\ n.occurred = s.occurred /\ n.below = s.below
          /\ n.held = held
      <4> HIDE DEF n, held
      <4> QED BY <3>1
    <3>3. /\ \A j \in Incident : Burning(n, v, j) = Burning(s, v, j)
          /\ Burning(n, v, ChainOf[i].source) = b
          /\ Holding(n, v, i) = low
      <4> HIDE DEF n, held
      <4> QED BY <3>2 DEF Burning, Holding
    <3>4. r = Monitor(n, v, i)
      BY <1>2 DEF Watch
    <3>5. (~(s.below[i] + 1 < ChainOf[i].forTicks)) <=> s.below[i] + 1 >= ChainOf[i].forTicks
      BY <2>2
    <3> HIDE DEF n, held, b, low, r
    <3>6. CASE same
      <4>1. r = n
        BY <3>3, <3>4, <3>6 DEF Monitor
      <4> QED BY <3>1, <3>6, <4>1
    <3>7. CASE ~same /\ ~low
      <4>1. r = [n EXCEPT !.below[i] = 0]
        BY <3>3, <3>4, <3>7 DEF Monitor
      <4> QED BY <3>1, <3>7, <4>1
    <3>8. CASE ~same /\ low /\ ~fires
      <4>1. r = [n EXCEPT !.below[i] = @ + 1]
        BY <3>2, <3>3, <3>4, <3>5, <3>8 DEF Monitor
      <4> QED BY <3>1, <3>8, <4>1
    <3>9. CASE ~same /\ fires /\ s.started[i] # NoTick
      <4>1. r = [n EXCEPT !.below[i] = 0]
        BY <3>2, <3>3, <3>4, <3>5, <3>9 DEF Monitor
      <4> QED BY <3>1, <3>9, <4>1
    <3>10. CASE starts
      <4>1. r = [n EXCEPT !.below[i] = 0, !.started[i] = v.tick, !.occurred = Append(@, i)]
        BY <3>2, <3>3, <3>4, <3>5, <3>10 DEF Monitor
      <4> QED BY <3>1, <3>10, <4>1
    <3> QED BY <3>6, <3>7, <3>8, <3>9, <3>10
  <2>4. /\ r.started = started1 /\ r.occurred = occurred1 /\ r.below = below1
        /\ r.held = held
    BY <2>3
  <2> HIDE DEF r
  <2>5. v.tick \in Nat \ {0} /\ v.tick \in 1 .. v.tick /\ v.tick \in Moment /\ v.tick # NoTick
    BY NullAssumption DEF Reading, Moment
  <2>6. r \in Roll(v.tick)
    <3>1. held \in [Triggered -> SUBSET (1 .. v.tick)]
      BY <1>2, <2>1, <2>5
    <3>2. below1 \in [Triggered -> Nat]
      BY <1>2, <2>1, <2>2
    <3>3. started1 \in [Incident -> Moment]
      BY <2>1, <2>5
    <3>4. occurred1 \in Seq(Incident)
      BY <2>1
    <3> HIDE DEF held, below1, started1, occurred1
    <3> QED BY <2>3, <3>1, <3>2, <3>3, <3>4 DEF Roll
  <2>7. Lists(r.occurred, r.started)
    <3>1. CASE ~starts
      BY <2>4, <3>1
    <3>2. CASE starts
      <4>1. r.occurred = Append(s.occurred, i) /\ r.started = [s.started EXCEPT ![i] = v.tick]
        BY <2>4, <3>2
      <4>2. s.started[i] = NoTick
        BY <3>2
      <4> QED BY <2>1, <2>5, <4>1, <4>2, ListGrows
    <3> QED BY <3>1, <3>2
  <2>8. \A j \in Incident \ {i} : Waiting(s, r, j)
    BY <2>1, <2>4 DEF Waiting
  <2>9. /\ r.started[i] = IF starts THEN v.tick ELSE s.started[i]
        /\ r.below[i] = IF same THEN s.below[i] ELSE IF low /\ ~fires THEN s.below[i] + 1 ELSE 0
        /\ r.held[i] = IF low THEN s.held[i] \cup {v.tick} ELSE s.held[i]
    BY <1>2, <2>1, <2>4
  <2>10. Grown(s, r, v)
    BY <1>2, <2>8, <2>9 DEF Grown, Waiting
  <2>11. Turn(s, r, v, i, b)
    <3>1. low <=> b /\ v.level[Watched[i]][ChainOf[i].attribute] < ChainOf[i].below
      BY DEF Holding
    <3> HIDE DEF b, low
    <3> QED BY <2>9, <3>1 DEF Turn
  <2> QED BY <1>2, <2>6, <2>7, <2>8, <2>10, <2>11 DEF r
<1> QED BY <1>1, <1>2

(* All turns: each triggered incident has had its own. *)
LEMMA MonitoredTurns ==
  ASSUME NEW v, Reading(v), NEW s \in Roll(v.tick), Lists(s.occurred, s.started)
  PROVE  /\ Monitored(s, v) \in Roll(v.tick)
         /\ Lists(Monitored(s, v).occurred, Monitored(s, v).started)
         /\ Grown(s, Monitored(s, v), v)
         /\ \A i \in Triggered : Turned(s, Monitored(s, v), v, i)
<1> DEFINE N == Len(Scripted)
           DoneTo(r, k) == \A n \in 1 .. N :
                            IF n > k THEN Waiting(s, r, Scripted[n])
                            ELSE Scripted[n] \in Triggered => Turned(s, r, v, Scripted[n])
           V == [k \in 0 .. N |-> {r \in Roll(v.tick) : /\ Lists(r.occurred, r.started)
                                                        /\ Grown(s, r, v)
                                                        /\ DoneTo(r, k)}]
<1>1. /\ N \in Nat /\ DOMAIN Scripted = 1 .. N /\ Scripted \in Seq(Incident)
      /\ \A n \in 1 .. N : Scripted[n] \in Incident
      /\ \A n, m \in 1 .. N : Scripted[n] = Scripted[m] => n = m
      /\ \A i \in Incident : \E n \in 1 .. N : Scripted[n] = i
  BY ScriptedOnce
<1>2. s \in V[0]
  <2>1. Grown(s, s, v) /\ \A i \in Incident : Waiting(s, s, i)
    BY DEF Grown, Waiting
  <2>2. DoneTo(s, 0)
    <3> HIDE DEF N
    <3> QED BY <1>1, <2>1
  <2>3. 0 \in 0 .. N
    BY <1>1
  <2> HIDE DEF DoneTo, N
  <2> QED BY <2>1, <2>2, <2>3
<1>3. ASSUME NEW k \in 1 .. N, NEW r \in V[k - 1] PROVE Watch(r, v, Scripted[k]) \in V[k]
  <2> DEFINE e == Scripted[k]
             q == Watch(r, v, e)
  <2>1. k \in 0 .. N /\ k - 1 \in 0 .. N /\ e \in Incident
    BY <1>1
  <2>2. r \in Roll(v.tick) /\ Lists(r.occurred, r.started) /\ Grown(s, r, v) /\ DoneTo(r, k - 1)
    <3> HIDE DEF DoneTo, N
    <3> QED BY <2>1
  <2>3. /\ q \in Roll(v.tick) /\ Lists(q.occurred, q.started)
        /\ \A j \in Incident \ {e} : Waiting(r, q, j)
        /\ Grown(r, q, v)
        /\ IF e \in Triggered THEN Turn(r, q, v, e, Burning(r, v, ChainOf[e].source)) ELSE q = r
    <3> HIDE DEF e
    <3> QED BY <2>1, <2>2, WatchTurn
  <2>4. Waiting(s, r, e)
    BY <1>1, <2>2
  <2> HIDE DEF e, q
  <2>5. Grown(s, q, v)
    BY <2>2, <2>3 DEF Grown
  <2>6. v.tick # NoTick
    BY NullAssumption DEF Reading
  <2>7. ASSUME NEW i \in Triggered, i # e, Turned(s, r, v, i) PROVE Turned(s, q, v, i)
    <3>1. i \in Incident /\ ChainOf[i].source \in Incident
      BY CityAssumption
    <3>2. Waiting(r, q, i)
      BY <2>3, <2>7, <3>1
    <3>3. Burning(r, v, ChainOf[i].source) => Burning(q, v, ChainOf[i].source)
      BY <2>3, <2>6, <3>1 DEF Grown, Burning
    <3>4. PICK b \in BOOLEAN : /\ Turn(s, r, v, i, b)
                               /\ b => Burning(r, v, ChainOf[i].source)
                               /\ Burning(s, v, ChainOf[i].source) => b
      BY <2>7 DEF Turned
    <3>5. Turn(s, q, v, i, b)
      BY <3>2, <3>4 DEF Turn, Waiting
    <3> QED BY <3>3, <3>4, <3>5 DEF Turned
  <2>8. ASSUME e \in Triggered PROVE Turned(s, q, v, e)
    <3> DEFINE src == ChainOf[e].source
               b   == Burning(r, v, src)
    <3>1. src \in Incident
      BY <2>8, CityAssumption
    <3>2. /\ Burning(s, v, src) => b
          /\ b => Burning(q, v, src)
      BY <2>2, <2>3, <2>6, <3>1 DEF Grown, Burning
    <3>3. Turn(r, q, v, e, b)
      BY <2>3, <2>8
    <3>4. Turn(s, q, v, e, b)
      <4> HIDE DEF b
      <4> QED BY <2>4, <2>8, <3>3 DEF Turn, Waiting, Burning
    <3>5. b \in BOOLEAN
      BY DEF Burning
    <3> HIDE DEF b
    <3> QED BY <3>2, <3>4, <3>5 DEF Turned
  <2>9. ASSUME NEW n \in 1 .. N
        PROVE  IF n > k THEN Waiting(s, q, Scripted[n])
               ELSE Scripted[n] \in Triggered => Turned(s, q, v, Scripted[n])
    <3>1. CASE n > k
      <4>1. Scripted[n] # e /\ Scripted[n] \in Incident
        BY <1>1, <3>1 DEF e
      <4>2. Waiting(r, q, Scripted[n])
        BY <2>3, <4>1
      <4>3. Waiting(s, r, Scripted[n])
        BY <1>1, <2>2, <3>1
      <4> QED BY <3>1, <4>2, <4>3 DEF Waiting
    <3>2. CASE n = k
      BY <1>1, <2>8, <3>2 DEF e
    <3>3. CASE n < k
      <4>1. Scripted[n] # e
        BY <1>1, <3>3 DEF e
      <4>2. ~(n > k - 1) /\ ~(n > k)
        BY <1>1, <3>3
      <4>3. Scripted[n] \in Triggered => Turned(s, r, v, Scripted[n])
        BY <2>2, <4>2
      <4> QED BY <2>7, <4>1, <4>2, <4>3
    <3> QED BY <1>1, <3>1, <3>2, <3>3
  <2>10. DoneTo(q, k)
    <3> HIDE DEF N
    <3> QED BY <2>9
  <2> HIDE DEF DoneTo, N
  <2>11. q \in V[k]
    BY <2>1, <2>3, <2>5, <2>10
  <2> QED BY <2>11 DEF q, e
<1>4. Monitors!Fold(v, s, Scripted) \in V[N]
  <2> HIDE DEF V
  <2> QED BY <1>1, <1>2, <1>3, Monitors!FoldClimbs
<1> DEFINE r == Monitored(s, v)
<1>5. r \in V[N] /\ N \in 0 .. N
  <2> HIDE DEF V, N
  <2> QED BY <1>1, <1>4, MonitoredIsFold
<1> HIDE DEF r
<1>6. r \in Roll(v.tick) /\ Lists(r.occurred, r.started) /\ Grown(s, r, v) /\ DoneTo(r, N)
  <2> HIDE DEF DoneTo, N
  <2> QED BY <1>5
<1>7. ASSUME NEW i \in Triggered PROVE Turned(s, r, v, i)
  <2>1. PICK n \in 1 .. N : Scripted[n] = i
    BY <1>1, CityAssumption
  <2>2. ~(n > N)
    BY <1>1
  <2> HIDE DEF N
  <2> QED BY <1>6, <2>1, <2>2
<1> QED BY <1>6, <1>7 DEF r

----------------------------------------------------------------------------
(***************************************************************************)
(* The list of incidents, and the levels.                                  *)
(***************************************************************************)

(* The incidents that start join the list. *)
LEMMA ListedLists ==
  ASSUME NEW list \in Seq(Incident), NEW start \in [Incident -> Moment],
         NEW begun \in [Incident -> Moment], Lists(list, start),
         \A i \in Incident : begun[i] # start[i] => start[i] = NoTick
  PROVE  LET seen == Listed(list, {i \in Incident : begun[i] # start[i]})
         IN  seen \in Seq(Incident) /\ Lists(seen, begun)
<1> DEFINE N == Len(Scripted)
           new == {i \in Incident : begun[i] # start[i]}
           By(k) == [i \in Incident |-> IF \E n \in 1 .. k : Scripted[n] = i
                                        THEN begun[i] ELSE start[i]]
           V == [k \in 0 .. N |-> {s \in Seq(Incident) : Lists(s, By(k))}]
<1>1. list \in V[0]
  <2>1. By(0) = start
    OBVIOUS
  <2>2. 0 \in 0 .. N
    BY ScriptedOnce
  <2> HIDE DEF By, N
  <2> QED BY <2>1, <2>2
<1>2. ASSUME NEW k \in 1 .. N, NEW s \in V[k - 1]
      PROVE  (IF Scripted[k] \in new THEN Append(s, Scripted[k]) ELSE s) \in V[k]
  <2> DEFINE e == Scripted[k]
  <2>1. k \in 0 .. N /\ k - 1 \in 0 .. N /\ e \in Incident
    BY ScriptedOnce
  <2>2. s \in Seq(Incident) /\ Lists(s, By(k - 1))
    <3> HIDE DEF By, N
    <3> QED BY <2>1
  <2>3. By(k - 1) \in [Incident -> Moment] /\ By(k) \in [Incident -> Moment]
    OBVIOUS
  <2>4. By(k - 1)[e] = start[e]
    <3>1. ~ \E n \in 1 .. k - 1 : Scripted[n] = e
      <4>1. \A n \in 1 .. k - 1 : n \in 1 .. N /\ n # k
        BY ScriptedOnce
      <4> HIDE DEF N
      <4> QED BY <4>1, ScriptedOnce DEF N
    <3> HIDE DEF e
    <3> QED BY <2>1, <3>1
  <2>5. \A i \in Incident : i # e => By(k)[i] = By(k - 1)[i]
    <3>1. ASSUME NEW i \in Incident, i # e
          PROVE  (\E n \in 1 .. k : Scripted[n] = i) <=> \E n \in 1 .. k - 1 : Scripted[n] = i
      <4>1. \A n \in 1 .. k : n = k \/ n \in 1 .. k - 1
        BY ScriptedOnce
      <4>2. \A n \in 1 .. k - 1 : n \in 1 .. k
        BY ScriptedOnce
      <4> HIDE DEF N
      <4> QED BY <3>1, <4>1, <4>2
    <3> HIDE DEF e
    <3> QED BY <3>1
  <2>6. By(k)[e] = begun[e]
    <3>1. k \in 1 .. k
      BY ScriptedOnce
    <3> QED BY <2>1, <3>1
  <2> HIDE DEF By, e, N
  <2>7. CASE e \in new
    <3>1. start[e] = NoTick /\ begun[e] \in Nat
      BY <2>1, <2>7 DEF Moment
    <3>2. By(k) = [By(k - 1) EXCEPT ![e] = begun[e]]
      BY <2>1, <2>3, <2>5, <2>6
    <3>3. Lists(Append(s, e), By(k))
      BY <2>1, <2>2, <2>3, <2>4, <3>1, <3>2, ListGrows
    <3> HIDE DEF new
    <3> QED BY <2>1, <2>2, <2>7, <3>3 DEF e
  <2>8. CASE e \notin new
    <3>1. begun[e] = start[e]
      BY <2>1, <2>8
    <3>2. By(k) = By(k - 1)
      BY <2>1, <2>3, <2>4, <2>5, <2>6, <3>1
    <3> HIDE DEF new
    <3> QED BY <2>1, <2>2, <2>8, <3>2 DEF e
  <2> QED BY <2>7, <2>8
<1>3. Listings!Fold(new, list, Scripted) \in V[N]
  <2> HIDE DEF V, new
  <2> QED BY <1>1, <1>2, ScriptedOnce, Listings!FoldClimbs
<1>4. By(N) = begun /\ N \in 0 .. N
  <2>1. \A i \in Incident : \E n \in 1 .. N : Scripted[n] = i
    BY ScriptedOnce
  <2>2. N \in 0 .. N
    BY ScriptedOnce
  <2> HIDE DEF N
  <2> QED BY <2>1, <2>2
<1>5. Listed(list, new) \in V[N]
  <2> HIDE DEF V, new
  <2> QED BY <1>3, ListedIsFold
<1>6. Listed(list, new) \in Seq(Incident) /\ Lists(Listed(list, new), By(N))
  <2> HIDE DEF By, N, new
  <2> QED BY <1>4, <1>5
<1> QED BY <1>4, <1>6

Levels == [District -> [Attribute -> Int]]

(* A changed level is a level. *)
LEMMA ChangedType ==
  ASSUME NEW levels \in Levels, NEW d \in District, NEW a \in Attribute, NEW delta \in Int
  PROVE  Changed(levels, d, a, delta) \in Levels
<1>1. levels[d] \in [Attribute -> Int] /\ levels[d][a] + delta \in Int
  BY DEF Levels
<1>2. Clamp(levels[d][a] + delta) \in Int
  BY <1>1 DEF Clamp
<1> QED BY <1>1, <1>2 DEF Changed, Levels

(* So are levels under pressure, ... *)
LEMMA PressedType ==
  ASSUME NEW levels \in Levels, NEW active, NEW list \in Seq(Incident)
  PROVE  Pressed(levels, active, list) \in Levels
<1> DEFINE V == [k \in 0 .. Len(list) |-> Levels]
<1>1. ASSUME NEW k \in 1 .. Len(list), NEW s \in V[k - 1]
      PROVE  (IF list[k] \in active
              THEN Changed(s, Def[list[k]].district, Def[list[k]].attribute, Def[list[k]].delta)
              ELSE s) \in V[k]
  <2>1. k - 1 \in 0 .. Len(list) /\ k \in 0 .. Len(list) /\ list[k] \in Incident
    OBVIOUS
  <2>2. /\ Def[list[k]].district \in District /\ Def[list[k]].attribute \in Attribute
        /\ Def[list[k]].delta \in Int
    BY <2>1, CityAssumption
  <2> QED BY <2>1, <2>2, ChangedType
<1>2. levels \in V[0] /\ Len(list) \in 0 .. Len(list)
  OBVIOUS
<1>3. Pressures!Fold(active, levels, list) \in V[Len(list)]
  <2> HIDE DEF V
  <2> QED BY <1>1, <1>2, Pressures!FoldClimbs
<1> QED BY <1>2, <1>3, PressedIsFold

(* ... after the scheduled effects ... *)
LEMMA ScheduledType ==
  ASSUME NEW levels \in Levels, NEW due
  PROVE  Scheduled(levels, due) \in Levels
<1> DEFINE N == Len(Effects)
           line == [n \in DOMAIN Effects |-> n]
           V == [k \in 0 .. N |-> Levels]
<1> DEFINE R == [at : Nat, every : Nat \cup {NoTick}, district : District,
                 attribute : Attribute, delta : Int]
<1>0. Effects \in Seq(R)
  BY CityAssumption
<1>1. N \in Nat /\ DOMAIN Effects = 1 .. N /\ \A n \in 1 .. N : Effects[n] \in R
  <2> HIDE DEF R
  <2> QED BY <1>0
<1>2. line \in Seq(1 .. N) /\ Len(line) = N /\ \A k \in 1 .. N : line[k] = k
  <2> HIDE DEF N
  <2> QED BY <1>1
<1> HIDE DEF line
<1>3. ASSUME NEW k \in 1 .. N, NEW s \in V[k - 1]
      PROVE  (IF line[k] \in due
              THEN Changed(s, Effects[line[k]].district, Effects[line[k]].attribute,
                           Effects[line[k]].delta)
              ELSE s) \in V[k]
  <2>1. k - 1 \in 0 .. N /\ k \in 0 .. N /\ line[k] = k
    BY <1>1, <1>2
  <2>2. /\ Effects[k].district \in District /\ Effects[k].attribute \in Attribute
        /\ Effects[k].delta \in Int
    <3> HIDE DEF N
    <3> QED BY <1>1
  <2> QED BY <2>1, <2>2, ChangedType
<1>4. levels \in V[0] /\ N \in 0 .. N
  BY <1>1
<1>5. Schedules!Fold(due, levels, line) \in V[N]
  <2> HIDE DEF V, N
  <2>1. Schedules!Fold(due, levels, line) \in V[Len(line)]
    BY <1>2, <1>3, <1>4, Schedules!FoldClimbs
  <2> QED BY <1>2, <2>1
<1>6. Scheduled(levels, due) = Schedules!Fold(due, levels, line)
  BY ScheduledIsFold DEF line
<1> QED BY <1>4, <1>5, <1>6

(* ... and the teams' work. *)
LEMMA WorkedType ==
  ASSUME NEW levels \in Levels
  PROVE  Worked(levels) \in Levels
<1> DEFINE busy == {t \in Team : status[t] = "working"} \cup Arriving
<1>1. IsFiniteSet(busy)
  <2>1. busy \in SUBSET Team
    BY DEF Arriving
  <2> HIDE DEF busy
  <2> QED BY <2>1, TeamAssumption, FS_Subset
<1>2. ASSUME NEW t \in busy, NEW d \in District, NEW a \in Attribute
      PROVE  Effort(t, d, a) \in Int
  <2> DEFINE done == {e \in WorkEffects : e[1] = order[t].task /\ e[2] = a}
  <2>1. \A e \in WorkEffects : e[3] \in Int
    BY DEF WorkEffects
  <2>2. done # {} => (CHOOSE e \in done : TRUE) \in WorkEffects
    OBVIOUS
  <2> HIDE DEF done
  <2>3. done # {} => (CHOOSE e \in done : TRUE)[3] \in Int
    BY <2>1, <2>2
  <2> QED BY <2>3 DEF Effort, done
<1>3. ASSUME NEW d \in District, NEW a \in Attribute
      PROVE  FoldFunction(+, 0, [t \in busy |-> Effort(t, d, a)]) \in Int
  <2> DEFINE f == [t \in busy |-> Effort(t, d, a)]
  <2>1. f \in [busy -> Int]
    <3> HIDE DEF busy
    <3> QED BY <1>2
  <2> HIDE DEF f, busy
  <2>2. \A t \in busy : f[t] <= f[t]
    BY <2>1
  <2>3. SumOf(f) \in Int
    BY <1>1, <2>1, <2>2, SumMonotone
  <2> QED BY <2>3, SumIsFold DEF f
<1>4. \A d \in District, a \in Attribute :
        Clamp(levels[d][a] + FoldFunction(+, 0, [t \in busy |-> Effort(t, d, a)])) \in Int
  <2> SUFFICES ASSUME NEW d \in District, NEW a \in Attribute
               PROVE  Clamp(levels[d][a] + FoldFunction(+, 0, [t \in busy |-> Effort(t, d, a)]))
                        \in Int
    OBVIOUS
  <2> DEFINE n == FoldFunction(+, 0, [t \in busy |-> Effort(t, d, a)])
  <2>1. n \in Int
    BY <1>3
  <2> HIDE DEF n
  <2>2. levels[d][a] + n \in Int
    BY <2>1 DEF Levels
  <2>3. Clamp(levels[d][a] + n) \in Int
    BY <2>2 DEF Clamp
  <2> QED BY <2>3 DEF n
<1> HIDE DEF busy
<1> QED BY <1>4 DEF Worked, Levels, busy

(* Generators leave levels, and at least 40 where one runs on. *)
LEMMA BackedUpFloor ==
  ASSUME NEW levels \in Levels, NEW now
  PROVE  /\ BackedUp(levels, now) \in Levels
         /\ \A d \in District : backupUntil[d] # NoTick /\ backupUntil[d] > now
              => BackedUp(levels, now)[d]["power"] >= 40
<1>1. "power" \in Attribute
  BY DEF Attribute
<1>2. ASSUME NEW d \in District
      PROVE  /\ levels[d] \in [Attribute -> Int]
             /\ [levels[d] EXCEPT !["power"] = IF @ < 40 THEN 40 ELSE @] \in [Attribute -> Int]
             /\ [levels[d] EXCEPT !["power"] = IF @ < 40 THEN 40 ELSE @]["power"] >= 40
  BY <1>1 DEF Levels
<1> QED BY <1>2 DEF BackedUp, Levels

----------------------------------------------------------------------------
(***************************************************************************)
(* The decision delay.                                                     *)
(***************************************************************************)

(* The smaller of two numbers. *)
LEMMA MinOfTwo ==
  ASSUME NEW a \in Int, NEW b \in Int
  PROVE  Min({a, b}) = IF a <= b THEN a ELSE b
<1> DEFINE m == IF a <= b THEN a ELSE b
<1>1. m \in {a, b} /\ \A y \in {a, b} : m <= y
  OBVIOUS
<1>2. ASSUME NEW x \in {a, b}, \A y \in {a, b} : x <= y PROVE x = m
  BY <1>2
<1> HIDE DEF m
<1>3. Min({a, b}) = m
  BY <1>1, <1>2 DEF Min
<1> QED BY <1>3 DEF m

(* A longer delay costs at least as much, none more than the limit. *)
LEMMA PointsGrow ==
  ASSUME NEW n \in Int, NEW m \in Int, n <= m
  PROVE  Points(n) \in 0 .. MaxPoints /\ Points(n) <= Points(m)
<1>1. GraceTicks \in Nat /\ PointsPerTick \in Nat /\ MaxPoints \in Nat
  BY CityAssumption
<1> DEFINE cost(k) == (k - GraceTicks) * PointsPerTick
<1>2. ASSUME NEW k \in Int
      PROVE  /\ cost(k) \in Int
             /\ k > GraceTicks => cost(k) >= 0
             /\ Points(k) = IF k <= GraceTicks THEN 0
                            ELSE IF MaxPoints <= cost(k) THEN MaxPoints ELSE cost(k)
  <2>1. k - GraceTicks \in Int
    BY <1>1
  <2>2. cost(k) \in Int
    BY <1>1, <2>1
  <2>3. ASSUME k > GraceTicks PROVE cost(k) >= 0
    <3>1. k - GraceTicks \in Nat
      BY <1>1, <2>3
    <3>2. cost(k) \in Nat
      BY <1>1, <3>1
    <3> QED BY <3>2
  <2>4. Min({MaxPoints, cost(k)}) = IF MaxPoints <= cost(k) THEN MaxPoints ELSE cost(k)
    <3> HIDE DEF cost
    <3> QED BY <1>1, <2>2, MinOfTwo
  <2> QED BY <2>2, <2>3, <2>4 DEF Points
<1>3. cost(n) <= cost(m)
  <2> DEFINE gap  == m - n
             rest == n - GraceTicks
  <2>1. gap \in Nat /\ rest \in Int /\ m - GraceTicks = rest + gap
    BY <1>1
  <2> HIDE DEF gap
  <2>2. (rest + gap) * PointsPerTick = rest * PointsPerTick + gap * PointsPerTick
    <3> HIDE DEF rest
    <3> QED BY <1>1, <2>1
  <2>3. gap * PointsPerTick \in Nat /\ rest * PointsPerTick \in Int
    <3> HIDE DEF rest
    <3> QED BY <1>1, <2>1
  <2> QED BY <2>1, <2>2, <2>3
<1> HIDE DEF cost
<1>4. Points(n) \in 0 .. MaxPoints
  BY <1>1, <1>2
<1>5. Points(n) <= Points(m)
  BY <1>1, <1>2, <1>3
<1> QED BY <1>4, <1>5

(* Until when an incident is charged. *)
Until(now, first, i) == IF first[i] = NoTick THEN now ELSE first[i]

(* What each incident is charged. *)
LEMMA ChargesType ==
  ASSUME NEW now \in Nat, NEW start \in [Incident -> Moment], NEW first \in [Incident -> Moment]
  PROVE  /\ Charges(now, start, first) \in [Incident -> 0 .. MaxPoints]
         /\ \A i \in Incident :
              /\ Charges(now, start, first)[i] # 0 => start[i] # NoTick
              /\ start[i] # NoTick =>
                   /\ Until(now, first, i) - start[i] \in Int
                   /\ Charges(now, start, first)[i] = Points(Until(now, first, i) - start[i])
<1> SUFFICES ASSUME NEW i \in Incident
             PROVE  /\ Charges(now, start, first)[i] \in 0 .. MaxPoints
                    /\ Charges(now, start, first)[i] # 0 => start[i] # NoTick
                    /\ start[i] # NoTick =>
                         /\ Until(now, first, i) - start[i] \in Int
                         /\ Charges(now, start, first)[i] = Points(Until(now, first, i) - start[i])
  BY DEF Charges
<1>1. Charges(now, start, first)[i] = IF start[i] = NoTick THEN 0
                                      ELSE Points(Until(now, first, i) - start[i])
  BY DEF Charges, Until
<1>2. start[i] # NoTick => Until(now, first, i) - start[i] \in Int
  BY DEF Until, Moment
<1>3. 0 \in 0 .. MaxPoints
  BY CityAssumption
<1>4. start[i] # NoTick => Points(Until(now, first, i) - start[i]) \in 0 .. MaxPoints
  BY <1>2, PointsGrow
<1> QED BY <1>1, <1>2, <1>3, <1>4

(* A function with values up to M sums to at most M for each position of a *)
(* list that names the elements where it is not zero.                      *)
LEMMA SumListed ==
  ASSUME NEW S, IsFiniteSet(S), NEW M \in Nat, NEW f \in [S -> 0 .. M], NEW list \in Seq(S),
         \A x \in S : f[x] # 0 => \E n \in DOMAIN list : list[n] = x
  PROVE  SumOf(f) \in Nat /\ SumOf(f) <= M * Len(list)
<1> DEFINE Z == {x \in S : f[x] # 0}
           P == {n \in 1 .. Len(list) : list[n] \in Z}
           h == [n \in P |-> list[n]]
<1>1. Len(list) \in Nat /\ DOMAIN list = 1 .. Len(list)
  OBVIOUS
<1>2. /\ IsFiniteSet(1 .. Len(list)) /\ Cardinality(1 .. Len(list)) = Len(list)
  <2> DEFINE L == Len(list)
  <2>1. L \in Nat /\ 1 \in Int
    BY <1>1
  <2> HIDE DEF L, P, Z
  <2>2. IsFiniteSet(1 .. L) /\ Cardinality(1 .. L) = IF 1 > L THEN 0 ELSE L - 1 + 1
    BY <2>1, FS_Interval
  <2> QED BY <2>1, <2>2 DEF L
<1>3. IsFiniteSet(P) /\ Cardinality(P) <= Len(list)
  <2>1. P \in SUBSET (1 .. Len(list))
    OBVIOUS
  <2> HIDE DEF P
  <2> QED BY <1>2, <2>1, FS_Subset
<1>4. h \in Surjection(P, Z)
  <2>1. h \in [P -> Z]
    OBVIOUS
  <2>2. \A x \in Z : \E n \in P : h[n] = x
    BY <1>1
  <2> HIDE DEF h, P, Z
  <2> QED BY <2>1, <2>2 DEF Surjection
<1>5. IsFiniteSet(Z) /\ Cardinality(Z) <= Cardinality(P)
  <2> HIDE DEF h, P, Z
  <2> QED BY <1>3, <1>4, FS_Surjection
<1>6. Cardinality(Z) \in Nat /\ Cardinality(P) \in Nat
  <2> HIDE DEF h, P, Z
  <2> QED BY <1>3, <1>5, FS_CardinalityType
<1>7. SumOf(f) \in Nat /\ SumOf(f) <= M * Cardinality(Z)
  BY SumBound
<1>8. M * Cardinality(Z) <= M * Len(list) /\ M * Cardinality(Z) \in Nat /\ M * Len(list) \in Nat
  <2> DEFINE c == Cardinality(Z)
             r == Len(list) - c
  <2>1. c \in Nat /\ r \in Nat /\ Len(list) = c + r
    <3> HIDE DEF h, P, Z
    <3> QED BY <1>1, <1>3, <1>5, <1>6
  <2> HIDE DEF c, r
  <2>2. M * (c + r) = M * c + M * r /\ M * c \in Nat /\ M * r \in Nat
    BY <2>1
  <2> QED BY <2>1, <2>2 DEF c
<1> HIDE DEF h, P, Z
<1> QED BY <1>7, <1>8

(* All of it is at most the limit for each incident on the list. *)
LEMMA DelayBounded ==
  ASSUME NEW now \in Nat, NEW start \in [Incident -> Moment], NEW first \in [Incident -> Moment],
         NEW list \in Seq(Incident), Lists(list, start)
  PROVE  DelayPoints(now, start, first) <= MaxPoints * Len(list)
<1> DEFINE f == Charges(now, start, first)
<1>1. f \in [Incident -> 0 .. MaxPoints] /\ \A i \in Incident : f[i] # 0 => start[i] # NoTick
  BY ChargesType
<1> HIDE DEF f
<1>2. \A i \in Incident : f[i] # 0 => \E n \in DOMAIN list : list[n] = i
  BY <1>1 DEF Lists
<1>3. IsFiniteSet(Incident) /\ MaxPoints \in Nat
  BY IncidentsFinite, CityAssumption
<1>4. SumOf(f) <= MaxPoints * Len(list)
  BY <1>1, <1>2, <1>3, SumListed
<1> QED BY <1>4, SumIsFold DEF DelayPoints, f

(* It grows when incidents keep their starts and no one is charged to an   *)
(* earlier end.                                                            *)
LEMMA DelayGrows ==
  ASSUME NEW now \in Nat, NEW start \in [Incident -> Moment], NEW first \in [Incident -> Moment],
         NEW later \in Nat, NEW begun \in [Incident -> Moment], NEW done \in [Incident -> Moment],
         \A i \in Incident : start[i] # NoTick =>
           begun[i] = start[i] /\ Until(now, first, i) <= Until(later, done, i)
  PROVE  DelayPoints(later, begun, done) >= DelayPoints(now, start, first)
<1> DEFINE f == Charges(now, start, first)
           g == Charges(later, begun, done)
<1>1. f \in [Incident -> 0 .. MaxPoints] /\ g \in [Incident -> 0 .. MaxPoints]
  BY ChargesType
<1>2. ASSUME NEW i \in Incident PROVE f[i] <= g[i]
  <2>1. f[i] \in 0 .. MaxPoints /\ g[i] \in 0 .. MaxPoints
    <3> HIDE DEF f, g
    <3> QED BY <1>1
  <2>2. CASE start[i] = NoTick
    <3>1. f[i] = 0
      BY <2>2, ChargesType
    <3> HIDE DEF f, g
    <3> QED BY <2>1, <3>1
  <2>3. CASE start[i] # NoTick
    <3> DEFINE n == Until(now, first, i) - start[i]
               m == Until(later, done, i) - begun[i]
    <3>1. begun[i] = start[i] /\ Until(now, first, i) <= Until(later, done, i)
      BY <2>3
    <3>2. n \in Int /\ f[i] = Points(n)
      BY <2>3, ChargesType
    <3>3. m \in Int /\ g[i] = Points(m)
      BY <2>3, <3>1, ChargesType
    <3>4. n <= m
      <4>1. start[i] \in Nat /\ Until(now, first, i) \in Nat /\ Until(later, done, i) \in Nat
        BY <2>3 DEF Until, Moment
      <4> QED BY <3>1, <4>1
    <3> HIDE DEF f, g, n, m
    <3> QED BY <3>2, <3>3, <3>4, PointsGrow
  <2> QED BY <2>2, <2>3
<1>3. f \in [Incident -> Int] /\ g \in [Incident -> Int] /\ IsFiniteSet(Incident)
  BY <1>1, IncidentsFinite
<1> HIDE DEF f, g
<1>4. SumOf(f) \in Int /\ SumOf(g) \in Int /\ SumOf(f) <= SumOf(g)
  BY <1>2, <1>3, SumMonotone
<1>5. /\ DelayPoints(now, start, first) = SumOf(f)
      /\ DelayPoints(later, begun, done) = SumOf(g)
  BY SumIsFold, Zenon DEF DelayPoints, f, g
<1> QED BY <1>4, <1>5

(* Nothing is charged before the first incident. *)
LEMMA DelayZero ==
  ASSUME NEW now, NEW first
  PROVE  DelayPoints(now, [i \in Incident |-> NoTick], first) = 0
<1> DEFINE f == Charges(now, [i \in Incident |-> NoTick], first)
<1>1. f \in [Incident -> {0}]
  BY DEF Charges
<1> HIDE DEF f
<1>2. SumOf(f) = 0
  BY <1>1, IncidentsFinite, SumZero
<1> QED BY <1>2, SumIsFold DEF DelayPoints, f

----------------------------------------------------------------------------
(***************************************************************************)
(* Incidents in a tick.                                                    *)
(***************************************************************************)

(* The monitors run in this tick on the roll s, reading v: s holds what    *)
(* the tick found and what the script starts in it.                        *)
Ran(s, v) ==
  /\ Reading(v) /\ v.tick = tick + 1 /\ tick' = tick + 1 /\ v.handled = handled'
  /\ \A i \in Incident : handled[i] # NoTick => handled'[i] = handled[i]
  /\ s \in Roll(v.tick) /\ Lists(s.occurred, s.started)
  /\ s.below = below /\ s.held = heldAt
  /\ \A i \in Incident : s.started[i] # started[i] => started[i] = NoTick /\ s.started[i] = tick + 1
  /\ started' = Monitored(s, v).started /\ occurred' = Monitored(s, v).occurred
  /\ below' = Monitored(s, v).below /\ heldAt' = Monitored(s, v).held
  /\ chained' = chained \cup {i \in Incident : started'[i] # s.started[i]}

(* They do in every tick, and then the levels change phase by phase. *)
LEMMA TickRuns ==
  ASSUME CityInv, CityStep
  PROVE  /\ \E s, v : Ran(s, v)
         /\ \E active, due : \E list \in Seq(Incident) :
              level' = BackedUp(Worked(Scheduled(Pressed(level, active, list), due)), tick + 1)
<1> DEFINE now     == tick + 1
           begun   == [i \in Incident |-> IF Def[i].atTick = now /\ started[i] = NoTick THEN now
                                          ELSE started[i]]
           seen    == Listed(occurred, {i \in Incident : begun[i] # started[i]})
           burning == {i \in Incident : begun[i] # NoTick /\ handled[i] = NoTick}
           fought  == {i \in burning : Crews(i) # {}}
           left    == [i \in Incident |-> IF i \in fought
                                          THEN Clamp(severity[i] - 6 * Cardinality(Crews(i)))
                                          ELSE severity[i]]
           over    == {i \in fought : left[i] = 0}
           pressed == Pressed(level, burning \ over, seen)
           s == [started |-> begun, occurred |-> seen, below |-> below, held |-> heldAt]
           v == [tick |-> now, level |-> pressed, handled |-> handled']
           due == {n \in DOMAIN Effects : effectDue[n] = now}
<1>0. level' = BackedUp(Worked(Scheduled(Pressed(level, burning \ over, seen), due)), tick + 1)
  BY DEF CityStep
<1>1. /\ tick' = now
      /\ handled' = [i \in Incident |-> IF i \in over THEN now ELSE handled[i]]
      /\ started' = Monitored(s, v).started /\ occurred' = Monitored(s, v).occurred
      /\ below' = Monitored(s, v).below /\ heldAt' = Monitored(s, v).held
      /\ chained' = chained \cup {i \in Incident : Monitored(s, v).started[i] # begun[i]}
  BY DEF CityStep, Step
<1>2. /\ tick \in Nat /\ started \in [Incident -> Moment] /\ handled \in [Incident -> Moment]
      /\ occurred \in Seq(Incident) /\ below \in [Triggered -> Nat]
      /\ heldAt \in [Triggered -> SUBSET (1 .. tick)] /\ Lists(occurred, started)
  BY DEF CityInv, CityTypes
<1>3. now \in Nat \ {0} /\ now \in Moment /\ now # NoTick
  BY <1>2, NullAssumption DEF Moment
<1>4. \A i \in over : handled[i] = NoTick
  OBVIOUS
<1> HIDE DEF over, pressed, now, due
<1>5. begun \in [Incident -> Moment]
  BY <1>2, <1>3
<1>6. \A i \in Incident : begun[i] # started[i] => started[i] = NoTick /\ begun[i] = now
  OBVIOUS
<1> HIDE DEF begun
<1>7. seen \in Seq(Incident) /\ Lists(seen, begun)
  BY <1>2, <1>5, <1>6, ListedLists
<1> HIDE DEF seen, burning
<1>8. handled' \in [Incident -> Moment] /\ \A i \in Incident : handled[i] # NoTick => handled'[i] = handled[i]
  BY <1>1, <1>2, <1>3, <1>4
<1>9. heldAt \in [Triggered -> SUBSET (1 .. now)]
  <2>1. \A n \in 1 .. tick : n \in 1 .. now
    BY <1>2 DEF now
  <2>2. \A i \in Triggered : heldAt[i] \in SUBSET (1 .. now)
    BY <1>2, <2>1
  <2> QED BY <1>2, <2>2
<1>10. /\ s.started = begun /\ s.occurred = seen /\ s.below = below /\ s.held = heldAt
       /\ v.tick = now /\ v.handled = handled'
  OBVIOUS
<1>11. s \in Roll(now)
  BY <1>2, <1>5, <1>7, <1>9 DEF Roll
<1>12. Reading(v)
  BY <1>3, <1>8, <1>10 DEF Reading
<1> HIDE DEF s, v
<1>13. Ran(s, v)
  BY <1>1, <1>6, <1>7, <1>8, <1>10, <1>11, <1>12 DEF Ran, now
<1> QED BY <1>0, <1>7, <1>13

(* What every triggered incident's turn makes of its entries. *)
LEMMA TickTurns ==
  ASSUME NEW s, NEW v, Ran(s, v)
  PROVE  LET r == [started |-> started', below |-> below', held |-> heldAt']
         IN  /\ Monitored(s, v) \in Roll(tick + 1)
             /\ Lists(occurred', started')
             /\ Grown(s, r, v)
             /\ \A i \in Triggered : Turned(s, r, v, i)
<1> DEFINE m == Monitored(s, v)
           r == [started |-> started', below |-> below', held |-> heldAt']
<1>1. /\ m \in Roll(v.tick) /\ Lists(m.occurred, m.started) /\ Grown(s, m, v)
      /\ \A i \in Triggered : Turned(s, m, v, i)
  BY MonitoredTurns DEF Ran
<1>2. /\ r.started = m.started /\ r.below = m.below /\ r.held = m.held
      /\ occurred' = m.occurred /\ started' = m.started /\ v.tick = tick + 1
  BY DEF Ran
<1> HIDE DEF m, r
<1>3. Grown(s, r, v)
  BY <1>1, <1>2 DEF Grown
<1>4. \A i \in Triggered : Turned(s, r, v, i)
  BY <1>1, <1>2 DEF Turned, Turn, Burning
<1> QED BY <1>1, <1>2, <1>3, <1>4 DEF m, r

(* The run of ticks in which a condition held, and what the turn that      *)
(* finds it holding again or not makes of it.                              *)
LEMMA ChainTurn ==
  ASSUME CityInv, NEW s, NEW v, Ran(s, v), NEW i \in Triggered
  PROVE  /\ tick \in Nat
         /\ heldAt[i] \in SUBSET (1 .. tick)
         /\ heldAt'[i] = heldAt[i] \/ heldAt'[i] = heldAt[i] \cup {tick + 1}
         /\ started[i] # NoTick => started'[i] = started[i]
         /\ s.started[i] # NoTick => started'[i] = s.started[i]
         /\ s.started[i] # NoTick /\ started[i] = NoTick => s.started[i] = tick + 1
         /\ started'[i] = NoTick => Counted(i)'
         /\ s.started[i] = NoTick /\ started'[i] # NoTick =>
              started'[i] = tick + 1
              /\ (tick + 1) - ChainOf[i].forTicks + 1 .. tick + 1 \subseteq heldAt'[i]
         /\ s.started[i] = NoTick
              /\ (tick + 1) - ChainOf[i].forTicks + 1 .. tick + 1 \subseteq heldAt'[i] =>
              started'[i] = tick + 1
<1> DEFINE src == ChainOf[i].source
           F   == ChainOf[i].forTicks
           n   == below[i]
           now == tick + 1
           r   == [started |-> started', below |-> below', held |-> heldAt']
<1>1. /\ tick \in Nat /\ i \in Incident /\ src \in Incident /\ F \in Nat /\ F >= 1
      /\ n \in Nat /\ heldAt[i] \in SUBSET (1 .. tick)
      /\ started \in [Incident -> Moment]
  <2>1. /\ ChainOf \in [Triggered -> [source : Incident, attribute : Attribute, below : Int,
                                      forTicks : Nat \ {0}]]
        /\ Triggered \subseteq Incident
    BY CityAssumption
  <2>2. /\ tick \in Nat /\ below \in [Triggered -> Nat]
        /\ heldAt \in [Triggered -> SUBSET (1 .. tick)] /\ started \in [Incident -> Moment]
    BY DEF CityInv, CityTypes
  <2>3. ChainOf[i] \in [source : Incident, attribute : Attribute, below : Int,
                        forTicks : Nat \ {0}]
    BY <2>1
  <2> QED BY <2>1, <2>2, <2>3
<1>2. /\ v.tick = now /\ tick' = now /\ v.handled = handled'
      /\ s.below[i] = n /\ s.held[i] = heldAt[i]
      /\ \A j \in Incident : handled[j] # NoTick => handled'[j] = handled[j]
      /\ \A j \in Incident : s.started[j] # started[j] => started[j] = NoTick /\ s.started[j] = now
  BY DEF Ran
<1>3. now # NoTick /\ now \in Nat
  BY <1>1, NullAssumption
<1>4. Grown(s, r, v) /\ Turned(s, r, v, i)
  BY TickTurns
<1>5. /\ r.started = started' /\ r.below = below' /\ r.held = heldAt'
  OBVIOUS
<1>6. PICK b \in BOOLEAN : /\ Turn(s, r, v, i, b)
                           /\ b => Burning(r, v, src)
                           /\ Burning(s, v, src) => b
  BY <1>4 DEF Turned
<1> HIDE DEF r
<1>7. /\ b => started'[src] # NoTick /\ handled'[src] = NoTick
      /\ ~b => s.started[src] = NoTick \/ handled'[src] # NoTick
  BY <1>2, <1>5, <1>6 DEF Burning
<1> DEFINE low == b /\ v.level[Watched[i]][ChainOf[i].attribute] < ChainOf[i].below
<1>8. /\ heldAt'[i] = IF low THEN heldAt[i] \cup {now} ELSE heldAt[i]
      /\ s.started[i] = NoTick =>
           /\ below'[i] = IF ~b THEN n ELSE IF low /\ n + 1 < F THEN n + 1 ELSE 0
           /\ started'[i] = IF low /\ n + 1 >= F THEN now ELSE NoTick
  <2>1. n + 1 >= F <=> ~(n + 1 < F)
    BY <1>1
  <2> HIDE DEF F, n, now
  <2> QED BY <1>2, <1>5, <1>6, <2>1 DEF Turn, Burning, F
<1> HIDE DEF low
<1>9. /\ s.started[i] # NoTick => started'[i] = s.started[i]
      /\ started[i] # NoTick => s.started[i] = started[i]
  <2>1. r.started[i] = s.started[i] \/ s.started[i] = NoTick
    BY <1>1, <1>4 DEF Grown
  <2> QED BY <1>1, <1>2, <1>5, <2>1
<1>10. low => b
  BY DEF low
\* Before a turn that finds the source burning, the count is the length of the run.
<1>11. ASSUME b, started[i] = NoTick
       PROVE  /\ tick - n + 1 .. tick \subseteq heldAt[i]
              /\ tick - n \notin heldAt[i]
  <2>1. Counted(i) /\ handled[src] = NoTick
    BY <1>1, <1>2, <1>7, <1>11 DEF CityInv
  <2>2. CASE n = 0 /\ heldAt[i] = {}
    BY <1>1, <2>2
  <2>3. CASE n < F /\ tick - n + 1 .. tick \subseteq heldAt[i] /\ tick - n \notin heldAt[i]
    BY <2>3
  <2> QED BY <2>1, <2>2, <2>3 DEF Counted
<1>12. s.started[i] = NoTick => started[i] = NoTick
  BY <1>9
<1>13. ASSUME started'[i] = NoTick PROVE Counted(i)'
  <2>1. s.started[i] = NoTick /\ started[i] = NoTick
    BY <1>9, <1>13
  <2>2. CASE ~b
    <3>1. CASE handled'[src] # NoTick
      BY <3>1 DEF Counted
    <3>2. CASE handled'[src] = NoTick
      <4>1. started[src] = NoTick /\ handled[src] = NoTick
        BY <1>1, <1>2, <1>3, <1>7, <2>2, <3>2
      <4>2. Counted(i)
        BY <2>1 DEF CityInv
      <4>3. n = 0 /\ heldAt[i] = {}
        BY <4>1, <4>2 DEF Counted
      <4>4. below'[i] = 0 /\ heldAt'[i] = {}
        BY <1>8, <1>10, <2>1, <2>2, <4>3
      <4>5. below'[i] < F /\ now - 0 + 1 .. now \subseteq heldAt'[i] /\ now - 0 \notin heldAt'[i]
        BY <1>1, <4>4
      <4> QED BY <1>2, <4>4, <4>5 DEF Counted
    <3> QED BY <3>1, <3>2
  <2>3. CASE b /\ ~low
    <3>1. below'[i] = 0 /\ heldAt'[i] = heldAt[i]
      BY <1>8, <2>1, <2>3
    <3>2. now - 0 + 1 .. now \subseteq heldAt'[i] /\ now - 0 \notin heldAt'[i] /\ 0 < F
      BY <1>1, <3>1
    <3> QED BY <1>2, <1>7, <2>3, <3>1, <3>2 DEF Counted
  <2>4. CASE low
    <3>1. n + 1 < F /\ below'[i] = n + 1 /\ heldAt'[i] = heldAt[i] \cup {now}
      BY <1>1, <1>3, <1>8, <1>10, <1>13, <2>1, <2>4
    <3>2. tick - n + 1 .. tick \subseteq heldAt[i] /\ tick - n \notin heldAt[i]
      BY <1>10, <1>11, <2>1, <2>4
    <3>3. now - (n + 1) + 1 .. now \subseteq heldAt'[i]
      <4> SUFFICES ASSUME NEW t \in now - (n + 1) + 1 .. now PROVE t \in heldAt'[i]
        OBVIOUS
      <4>1. t = now \/ t \in tick - n + 1 .. tick
        BY <1>1
      <4> QED BY <3>1, <3>2, <4>1
    <3>4. now - (n + 1) \notin heldAt'[i]
      <4>1. now - (n + 1) = tick - n /\ now - (n + 1) # now
        BY <1>1
      <4> QED BY <3>1, <3>2, <4>1
    <3> QED BY <1>2, <1>7, <1>10, <2>4, <3>1, <3>3, <3>4 DEF Counted
  <2> QED BY <1>6, <2>2, <2>3, <2>4
<1>14. ASSUME s.started[i] = NoTick, started'[i] # NoTick
       PROVE  started'[i] = now /\ now - F + 1 .. now \subseteq heldAt'[i]
  <2>1. low /\ n + 1 >= F /\ started'[i] = now /\ heldAt'[i] = heldAt[i] \cup {now}
    BY <1>8, <1>14
  <2>2. tick - n + 1 .. tick \subseteq heldAt[i]
    BY <1>10, <1>11, <1>12, <1>14, <2>1
  <2>3. ASSUME NEW t \in now - F + 1 .. now PROVE t \in heldAt'[i]
    <3>1. t = now \/ t \in tick - n + 1 .. tick
      BY <1>1, <2>1
    <3> QED BY <2>1, <2>2, <3>1
  <2> QED BY <2>1, <2>3
<1>15. ASSUME s.started[i] = NoTick, now - F + 1 .. now \subseteq heldAt'[i]
       PROVE  started'[i] = now
  <2>1. now \in heldAt'[i] /\ now \notin heldAt[i]
    BY <1>1, <1>15
  <2>2. low /\ heldAt'[i] = heldAt[i] \cup {now}
    BY <1>8, <2>1
  <2>3. tick - n \notin heldAt[i]
    BY <1>10, <1>11, <1>12, <1>15, <2>2
  <2>4. tick - n \notin now - F + 1 .. now
    <3>1. tick - n # now
      BY <1>1
    <3> HIDE DEF F, n, now
    <3> QED BY <1>15, <2>2, <2>3, <3>1
  <2>5. n + 1 >= F
    BY <1>1, <2>4
  <2> QED BY <1>8, <1>15, <2>2, <2>5
<1> QED BY <1>1, <1>2, <1>8, <1>9, <1>13, <1>14, <1>15

(* The levels after a tick, and the floor that generators hold. *)
LEMMA TickLevels ==
  ASSUME CityInv, CityStep
  PROVE  /\ level' \in Levels
         /\ \A d \in District : backupUntil[d] # NoTick /\ backupUntil[d] > tick + 1
              => level'[d]["power"] >= 40
<1>1. PICK active, due : \E list \in Seq(Incident) :
        level' = BackedUp(Worked(Scheduled(Pressed(level, active, list), due)), tick + 1)
  BY TickRuns
<1>2. PICK list \in Seq(Incident) :
        level' = BackedUp(Worked(Scheduled(Pressed(level, active, list), due)), tick + 1)
  BY <1>1
<1>3. level \in Levels
  BY DEF CityInv, CityTypes, Levels
<1> DEFINE worked == Worked(Scheduled(Pressed(level, active, list), due))
<1>4. worked \in Levels
  BY <1>3, PressedType, ScheduledType, WorkedType
<1> HIDE DEF worked
<1>5. level' = BackedUp(worked, tick + 1)
  BY <1>2 DEF worked
<1> QED BY <1>4, <1>5, BackedUpFloor

(* The rest of a tick: first actions, charges and generators. *)
LEMMA TickRest ==
  ASSUME CityInv, CityStep
  PROVE  /\ firstAction' \in [Incident -> Moment]
         /\ \A i \in Incident : firstAction'[i] # firstAction[i]
              => firstAction[i] = NoTick /\ firstAction'[i] = tick + 1
         /\ delayPoints' = DelayPoints(tick + 1, started', firstAction')
         /\ backupUntil' = [d \in District |->
              IF backupUntil[d] # NoTick /\ backupUntil[d] <= tick + 1 THEN NoTick
              ELSE backupUntil[d]]
         /\ backupsAt' = backupsAt
<1>1. /\ delayPoints' = DelayPoints(tick + 1, started', firstAction')
      /\ backupUntil' = [d \in District |->
           IF backupUntil[d] # NoTick /\ backupUntil[d] <= tick + 1 THEN NoTick
           ELSE backupUntil[d]]
      /\ backupsAt' = backupsAt
      /\ \E fought : firstAction' =
           [i \in Incident |-> IF i \in fought /\ firstAction[i] = NoTick
                               THEN tick + 1 ELSE firstAction[i]]
  BY DEF CityStep
<1>2. tick + 1 \in Moment /\ firstAction \in [Incident -> Moment]
  BY DEF CityInv, CityTypes, Moment
<1>3. PICK fought : firstAction' =
           [i \in Incident |-> IF i \in fought /\ firstAction[i] = NoTick
                               THEN tick + 1 ELSE firstAction[i]]
  BY <1>1
<1>4. firstAction' \in [Incident -> Moment]
  BY <1>2, <1>3
<1>5. \A i \in Incident : firstAction'[i] # firstAction[i]
        => firstAction[i] = NoTick /\ firstAction'[i] = tick + 1
  BY <1>3
<1> QED BY <1>1, <1>4, <1>5

(* A tick keeps the chains' accounts. *)
LEMMA TickChains ==
  ASSUME CityInv, NEW s, NEW v, Ran(s, v)
  PROVE  /\ started' \in [Incident -> Moment] /\ handled' \in [Incident -> Moment]
         /\ \A i \in Incident : started'[i] # NoTick => started'[i] <= tick + 1
         /\ occurred' \in Seq(Incident) /\ below' \in [Triggered -> Nat]
         /\ heldAt' \in [Triggered -> SUBSET (1 .. tick + 1)]
         /\ chained' \subseteq Triggered
         /\ Lists(occurred', started')
         /\ \A i \in Triggered : started'[i] = NoTick => Counted(i)'
         /\ \A i \in chained' : started'[i] \in Nat
         /\ ChainsOnSustained'
         /\ \A i \in Incident : started[i] # NoTick => started'[i] = started[i]
         /\ \A i \in Incident : handled[i] # NoTick => handled'[i] = handled[i]
<1> DEFINE now == tick + 1
           r   == [started |-> started', below |-> below', held |-> heldAt']
<1>1. /\ v.tick = now /\ tick' = now /\ v.handled = handled' /\ Reading(v)
      /\ \A j \in Incident : handled[j] # NoTick => handled'[j] = handled[j]
      /\ \A j \in Incident : s.started[j] # started[j] => started[j] = NoTick /\ s.started[j] = now
      /\ started' = Monitored(s, v).started /\ occurred' = Monitored(s, v).occurred
      /\ below' = Monitored(s, v).below /\ heldAt' = Monitored(s, v).held
      /\ chained' = chained \cup {i \in Incident : started'[i] # s.started[i]}
  BY DEF Ran
<1>2. /\ Monitored(s, v) \in Roll(now) /\ Lists(occurred', started') /\ Grown(s, r, v)
  BY TickTurns
<1>3. /\ started' \in [Incident -> Moment] /\ occurred' \in Seq(Incident)
      /\ below' \in [Triggered -> Nat] /\ heldAt' \in [Triggered -> SUBSET (1 .. now)]
  BY <1>1, <1>2 DEF Roll
<1>4. handled' \in [Incident -> Moment]
  BY <1>1 DEF Reading
<1>5. /\ tick \in Nat /\ Triggered \subseteq Incident /\ chained \subseteq Triggered
      /\ \A i \in Incident : started[i] # NoTick => started[i] <= tick
      /\ started \in [Incident -> Moment]
      /\ \A i \in chained : started[i] \in Nat
      /\ ChainsOnSustained
  BY CityAssumption DEF CityInv, CityTypes
<1>6. now # NoTick /\ now \in Nat
  BY <1>5, NullAssumption
<1>7. \A i \in Incident :
        \/ started'[i] = s.started[i]
        \/ i \in Triggered /\ s.started[i] = NoTick /\ started'[i] = now
  BY <1>1, <1>2 DEF Grown
<1>8. \A i \in Incident : started[i] # NoTick => started'[i] = started[i]
  BY <1>1, <1>7
<1>9. \A i \in Incident : started'[i] # NoTick => started'[i] <= now
  <2> SUFFICES ASSUME NEW i \in Incident, started'[i] # NoTick PROVE started'[i] <= now
    OBVIOUS
  <2>1. CASE started'[i] = now
    BY <1>6, <2>1
  <2>2. CASE started'[i] = started[i]
    <3>1. started[i] \in Nat /\ started[i] <= tick
      BY <1>5, <2>2 DEF Moment
    <3> QED BY <1>5, <2>2, <3>1
  <2> QED BY <1>1, <1>7, <2>1, <2>2
<1>10. chained' \subseteq Triggered
  BY <1>1, <1>5, <1>7
<1>11. \A i \in Triggered : started'[i] = NoTick => Counted(i)'
  BY ChainTurn
<1>12. ASSUME NEW i \in chained'
       PROVE  started'[i] \in Nat /\ Sustained(i, started[i])'
  <2>1. i \in Triggered /\ i \in Incident
    BY <1>5, <1>10
  <2>2. heldAt[i] \subseteq heldAt'[i]
    BY <2>1, ChainTurn
  <2>3. CASE i \in chained
    <3>1. started'[i] = started[i] /\ started[i] \in Nat /\ Sustained(i, started[i])
      BY <1>5, <1>8, <2>1, <2>3, NullAssumption DEF ChainsOnSustained
    <3> QED BY <2>2, <3>1 DEF Sustained
  <2>4. CASE i \notin chained
    <3>1. s.started[i] = NoTick /\ started'[i] = now
      BY <1>1, <1>7, <2>1, <2>4
    <3>2. now - ChainOf[i].forTicks + 1 .. now \subseteq heldAt'[i]
      BY <1>6, <2>1, <3>1, ChainTurn
    <3> QED BY <1>6, <3>1, <3>2 DEF Sustained
  <2> QED BY <2>3, <2>4
<1>13. ASSUME NEW i \in Triggered, NEW t \in 1 .. now, Sustained(i, t)'
       PROVE  started'[i] # NoTick /\ started'[i] <= t
  <2>0. ChainOf[i].forTicks \in Nat \ {0} /\ i \in Incident
    BY CityAssumption
  <2>1. /\ heldAt[i] \in SUBSET (1 .. tick)
        /\ heldAt'[i] = heldAt[i] \/ heldAt'[i] = heldAt[i] \cup {now}
    BY ChainTurn
  <2>2. t - ChainOf[i].forTicks + 1 .. t \subseteq heldAt'[i]
    BY <1>13 DEF Sustained
  <2>3. CASE t \in 1 .. tick
    <3>1. \A u \in t - ChainOf[i].forTicks + 1 .. t : u # now
      BY <1>5, <2>0, <2>3
    <3>2. Sustained(i, t)
      <4> HIDE DEF now
      <4> QED BY <2>1, <2>2, <3>1 DEF Sustained
    <3>3. started[i] # NoTick /\ started[i] <= t
      BY <1>5, <2>3, <3>2 DEF ChainsOnSustained
    <3> QED BY <1>8, <2>0, <3>3
  <2>4. CASE t = now
    <3>1. CASE s.started[i] = NoTick
      <4>1. started'[i] = now
        BY <2>2, <2>4, <3>1, ChainTurn
      <4> QED BY <1>6, <2>4, <4>1
    <3>2. CASE s.started[i] # NoTick
      <4>1. started'[i] = s.started[i]
        BY <1>7, <2>0, <3>2
      <4>2. started'[i] # NoTick
        BY <3>2, <4>1
      <4> QED BY <1>9, <2>0, <2>4, <4>2
    <3> QED BY <3>1, <3>2
  <2> QED BY <1>5, <2>3, <2>4
<1>14. ChainsOnSustained'
  BY <1>1, <1>10, <1>12, <1>13 DEF ChainsOnSustained
<1> QED BY <1>1, <1>2, <1>3, <1>4, <1>8, <1>9, <1>10, <1>11, <1>12, <1>14

----------------------------------------------------------------------------
(***************************************************************************)
(* Commands.                                                               *)
(***************************************************************************)

(* What a command may do to the city. *)
Commanded ==
  /\ UNCHANGED <<tick, occurred, started, handled, chained, below, heldAt>>
  /\ level' \in Levels
  /\ \/ UNCHANGED <<firstAction, delayPoints>>
     \/ Rescored /\ \E d \in District : Responded(d)
  /\ \/ UNCHANGED <<backupUntil, backupsAt>>
     \/ \E d \in District :
          /\ backupUntil[d] = NoTick
          /\ backupUntil' = [backupUntil EXCEPT ![d] = tick + BackupTicks]
          /\ backupsAt' = [backupsAt EXCEPT ![d] = @ \cup {tick}]

(* An advisory changes levels to levels. *)
LEMMA AdvisedType ==
  ASSUME NEW d \in District, NEW kind, level \in Levels
  PROVE  Advised(d, kind) \in Levels
<1> DEFINE traffic == IF kind = "info" THEN -3 ELSE IF ~Unwarranted(d, kind) THEN 0
                      ELSE IF kind = "evacuation" THEN -20 ELSE -8
           risk    == IF kind = "evacuation" THEN (IF Unwarranted(d, kind) THEN 5 ELSE -5)
                      ELSE IF kind = "warning" /\ ~Unwarranted(d, kind) THEN -3 ELSE 0
<1>1. traffic \in Int /\ risk \in Int /\ "traffic" \in Attribute /\ "populationRisk" \in Attribute
  BY DEF Attribute
<1> HIDE DEF traffic, risk
<1>2. Changed(Changed(level, d, "traffic", traffic), d, "populationRisk", risk) \in Levels
  BY <1>1, ChangedType
<1> QED BY <1>2 DEF Advised, traffic, risk

(* Every command does no more. *)
LEMMA CommandDoes ==
  ASSUME CityInv, CityNext, ~CityStep
  PROVE  Commanded
<1>1. PICK k \in Key :
        \/ \E t \in Team, d \in District, task \in Task : DispatchTo(t, d, task, k)
        \/ OtherTeamCommand(k)
        \/ \E from, to \in District : ReroutePower(from, to, k)
        \/ \E d \in District : ActivateBackup(d, k)
        \/ \E d \in District, kind \in {"info", "warning", "evacuation"} : IssueAdvisory(d, kind, k)
  BY DEF CityNext
<1>2. level \in Levels
  BY DEF CityInv, CityTypes, Levels
\* A refused command, or one of a team that is no response.
<1>3. ASSUME UNCHANGED cityVars, tick' = tick PROVE Commanded
  BY <1>2, <1>3 DEF Commanded, cityVars, incidentVars, resourceVars, scoreVars
<1>4. CASE \E t \in Team, d \in District, task \in Task : DispatchTo(t, d, task, k)
  <2>1. PICK t \in Team, d \in District, task \in Task : DispatchTo(t, d, task, k)
    BY <1>4
  <2>2. tick' = tick /\ UNCHANGED <<level, incidentVars, resourceVars>>
    BY <2>1 DEF DispatchTo, DispatchTeam, Issue, clockVars
  <2>3. CASE Accepted
    BY <1>2, <2>1, <2>2, <2>3 DEF DispatchTo, Commanded, incidentVars, resourceVars
  <2>4. CASE ~Accepted
    <3>1. firstAction' = firstAction /\ delayPoints' = DelayPoints(tick, started, firstAction')
      BY <2>1, <2>4 DEF DispatchTo, Rescored
    <3>2. delayPoints' = delayPoints
      BY <3>1 DEF CityInv
    <3> QED BY <1>2, <2>2, <3>1, <3>2 DEF Commanded, incidentVars, resourceVars
  <2> QED BY <2>3, <2>4
<1>5. CASE OtherTeamCommand(k)
  <2>1. tick' = tick
    BY <1>5 DEF OtherTeamCommand, CancelOrder, SetRouteClosed, Issue, clockVars
  <2> QED BY <1>3, <1>5, <2>1 DEF OtherTeamCommand
<1>6. CASE \E from, to \in District : ReroutePower(from, to, k)
  <2>1. PICK from \in District, to \in District : ReroutePower(from, to, k)
    BY <1>6
  <2>2. tick' = tick
    BY <2>1 DEF ReroutePower, Issue, clockVars
  <2>3. CASE UNCHANGED cityVars
    BY <1>3, <2>2, <2>3
  <2>4. CASE ~UNCHANGED cityVars
    <3>1. /\ level' = Changed(Changed(level, from, "power", -10), to, "power", 15)
          /\ Responded(to) /\ Rescored /\ UNCHANGED <<incidentVars, resourceVars>>
      BY <2>1, <2>4 DEF ReroutePower
    <3>2. "power" \in Attribute /\ -10 \in Int /\ 15 \in Int
      BY DEF Attribute
    <3>3. level' \in Levels
      BY <1>2, <3>1, <3>2, ChangedType
    <3> QED BY <2>2, <3>1, <3>3 DEF Commanded, incidentVars, resourceVars
  <2> QED BY <2>3, <2>4
<1>7. CASE \E d \in District : ActivateBackup(d, k)
  <2>1. PICK d \in District : ActivateBackup(d, k)
    BY <1>7
  <2>2. tick' = tick
    BY <2>1 DEF ActivateBackup, Issue, clockVars
  <2>3. CASE UNCHANGED cityVars
    BY <1>3, <2>2, <2>3
  <2>4. CASE ~UNCHANGED cityVars
    <3>1. /\ backupUntil[d] = NoTick
          /\ backupUntil' = [backupUntil EXCEPT ![d] = tick + BackupTicks]
          /\ backupsAt' = [backupsAt EXCEPT ![d] = @ \cup {tick}]
          /\ Responded(d) /\ Rescored /\ UNCHANGED <<level, incidentVars>>
      BY <2>1, <2>4 DEF ActivateBackup, CanStartBackup
    <3> QED BY <1>2, <2>2, <3>1 DEF Commanded, incidentVars
  <2> QED BY <2>3, <2>4
<1>8. CASE \E d \in District, kind \in {"info", "warning", "evacuation"} : IssueAdvisory(d, kind, k)
  <2>1. PICK d \in District, kind \in {"info", "warning", "evacuation"} : IssueAdvisory(d, kind, k)
    BY <1>8
  <2>2. tick' = tick
    BY <2>1 DEF IssueAdvisory, Issue, clockVars
  <2>3. CASE UNCHANGED cityVars
    BY <1>3, <2>2, <2>3
  <2>4. CASE ~UNCHANGED cityVars
    <3>1. /\ level' = Advised(d, kind) /\ Responded(d) /\ Rescored
          /\ UNCHANGED <<incidentVars, backupUntil, backupsAt>>
      BY <2>1, <2>4 DEF IssueAdvisory
    <3>2. level' \in Levels
      BY <1>2, <3>1, AdvisedType
    <3> QED BY <2>2, <3>1, <3>2 DEF Commanded, incidentVars
  <2> QED BY <2>3, <2>4
<1> QED BY <1>1, <1>4, <1>5, <1>6, <1>7, <1>8

(* It charges nothing less: what it answers is charged up to now. *)
LEMMA CommandCharges ==
  ASSUME CityInv, Commanded
  PROVE  /\ firstAction' \in [Incident -> Moment]
         /\ delayPoints' = DelayPoints(tick, started, firstAction')
         /\ delayPoints' >= delayPoints
<1>1. /\ tick \in Nat /\ started \in [Incident -> Moment] /\ firstAction \in [Incident -> Moment]
      /\ delayPoints = DelayPoints(tick, started, firstAction)
  BY DEF CityInv, CityTypes
<1>2. \A i \in Incident : started[i] # NoTick => started[i] = started[i]
        /\ Until(tick, firstAction, i) <= Until(tick, firstAction, i)
  BY <1>1 DEF Until, Moment
<1>3. CASE UNCHANGED <<firstAction, delayPoints>>
  <2>1. delayPoints >= delayPoints
    BY <1>1, <1>2, DelayGrows
  <2> QED BY <1>1, <1>3, <2>1
<1>4. CASE Rescored /\ \E d \in District : Responded(d)
  <2>1. /\ delayPoints' = DelayPoints(tick, started, firstAction')
        /\ \E d \in District : firstAction' =
             [i \in Incident |-> IF Active(i) /\ Def[i].district = d /\ firstAction[i] = NoTick
                                 THEN tick ELSE firstAction[i]]
    BY <1>4 DEF Rescored, Responded
  <2>2. PICK d \in District : firstAction' =
             [i \in Incident |-> IF Active(i) /\ Def[i].district = d /\ firstAction[i] = NoTick
                                 THEN tick ELSE firstAction[i]]
    BY <2>1
  <2>3. firstAction' \in [Incident -> Moment]
    BY <1>1, <2>2 DEF Moment
  <2>4. \A i \in Incident : Until(tick, firstAction', i) = Until(tick, firstAction, i)
    BY <2>2 DEF Until
  <2>5. delayPoints' >= delayPoints
    BY <1>1, <1>2, <2>1, <2>3, <2>4, DelayGrows
  <2> QED BY <2>1, <2>3, <2>5
<1> QED BY <1>3, <1>4 DEF Commanded

----------------------------------------------------------------------------
(***************************************************************************)
(* The invariant.                                                          *)
(***************************************************************************)

(* It holds of a new session. *)
LEMMA InitInv ==
  ASSUME CityInit
  PROVE  CityInv
<1>1. /\ tick = 0 /\ level = StartLevel /\ occurred = <<>>
      /\ started = [i \in Incident |-> NoTick] /\ handled = [i \in Incident |-> NoTick]
      /\ chained = {} /\ below = [i \in Triggered |-> 0]
      /\ firstAction = [i \in Incident |-> NoTick] /\ delayPoints = 0
      /\ backupUntil = [d \in District |-> NoTick] /\ heldAt = [i \in Triggered |-> {}]
      /\ backupsAt = [d \in District |-> {}]
  BY DEF CityInit, Init
<1>2. level \in [District -> [Attribute -> Int]]
  <2>1. StartLevel \in [District -> [Attribute -> 0 .. 100]] /\ 0 .. 100 \subseteq Int
    BY CityAssumption
  <2>2. \A d \in District : StartLevel[d] \in [Attribute -> Int]
    BY <2>1
  <2> QED BY <1>1, <2>1, <2>2
<1>3. CityTypes
  BY <1>1, <1>2 DEF CityTypes, Moment
<1>4. Lists(occurred, started)
  BY <1>1 DEF Lists
<1>5. \A i \in Triggered : Counted(i)
  BY <1>1, CityAssumption DEF Counted
<1>6. ChainsOnSustained
  BY <1>1 DEF ChainsOnSustained
<1>7. delayPoints = DelayPoints(tick, started, firstAction)
  BY <1>1, DelayZero
<1> QED BY <1>1, <1>3, <1>4, <1>5, <1>6, <1>7 DEF CityInv

(* A tick keeps it. *)
LEMMA TickInv ==
  ASSUME CityInv, CityStep
  PROVE  CityInv'
<1>1. PICK s, v : Ran(s, v)
  BY TickRuns
<1>2. tick \in Nat /\ tick' = tick + 1
  BY <1>1 DEF Ran, CityInv, CityTypes
<1>3. /\ started' \in [Incident -> Moment] /\ handled' \in [Incident -> Moment]
      /\ \A i \in Incident : started'[i] # NoTick => started'[i] <= tick'
      /\ occurred' \in Seq(Incident) /\ below' \in [Triggered -> Nat]
      /\ heldAt' \in [Triggered -> SUBSET (1 .. tick')]
      /\ chained' \subseteq Triggered
      /\ Lists(occurred', started')
      /\ \A i \in Triggered : started'[i] = NoTick => Counted(i)'
      /\ \A i \in chained' : started'[i] \in Nat
      /\ ChainsOnSustained'
  BY <1>1, <1>2, TickChains
<1>4. level' \in [District -> [Attribute -> Int]]
  BY TickLevels DEF Levels
<1>5. /\ firstAction' \in [Incident -> Moment]
      /\ delayPoints' = DelayPoints(tick', started', firstAction')
      /\ backupUntil' = [d \in District |->
           IF backupUntil[d] # NoTick /\ backupUntil[d] <= tick' THEN NoTick
           ELSE backupUntil[d]]
      /\ backupsAt' = backupsAt
  BY <1>2, TickRest
<1>6. /\ backupUntil \in [District -> Moment] /\ backupsAt \in [District -> SUBSET (0 .. tick)]
      /\ \A d \in District : \A t \in backupsAt[d] : StillRuns(d, t)
  BY DEF CityInv, CityTypes
<1>7. backupUntil' \in [District -> Moment]
  BY <1>5, <1>6 DEF Moment
<1>8. backupsAt' \in [District -> SUBSET (0 .. tick')]
  <2>1. \A n \in 0 .. tick : n \in 0 .. tick'
    BY <1>2
  <2>2. \A d \in District : backupsAt[d] \in SUBSET (0 .. tick')
    BY <1>6, <2>1
  <2> QED BY <1>5, <1>6, <2>2
<1>9. ASSUME NEW d \in District, NEW t \in backupsAt'[d] PROVE StillRuns(d, t)'
  <2>1. t \in Nat /\ StillRuns(d, t) /\ BackupTicks \in Nat /\ BackupTicks # 0
    BY <1>5, <1>6, CityAssumption
  <2>2. ASSUME tick' - t < BackupTicks
        PROVE  backupUntil'[d] # NoTick /\ backupUntil'[d] >= t + BackupTicks
    <3>1. tick - t < BackupTicks /\ t + BackupTicks > tick'
      BY <1>2, <2>1, <2>2
    <3>2. backupUntil[d] # NoTick /\ backupUntil[d] >= t + BackupTicks /\ backupUntil[d] \in Nat
      BY <1>6, <2>1, <3>1 DEF StillRuns, Moment
    <3>3. ~(backupUntil[d] <= tick')
      BY <1>2, <2>1, <3>1, <3>2
    <3> QED BY <1>5, <3>2, <3>3
  <2> QED BY <2>2 DEF StillRuns
<1>10. CityTypes'
  BY <1>2, <1>3, <1>4, <1>5, <1>7, <1>8 DEF CityTypes
<1> QED BY <1>3, <1>5, <1>9, <1>10 DEF CityInv

(* So does a command. *)
LEMMA CommandInv ==
  ASSUME CityInv, Commanded
  PROVE  CityInv'
<1>1. /\ tick' = tick /\ occurred' = occurred /\ started' = started /\ handled' = handled
      /\ chained' = chained /\ below' = below /\ heldAt' = heldAt
      /\ level' \in [District -> [Attribute -> Int]]
  BY DEF Commanded, Levels
<1>2. firstAction' \in [Incident -> Moment] /\ delayPoints' = DelayPoints(tick, started, firstAction')
  BY CommandCharges
<1>3. /\ tick \in Nat /\ backupUntil \in [District -> Moment]
      /\ backupsAt \in [District -> SUBSET (0 .. tick)]
      /\ \A d \in District : \A t \in backupsAt[d] : StillRuns(d, t)
      /\ BackupTicks \in Nat
  BY CityAssumption DEF CityInv, CityTypes
<1>4. /\ backupUntil' \in [District -> Moment] /\ backupsAt' \in [District -> SUBSET (0 .. tick)]
      /\ \A d \in District : \A t \in backupsAt'[d] : StillRuns(d, t)'
  <2>1. CASE UNCHANGED <<backupUntil, backupsAt>>
    BY <1>1, <1>3, <2>1 DEF StillRuns
  <2>2. CASE \E d \in District :
               /\ backupUntil[d] = NoTick
               /\ backupUntil' = [backupUntil EXCEPT ![d] = tick + BackupTicks]
               /\ backupsAt' = [backupsAt EXCEPT ![d] = @ \cup {tick}]
    <3>1. PICK d \in District :
               /\ backupUntil[d] = NoTick
               /\ backupUntil' = [backupUntil EXCEPT ![d] = tick + BackupTicks]
               /\ backupsAt' = [backupsAt EXCEPT ![d] = @ \cup {tick}]
      BY <2>2
    <3>2. tick + BackupTicks \in Nat /\ tick \in 0 .. tick /\ tick + BackupTicks # NoTick
      BY <1>3, NullAssumption
    <3>3. backupUntil' \in [District -> Moment]
      BY <1>3, <3>1, <3>2 DEF Moment
    <3>4. backupsAt' \in [District -> SUBSET (0 .. tick)]
      BY <1>3, <3>1, <3>2
    <3>5. ASSUME NEW e \in District, NEW t \in backupsAt'[e] PROVE StillRuns(e, t)'
      <4>1. CASE e # d
        <5>1. backupUntil'[e] = backupUntil[e] /\ backupsAt'[e] = backupsAt[e]
          BY <1>3, <3>1, <4>1
        <5>2. StillRuns(e, t)
          BY <1>3, <5>1
        <5> QED BY <1>1, <5>1, <5>2 DEF StillRuns
      <4>2. CASE e = d
        <5>1. backupUntil'[d] = tick + BackupTicks
          BY <1>3, <3>1
        <5>2. t = tick \/ t \in backupsAt[d]
          BY <1>3, <3>1, <4>2
        <5>3. CASE t = tick
          BY <1>1, <3>2, <4>2, <5>1, <5>3 DEF StillRuns
        <5>4. CASE t \in backupsAt[d]
          <6>1. StillRuns(d, t)
            BY <1>3, <5>4
          <6>2. ~(tick - t < BackupTicks)
            BY <3>1, <6>1 DEF StillRuns
          <6> QED BY <1>1, <4>2, <6>2 DEF StillRuns
        <5> QED BY <5>2, <5>3, <5>4
      <4> QED BY <4>1, <4>2
    <3> QED BY <3>3, <3>4, <3>5
  <2> QED BY <2>1, <2>2 DEF Commanded
<1>5. CityTypes'
  BY <1>1, <1>2, <1>4 DEF CityInv, CityTypes
<1>6. Lists(occurred', started') /\ \A i \in chained' : started'[i] \in Nat
  BY <1>1 DEF CityInv
<1>7. \A i \in Triggered : started'[i] = NoTick => Counted(i)'
  BY <1>1 DEF CityInv, Counted
<1>8. ChainsOnSustained'
  <2>1. ChainsOnSustained
    BY DEF CityInv
  <2> QED BY <1>1, <2>1 DEF ChainsOnSustained, Sustained
<1> QED BY <1>1, <1>2, <1>4, <1>5, <1>6, <1>7, <1>8 DEF CityInv

(* And a step that changes nothing. *)
LEMMA StutterInv ==
  ASSUME CityInv, UNCHANGED allVars
  PROVE  CityInv'
<1>1. Commanded
  BY DEF Commanded, allVars, vars, clockVars, cityVars, incidentVars, resourceVars, scoreVars,
         CityInv, CityTypes, Levels
<1> QED BY <1>1, CommandInv

LEMMA StepInv ==
  ASSUME CityInv, [CityNext]_allVars
  PROVE  CityInv'
BY CommandDoes, CommandInv, TickInv, StutterInv

----------------------------------------------------------------------------
(***************************************************************************)
(* The engine in the city.                                                 *)
(***************************************************************************)

(* A command of the city that moves no team passes the same intake: its    *)
(* key is used once, and nothing that is said of orders changes.           *)
LEMMA IntakeInvariant ==
  ASSUME IInv, WasteIsCancelledTravel, NEW k \in Key, Issue, NEW events,
         \/ Accept(k, events) /\ TeamsUnchanged
         \/ \E accepted \in BOOLEAN : Reject(k, accepted)
  PROVE  IInv' /\ WasteIsCancelledTravel'
<1>1. CASE Accept(k, events) /\ TeamsUnchanged
  <2> USE <1>1 DEF Issue, Accept, TeamsUnchanged, clockVars, teamVars, wasteVars, orderHist
  <2>1. TypeOK'
    BY BoundAssumption DEF IInv, TypeOK
  <2>2. Numbering'
    BY BoundAssumption DEF IInv, TypeOK, Numbering
  <2>3. StatusMatchesOrder' /\ HeldOrderIsLatest'
    BY DEF IInv, StatusMatchesOrder, StatusFits, HeldOrderIsLatest, LatestOf, Due
  <2>4. Underway' /\ Punctual'
    BY DEF IInv, Underway, InHand, Punctual, OnTime, Holds, Due
  <2>5. ExecutedOnce'
    BY DEF IInv, TypeOK, ExecutedOnce
  <2>6. WasteIsCancelledTravel'
    BY SameWaste DEF AbandonedTravel
  <2> QED
    BY <2>1, <2>2, <2>3, <2>4, <2>5, <2>6 DEF IInv
<1>2. ASSUME NEW accepted \in BOOLEAN, Reject(k, accepted)
      PROVE  IInv' /\ WasteIsCancelledTravel'
  <2>1. IInv'
    BY <1>2, RejectInvariant
  <2>2. WasteIsCancelledTravel'
    BY <1>2, SameWaste DEF Reject, wasteVars, orderHist, AbandonedTravel
  <2> QED BY <2>1, <2>2
<1> QED BY <1>1, <1>2

(* So the city's ticks and commands keep what is proved of the engine.     *)
LEMMA EngineStep ==
  ASSUME IInv, WasteIsCancelledTravel, [CityNext]_allVars
  PROVE  IInv' /\ WasteIsCancelledTravel'
<1>1. CASE [Next]_vars
  BY <1>1, NextInvariant, NextWaste
<1>2. ASSUME NEW k \in Key, Issue, NEW events,
             \/ Accept(k, events) /\ TeamsUnchanged
             \/ \E accepted \in BOOLEAN : Reject(k, accepted)
      PROVE  IInv' /\ WasteIsCancelledTravel'
  BY <1>2, IntakeInvariant
<1>3. CASE UNCHANGED allVars
  BY <1>1, <1>3 DEF allVars
<1>4. CASE CityStep
  BY <1>1, <1>4 DEF CityStep, Next
<1>5. ASSUME NEW k \in Key, NEW t \in Team, NEW d \in District, NEW task \in Task,
             DispatchTo(t, d, task, k)
      PROVE  IInv' /\ WasteIsCancelledTravel'
  BY <1>1, <1>5 DEF DispatchTo, Next
<1>6. ASSUME NEW k \in Key, OtherTeamCommand(k) PROVE IInv' /\ WasteIsCancelledTravel'
  BY <1>1, <1>6 DEF OtherTeamCommand, Next
<1>7. ASSUME NEW k \in Key, NEW from, NEW to, ReroutePower(from, to, k)
      PROVE  IInv' /\ WasteIsCancelledTravel'
  <2>1. (from # to) \in BOOLEAN
    OBVIOUS
  <2>2. /\ Issue
        /\ \/ Accept(k, {[kind |-> "ActionApplied"]}) /\ TeamsUnchanged
           \/ Reject(k, from # to)
    BY <1>7 DEF ReroutePower
  <2> QED BY <1>2, <2>1, <2>2
<1>8. ASSUME NEW k \in Key, NEW d, ActivateBackup(d, k)
      PROVE  IInv' /\ WasteIsCancelledTravel'
  <2>1. CanStartBackup(d) \in BOOLEAN
    BY DEF CanStartBackup
  <2> QED BY <1>2, <1>8, <2>1 DEF ActivateBackup
<1>9. ASSUME NEW k \in Key, NEW d, NEW kind, IssueAdvisory(d, kind, k)
      PROVE  IInv' /\ WasteIsCancelledTravel'
  <2>1. (advisories > 0) \in BOOLEAN
    OBVIOUS
  <2> QED BY <1>2, <1>9, <2>1 DEF IssueAdvisory
<1> QED BY <1>3, <1>4, <1>5, <1>6, <1>7, <1>8, <1>9 DEF CityNext

(* With incidents, effects and all of the city's commands around it, the   *)
(* engine's orders stay punctual and single, keys are used once, and waste *)
(* is the travel that was cancelled.                                       *)
THEOREM EngineUnderCity == CitySpec => [](IInv /\ WasteIsCancelledTravel)
<1>1. CityInit => IInv /\ WasteIsCancelledTravel
  BY InitInvariant, InitWaste DEF CityInit
<1>2. IInv /\ WasteIsCancelledTravel /\ [CityNext]_allVars => IInv' /\ WasteIsCancelledTravel'
  BY EngineStep
<1> QED BY <1>1, <1>2, PTL DEF CitySpec

----------------------------------------------------------------------------
(***************************************************************************)
(* The theorems about the city.                                            *)
(***************************************************************************)

(* The types, the list of incidents, the monitors' counts, the running     *)
(* generators and the charges are an inductive invariant of the city.      *)
THEOREM CityInvariant == CitySpec => []CityInv
<1>1. CityInit => CityInv
  BY InitInv
<1>2. CityInv /\ [CityNext]_allVars => CityInv'
  BY StepInv
<1> QED BY <1>1, <1>2, PTL DEF CitySpec

(* A chain starts exactly when its source was active and the watched level *)
(* below the threshold for the given number of ticks in a row, for any     *)
(* scenario: any order of the incidents, chains of chains, any effects,    *)
(* work and commands in between (monitorChainTrigger).                     *)
THEOREM ChainsOnSustainedCorrect == CitySpec => []ChainsOnSustained
<1>1. CityInv => ChainsOnSustained
  BY DEF CityInv
<1> QED BY <1>1, CityInvariant, PTL

(* No step moves or takes back the tick in which an incident started or    *)
(* was handled (activateIncident, processIncidents).                       *)
THEOREM OutcomeIsFinalCorrect == CitySpec => OutcomeIsFinal
<1> DEFINE Final == \A i \in Incident :
                      /\ started[i] # NoTick => started'[i] = started[i]
                      /\ handled[i] # NoTick => handled'[i] = handled[i]
<1>1. ASSUME CityInv, [CityNext]_allVars PROVE Final
  <2>1. CASE CityStep
    <3>1. PICK s, v : Ran(s, v)
      BY <1>1, <2>1, TickRuns
    <3> QED BY <1>1, <3>1, TickChains
  <2>2. CASE CityNext /\ ~CityStep
    <3>1. started' = started /\ handled' = handled
      BY <1>1, <2>2, CommandDoes DEF Commanded
    <3> QED BY <3>1
  <2>3. CASE UNCHANGED allVars
    <3>1. started' = started /\ handled' = handled
      BY <2>3 DEF allVars, cityVars, incidentVars
    <3> QED BY <3>1
  <2> QED BY <1>1, <2>1, <2>2, <2>3
<1>2. CityInv /\ [CityNext]_allVars => [Final]_allVars
  BY <1>1
<1> HIDE DEF Final
<1>3. CitySpec => [][Final]_allVars
  BY <1>2, CityInvariant, PTL DEF CitySpec
<1> QED BY <1>3 DEF OutcomeIsFinal, Final

(* A backup generator that runs on leaves its district with power at the   *)
(* end of every tick, until its time is over (processDynamics).            *)
THEOREM BackupHoldsFloorCorrect == CitySpec => BackupHoldsFloor
<1> DEFINE Floor == tick' # tick =>
                      \A d \in District : (\E t \in backupsAt[d] : tick' - t \in 1 .. BackupTicks - 1)
                                            => level'[d]["power"] >= 40
<1>1. ASSUME CityInv, [CityNext]_allVars PROVE Floor
  <2>1. CASE CityStep
    <3> SUFFICES ASSUME NEW d \in District, NEW t \in backupsAt[d],
                        tick' - t \in 1 .. BackupTicks - 1
                 PROVE  level'[d]["power"] >= 40
      OBVIOUS
    <3>1. tick' = tick + 1 /\ tick \in Nat /\ BackupTicks \in Nat
      BY <1>1, <2>1, CityAssumption DEF CityStep, Step, CityInv, CityTypes
    <3>2. /\ StillRuns(d, t) /\ t \in 0 .. tick /\ backupUntil[d] \in Moment
      BY <1>1 DEF CityInv, CityTypes
    <3>3. tick - t < BackupTicks /\ t + BackupTicks > tick + 1 /\ t + BackupTicks \in Nat
      BY <3>1, <3>2
    <3>4. backupUntil[d] # NoTick /\ backupUntil[d] >= t + BackupTicks
      BY <3>2, <3>3 DEF StillRuns
    <3>5. backupUntil[d] \in Nat
      BY <3>2, <3>4 DEF Moment
    <3>6. backupUntil[d] > tick + 1
      BY <3>1, <3>3, <3>4, <3>5
    <3> QED BY <1>1, <2>1, <3>4, <3>6, TickLevels
  <2>2. CASE CityNext /\ ~CityStep
    BY <1>1, <2>2, CommandDoes DEF Commanded
  <2>3. CASE UNCHANGED allVars
    BY <2>3 DEF allVars, vars, clockVars
  <2> QED BY <1>1, <2>1, <2>2, <2>3
<1>2. CityInv /\ [CityNext]_allVars => [Floor]_allVars
  BY <1>1
<1> HIDE DEF Floor
<1>3. CitySpec => [][Floor]_allVars
  BY <1>2, CityInvariant, PTL DEF CitySpec
<1> QED BY <1>3 DEF BackupHoldsFloor, Floor

(* Delay points never go down and stay within the limit for each incident  *)
(* that has occurred (updateDecisionDelay).                                *)
THEOREM NeglectIsChargedCorrect == CitySpec => NeglectIsCharged
<1> DEFINE Charged == /\ delayPoints' >= delayPoints
                      /\ delayPoints' <= MaxPoints * Len(occurred')
<1>1. ASSUME CityInv, [CityNext]_allVars PROVE delayPoints' >= delayPoints
  <2>0. /\ tick \in Nat /\ started \in [Incident -> Moment] /\ firstAction \in [Incident -> Moment]
        /\ delayPoints = DelayPoints(tick, started, firstAction)
    BY <1>1 DEF CityInv, CityTypes
  <2>1. CASE CityStep
    <3>1. PICK s, v : Ran(s, v)
      BY <1>1, <2>1, TickRuns
    <3>2. /\ started' \in [Incident -> Moment]
          /\ \A i \in Incident : started[i] # NoTick => started'[i] = started[i]
      BY <1>1, <3>1, TickChains
    <3>3. /\ firstAction' \in [Incident -> Moment]
          /\ \A i \in Incident : firstAction'[i] # firstAction[i]
               => firstAction[i] = NoTick /\ firstAction'[i] = tick + 1
          /\ delayPoints' = DelayPoints(tick + 1, started', firstAction')
      BY <1>1, <2>1, TickRest
    <3>4. \A i \in Incident : Until(tick, firstAction, i) <= Until(tick + 1, firstAction', i)
      <4> SUFFICES ASSUME NEW i \in Incident
                   PROVE  Until(tick, firstAction, i) <= Until(tick + 1, firstAction', i)
        OBVIOUS
      <4>1. firstAction[i] \in Moment /\ firstAction'[i] \in Moment
        BY <2>0, <3>3
      <4> QED BY <2>0, <3>3, <4>1 DEF Until, Moment
    <3>5. tick + 1 \in Nat
      BY <2>0
    <3> QED BY <2>0, <3>2, <3>3, <3>4, <3>5, DelayGrows
  <2>2. CASE CityNext /\ ~CityStep
    BY <1>1, <2>2, CommandDoes, CommandCharges
  <2>3. CASE UNCHANGED allVars
    <3>1. delayPoints' = delayPoints
      BY <2>3 DEF allVars, cityVars, scoreVars
    <3>2. \A i \in Incident : Until(tick, firstAction, i) <= Until(tick, firstAction, i)
      BY <2>0 DEF Until, Moment
    <3>3. delayPoints >= delayPoints
      BY <2>0, <3>2, DelayGrows
    <3> QED BY <3>1, <3>3
  <2> QED BY <1>1, <2>1, <2>2, <2>3
<1>2. ASSUME CityInv' PROVE delayPoints' <= MaxPoints * Len(occurred')
  <2>1. /\ tick' \in Nat /\ started' \in [Incident -> Moment] /\ firstAction' \in [Incident -> Moment]
        /\ occurred' \in Seq(Incident) /\ Lists(occurred', started')
        /\ delayPoints' = DelayPoints(tick', started', firstAction')
    BY <1>2 DEF CityInv, CityTypes
  <2> QED BY <2>1, DelayBounded
<1>3. CityInv /\ CityInv' /\ [CityNext]_allVars => [Charged]_allVars
  BY <1>1, <1>2
<1> HIDE DEF Charged
<1>4. CitySpec => [][Charged]_allVars
  BY <1>3, CityInvariant, PTL DEF CitySpec
<1> QED BY <1>4 DEF NeglectIsCharged, Charged
================================================================================

------------------------- MODULE SessionRecord_proofs -------------------------
(***************************************************************************)
(* Proofs about SessionRecord: the truth log and the ledger of public      *)
(* actions each rebuild the run they record.                               *)
(*                                                                         *)
(* The argument has three layers.  First, nothing the engine or the bridge *)
(* does looks at what the engine has logged so far (the lemmas ...Alike):  *)
(* an engine can be moved to another log and goes on as before.  Then, the *)
(* inductive invariants: the commands of an engine's log retrace the       *)
(* engine (Traceable), and the actions of the ledger rebuild the run up to *)
(* what a caller may add to a verification and the ledger leaves out       *)
(* (Rebuilds, PlainRun).  Last, an envelope out of place breaks the chain. *)
(***************************************************************************)
EXTENDS SessionRecord, TLAPS

(* The folds of the model, as instances of the laws of FoldLaws.           *)
Filters   == INSTANCE FoldLaws WITH Op <- LAMBDA S, kept, x : IF x \in S THEN Append(kept, x) ELSE kept
Starts    == INSTANCE FoldLaws WITH Op <- LAMBDA p, e, i : Occurs(e, i)
Efforts   == INSTANCE FoldLaws WITH Op <- LAMBDA p, e, i : Fights(e, i)
Arrivals  == INSTANCE FoldLaws WITH Op <- LAMBDA p, e, t : Arrives(e, t)
Reports   == INSTANCE FoldLaws WITH Op <- LAMBDA p, e, w : Creates(e, w)
Deliveries == INSTANCE FoldLaws WITH Op <- LAMBDA p, e, a : Delivers(e, a)
Scores    == INSTANCE FoldLaws WITH Op <- LAMBDA p, e, c : Scored(e, c)
Resolves  == INSTANCE FoldLaws WITH
  Op <- LAMBDA p, found, ev : IF ev.kind = "IncidentResolved" THEN Append(found, ev.data.incident)
                              ELSE found

----------------------------------------------------------------------------
(* A sequence of whatever elements: the logs hold events of many shapes.   *)
IsSeq(s) == \E S : s \in Seq(S)

(* The state of the engine (engine.ts) by its fields.                      *)
EngineField ==
  {"tick", "phase", "seed", "rng", "commands", "orders", "teams", "incidents", "awaited", "aloft",
   "delivered", "handled", "wasted", "keys", "score", "log"}
IsEngine(e) ==
  /\ e = [f \in EngineField |-> e[f]]
  /\ e.tick \in Nat
  /\ IsSeq(e.awaited) /\ IsSeq(e.aloft) /\ IsSeq(e.log)

(* The engine e with the log l before its own: nothing the engine does     *)
(* looks at what it logged, and this is how that is said.                  *)
Onto(l, e) == [e EXCEPT !.log = l \o @]

(* The kinds of event that mark the start, the commands and the end of a   *)
(* run: a tick or a score adds others only.                                *)
Apart ==
  {"ScenarioStarted", "CommandIssued", "CommandAccepted", "CommandRejected", "ScenarioCompleted",
   "SessionStarted", "CommandResult", "RunCompleted"}
(* Events of one tick, none of them of those kinds.                        *)
Quiet(ext, tick) ==
  /\ IsSeq(ext)
  /\ \A n \in DOMAIN ext : ext[n].kind \notin Apart /\ ext[n].tick = tick
(* The incidents the engine counts as handled are those its log resolves.  *)
Tally(e) == e.handled = Resolved(e.log)
(* An event as emit and emitPublic log it.                                 *)
Event(kind, tick, data) == [kind |-> kind, tick |-> tick, data |-> data]
(* r is e with one more event and nothing else changed. *)
Grown(e, r, ev) ==
  /\ IsEngine(r)
  /\ r.log = Append(e.log, ev) /\ r.log = e.log \o <<ev>>
  /\ \A f \in EngineField \ {"log"} : r[f] = e[f]
(* r is e after work within a tick: clock, seed, phase and the number of   *)
(* commands as they were, the log longer by quiet events, the count of the *)
(* handled still right.                                                    *)
Keeps(e, r) ==
  /\ IsEngine(r)
  /\ r.tick = e.tick /\ r.seed = e.seed /\ r.phase = e.phase /\ r.commands = e.commands
  /\ \E ext : Quiet(ext, e.tick) /\ r.log = e.log \o ext
  /\ Tally(e) => Tally(r)

(* r follows from e by such work, and with l before the log the result is  *)
(* s: r with l before it.                                                  *)
Alike(l, e, r, s) == Keeps(e, r) /\ s = Onto(l, r)

(* Appending and concatenating keep sequences and associate.               *)
LEMMA SeqAppend ==
  ASSUME NEW l, NEW m, NEW x, IsSeq(l), IsSeq(m)
  PROVE  /\ IsSeq(Append(l, x)) /\ IsSeq(l \o m)
         /\ Append(l \o m, x) = l \o Append(m, x)
         /\ Append(m, x) = m \o <<x>>
         /\ l \o <<>> = l
<1>1. PICK S : l \in Seq(S)
  BY DEF IsSeq
<1>2. PICK T : m \in Seq(T)
  BY DEF IsSeq
<1> DEFINE U == S \cup T \cup {x}
<1>3. l \in Seq(U) /\ m \in Seq(U) /\ x \in U
  BY <1>1, <1>2
<1> HIDE DEF U
<1>4. Append(l, x) \in Seq(U) /\ l \o m \in Seq(U)
  BY <1>3
<1>5. Append(l \o m, x) = l \o Append(m, x)
  BY <1>3
<1>6. Append(m, x) = m \o <<x>>
  BY <1>3
<1>7. l \o <<>> = l
  BY <1>3
<1> QED BY <1>4, <1>5, <1>6, <1>7 DEF IsSeq

(* The empty and the one-element sequence are sequences.                   *)
LEMMA SeqShort ==
  ASSUME NEW x
  PROVE  IsSeq(<<>>) /\ IsSeq(<<x>>)
<1> DEFINE one == <<x>>
           none == <<>>
<1>1. one \in Seq({x}) /\ none \in Seq({x})
  OBVIOUS
<1> HIDE DEF one, none
<1>2. IsSeq(one) /\ IsSeq(none)
  BY <1>1 DEF IsSeq
<1> QED BY <1>2 DEF one, none

(* Concatenation associates.                                               *)
LEMMA SeqConcat ==
  ASSUME NEW l, NEW m, NEW k, IsSeq(l), IsSeq(m), IsSeq(k)
  PROVE  (l \o m) \o k = l \o (m \o k) /\ IsSeq(m \o k)
<1>1. PICK S : l \in Seq(S)
  BY DEF IsSeq
<1>2. PICK T : m \in Seq(T)
  BY DEF IsSeq
<1>3. PICK R : k \in Seq(R)
  BY DEF IsSeq
<1> DEFINE U == S \cup T \cup R
<1>4. l \in Seq(U) /\ m \in Seq(U) /\ k \in Seq(U)
  BY <1>1, <1>2, <1>3
<1> HIDE DEF U
<1>5. m \o k \in Seq(U)
  BY <1>4
<1>6. (l \o m) \o k = l \o (m \o k)
  BY <1>4
<1> QED BY <1>5, <1>6 DEF IsSeq

(* The elements of a concatenation are those of its parts.                 *)
LEMMA SeqParts ==
  ASSUME NEW l, NEW m, IsSeq(l), IsSeq(m)
  PROVE  /\ Len(l) \in Nat /\ Len(m) \in Nat /\ Len(l \o m) = Len(l) + Len(m)
         /\ DOMAIN l = 1 .. Len(l) /\ DOMAIN m = 1 .. Len(m)
         /\ DOMAIN (l \o m) = 1 .. Len(l) + Len(m)
         /\ \A n \in 1 .. Len(l) : (l \o m)[n] = l[n]
         /\ \A n \in 1 .. Len(m) : (l \o m)[Len(l) + n] = m[n]
<1>1. PICK S : l \in Seq(S)
  BY DEF IsSeq
<1>2. PICK T : m \in Seq(T)
  BY DEF IsSeq
<1> DEFINE U == S \cup T
<1>3. l \in Seq(U) /\ m \in Seq(U)
  BY <1>1, <1>2
<1> HIDE DEF U
<1>4. l \o m \in Seq(U) /\ Len(l \o m) = Len(l) + Len(m) /\ Len(l) \in Nat /\ Len(m) \in Nat
  BY <1>3
<1>5. DOMAIN l = 1 .. Len(l) /\ DOMAIN m = 1 .. Len(m) /\ DOMAIN (l \o m) = 1 .. Len(l \o m)
  BY <1>3, <1>4
<1>6. \A n \in 1 .. Len(l) : (l \o m)[n] = l[n]
  BY <1>3
<1>7. \A n \in 1 .. Len(m) : (l \o m)[Len(l) + n] = m[n]
  BY <1>3
<1> QED BY <1>4, <1>5, <1>6, <1>7

(* Quiet events after quiet events of the same tick are quiet.             *)
LEMMA QuietConcat ==
  ASSUME NEW l, NEW m, NEW tick, Quiet(l, tick), Quiet(m, tick)
  PROVE  Quiet(l \o m, tick)
<1>1. IsSeq(l) /\ IsSeq(m)
  BY DEF Quiet
<1>2. IsSeq(l \o m)
  BY <1>1, SeqAppend
<1>3. ASSUME NEW n \in DOMAIN (l \o m)
      PROVE  (l \o m)[n].kind \notin Apart /\ (l \o m)[n].tick = tick
  <2>1. CASE n \in 1 .. Len(l)
    BY <1>1, <2>1, SeqParts DEF Quiet
  <2>2. CASE n \notin 1 .. Len(l)
    <3>1. /\ Len(l) \in Nat /\ Len(m) \in Nat /\ n \in 1 .. Len(l) + Len(m)
      BY <1>1, SeqParts
    <3>2. n - Len(l) \in 1 .. Len(m) /\ Len(l) + (n - Len(l)) = n
      BY <2>2, <3>1
    <3>3. (l \o m)[n] = m[n - Len(l)] /\ n - Len(l) \in DOMAIN m
      BY <1>1, <3>2, SeqParts
    <3> QED BY <3>3 DEF Quiet
  <2> QED BY <2>1, <2>2
<1> QED BY <1>2, <1>3 DEF Quiet

----------------------------------------------------------------------------
(* An engine with another log before its own is an engine with the other   *)
(* fields unchanged.                                                       *)
LEMMA OntoEngine ==
  ASSUME NEW e, NEW l, IsEngine(e), IsSeq(l)
  PROVE  /\ IsEngine(Onto(l, e))
         /\ Onto(l, e).log = l \o e.log
         /\ \A f \in EngineField \ {"log"} : Onto(l, e)[f] = e[f]
<1>1. IsSeq(l \o e.log)
  BY SeqAppend DEF IsEngine
<1> QED BY <1>1 DEF Onto, IsEngine, EngineField

(* An engine that does nothing keeps what Keeps speaks of.                 *)
LEMMA KeepsSelf ==
  ASSUME NEW e, IsEngine(e)
  PROVE  Keeps(e, e)
<1>1. IsSeq(e.log) /\ e.log \o <<>> = e.log
  BY SeqAppend DEF IsEngine
<1> DEFINE none == <<>>
<1>2. Quiet(none, e.tick)
  <2>1. IsSeq(none)
    BY SeqShort
  <2>2. \A n \in DOMAIN none : FALSE
    OBVIOUS
  <2> HIDE DEF none
  <2> QED BY <2>1, <2>2 DEF Quiet
<1>3. e.log = e.log \o none
  BY <1>1
<1> HIDE DEF none
<1> QED BY <1>2, <1>3 DEF Keeps

(* Work after work is work.                                                *)
LEMMA KeepsOn ==
  ASSUME NEW e, NEW r, NEW s, IsEngine(e), Keeps(e, r), Keeps(r, s)
  PROVE  Keeps(e, s)
<1>1. PICK x : Quiet(x, e.tick) /\ r.log = e.log \o x
  BY DEF Keeps
<1>2. PICK y : Quiet(y, e.tick) /\ s.log = r.log \o y
  BY DEF Keeps
<1>3. Quiet(x \o y, e.tick)
  BY <1>1, <1>2, QuietConcat
<1>4. IsSeq(e.log) /\ IsSeq(x) /\ IsSeq(y)
  BY <1>1, <1>2 DEF Quiet, IsEngine
<1>5. (e.log \o x) \o y = e.log \o (x \o y)
  <2> DEFINE w == e.log
  <2>1. IsSeq(w)
    BY <1>4
  <2> HIDE DEF w
  <2>2. (w \o x) \o y = w \o (x \o y)
    BY <1>4, <2>1, SeqConcat
  <2> QED BY <2>2 DEF w
<1> QED BY <1>1, <1>2, <1>3, <1>5 DEF Keeps

(* Work before steps that are alike leaves them alike.                     *)
LEMMA AlikeOn ==
  ASSUME NEW l, NEW e, NEW r, NEW s, NEW q, NEW t, IsEngine(e), Keeps(e, r), Alike(l, r, q, t)
  PROVE  Alike(l, e, q, t)
BY KeepsOn DEF Alike

(* A change of fields other than the log, tick, phase and seed. *)
LEMMA Changes ==
  ASSUME NEW e, NEW l, NEW r, IsEngine(e), IsSeq(l), IsEngine(r),
         r.tick = e.tick, r.seed = e.seed, r.phase = e.phase, r.log = e.log,
         r.handled = e.handled, r.commands = e.commands
  PROVE  Keeps(e, r)
<1>1. Keeps(e, e)
  BY KeepsSelf
<1> QED BY <1>1 DEF Keeps, Tally

(* What Resolved reads in a log with one event more.                       *)
LEMMA ResolvedAppend ==
  ASSUME NEW l, NEW ev, IsSeq(l)
  PROVE  Resolved(Append(l, ev)) =
           IF ev.kind = "IncidentResolved" THEN Append(Resolved(l), ev.data.incident) ELSE Resolved(l)
<1>1. PICK S : l \in Seq(S)
  BY DEF IsSeq
<1> DEFINE U == S \cup {ev}
           none == <<>>
<1>2. l \in Seq(U) /\ ev \in U
  BY <1>1
<1> HIDE DEF U
<1>3. Resolves!Fold(0, none, Append(l, ev)) =
        IF ev.kind = "IncidentResolved" THEN Append(Resolves!Fold(0, none, l), ev.data.incident)
        ELSE Resolves!Fold(0, none, l)
  BY <1>2, Resolves!FoldAppend
<1>4. \A m : Resolved(m) = Resolves!Fold(0, none, m)
  BY DEF Resolved, Resolves!Fold, Resolves!Highest, FoldLeft, MapThenFoldSet, Max
<1> QED BY <1>3, <1>4

(* What emit does, whatever the event. *)
LEMMA Emitted ==
  ASSUME NEW e, NEW l, NEW kind, NEW data, IsEngine(e), IsSeq(l)
  PROVE  /\ Emit(Onto(l, e), kind, data) = Onto(l, Emit(e, kind, data))
         /\ Grown(e, Emit(e, kind, data), Event(kind, e.tick, data))
<1> DEFINE ev == [kind |-> kind, tick |-> e.tick, data |-> data]
<1>a. Emit(e, kind, data) = [e EXCEPT !.log = Append(e.log, ev)]
  BY DEF Emit
<1>b. Onto(l, e).log = l \o e.log /\ Onto(l, e).tick = e.tick
  BY DEF Onto, IsEngine, EngineField
<1>c. Emit(Onto(l, e), kind, data) = [Onto(l, e) EXCEPT !.log = Append(l \o e.log, ev)]
  BY <1>b DEF Emit
<1> HIDE DEF ev
<1>1. IsSeq(e.log)
  BY DEF IsEngine
<1>2. /\ IsSeq(Append(e.log, ev))
      /\ Append(l \o e.log, ev) = l \o Append(e.log, ev)
      /\ Append(e.log, ev) = e.log \o <<ev>>
  <2> DEFINE w == e.log
  <2>1. IsSeq(w)
    BY <1>1
  <2> HIDE DEF w
  <2>2. Append(l \o w, ev) = l \o Append(w, ev)
    BY <2>1, SeqAppend
  <2>3. Append(w, ev) = w \o <<ev>>
    BY <2>1, SeqAppend
  <2>4. IsSeq(Append(w, ev))
    BY <2>1, SeqAppend
  <2> QED BY <2>2, <2>3, <2>4 DEF w
<1>3. [Onto(l, e) EXCEPT !.log = l \o Append(e.log, ev)] = Onto(l, [e EXCEPT !.log = Append(e.log, ev)])
  BY DEF Onto, IsEngine, EngineField
<1>4. IsEngine([e EXCEPT !.log = Append(e.log, ev)])
  BY <1>2 DEF IsEngine, EngineField
<1>5. \A f \in EngineField \ {"log"} : [e EXCEPT !.log = Append(e.log, ev)][f] = e[f]
  BY DEF IsEngine, EngineField
<1>6. [e EXCEPT !.log = Append(e.log, ev)].log = Append(e.log, ev)
  BY DEF IsEngine, EngineField
<1>7. Emit(e, kind, data).log = e.log \o <<ev>>
  BY <1>2, <1>a, <1>6
<1> QED BY <1>2, <1>a, <1>c, <1>3, <1>4, <1>5, <1>6, <1>7 DEF ev, Event, Grown

(* One event of another kind is quiet.                                     *)
LEMMA QuietOne ==
  ASSUME NEW kind, NEW tick, NEW data, kind \notin Apart
  PROVE  Quiet(<<Event(kind, tick, data)>>, tick)
<1> DEFINE ev == Event(kind, tick, data)
           one == <<ev>>
<1>0. ev.kind \notin Apart /\ ev.tick = tick
  BY DEF Event
<1> HIDE DEF ev
<1>1. IsSeq(one)
  BY SeqShort
<1>2. \A n \in DOMAIN one : one[n] = ev
  OBVIOUS
<1> QED BY <1>0, <1>1, <1>2 DEF Quiet, ev

(* Emitting a quiet event that resolves no incident is work that does not  *)
(* look at the log.                                                        *)
LEMMA Emits ==
  ASSUME NEW e, NEW l, NEW kind, NEW data, IsEngine(e), IsSeq(l),
         kind \notin Apart, kind # "IncidentResolved"
  PROVE  Alike(l, e, Emit(e, kind, data), Emit(Onto(l, e), kind, data))
<1> DEFINE ev == Event(kind, e.tick, data)
           r == Emit(e, kind, data)
<1>0. Emit(Onto(l, e), kind, data) = Onto(l, r) /\ Grown(e, r, ev)
  BY Emitted
<1>1. /\ IsEngine(r) /\ r.log = Append(e.log, ev) /\ r.log = e.log \o <<ev>>
      /\ \A f \in EngineField \ {"log"} : r[f] = e[f]
  BY <1>0 DEF Grown
<1>2. Quiet(<<ev>>, e.tick)
  BY QuietOne
<1>3. Tally(e) => Tally(r)
  <2>1. ev.kind # "IncidentResolved" /\ IsSeq(e.log)
    BY DEF IsEngine, Event
  <2> HIDE DEF ev, r
  <2>2. Resolved(Append(e.log, ev)) = Resolved(e.log)
    BY <2>1, ResolvedAppend
  <2>3. r.handled = e.handled
    BY <1>1 DEF EngineField
  <2> QED BY <1>1, <2>2, <2>3 DEF Tally
<1>4. r.tick = e.tick /\ r.seed = e.seed /\ r.phase = e.phase /\ r.commands = e.commands
  BY <1>1 DEF EngineField
<1> HIDE DEF r, ev
<1>5. Keeps(e, r)
  BY <1>1, <1>2, <1>3, <1>4 DEF Keeps
<1> QED BY <1>0, <1>5 DEF Alike, r

(* The same, after other work.                                             *)
LEMMA EmitsOn ==
  ASSUME NEW e, NEW l, NEW r, NEW s, NEW kind, NEW data, IsEngine(e), IsSeq(l),
         Alike(l, e, r, s), kind \notin Apart, kind # "IncidentResolved"
  PROVE  Alike(l, e, Emit(r, kind, data), Emit(s, kind, data))
<1>1. IsEngine(r) /\ Keeps(e, r) /\ s = Onto(l, r)
  BY DEF Alike, Keeps
<1>2. Alike(l, r, Emit(r, kind, data), Emit(Onto(l, r), kind, data))
  BY <1>1, Emits
<1> QED BY <1>1, <1>2, AlikeOn

----------------------------------------------------------------------------
(* Kept is a fold.                                                         *)
LEMMA KeptIsFold ==
  ASSUME NEW list, NEW S
  PROVE  Kept(list, S) = Filters!Fold(S, <<>>, list)
BY DEF Kept, Filters!Fold, Filters!Highest, FoldLeft, MapThenFoldSet, Max

(* What Kept keeps of a sequence is a sequence.                            *)
LEMMA KeptIsSeq ==
  ASSUME NEW list, NEW S, IsSeq(list)
  PROVE  IsSeq(Kept(list, S))
<1>1. PICK R : list \in Seq(R)
  BY DEF IsSeq
<1> DEFINE none == <<>>
<1>2. PICK g : Filters!Through(S, none, list, g) /\ Filters!Fold(S, none, list) = g[Len(list)]
  BY <1>1, Filters!FoldGoesThrough
<1> DEFINE T == {n \in Nat : IsSeq(g[n])}
<1>3. Len(list) \in Nat
  BY <1>1
<1>4. 0 \in T
  BY <1>2, SeqShort DEF Filters!Through
<1>5. ASSUME NEW n \in 0 .. Len(list) - 1, n \in T PROVE n + 1 \in T
  <2>1. n + 1 \in 1 .. Len(list) /\ (n + 1) - 1 = n /\ n + 1 \in Nat /\ IsSeq(g[n])
    BY <1>3, <1>5
  <2>2. g[n + 1] = IF list[n + 1] \in S THEN Append(g[n], list[n + 1]) ELSE g[n]
    BY <1>2, <2>1 DEF Filters!Through
  <2>3. IsSeq(Append(g[n], list[n + 1]))
    BY <2>1, SeqAppend
  <2> QED BY <2>1, <2>2, <2>3
<1>6. \A n \in 0 .. Len(list) : n \in T
  <2> HIDE DEF T
  <2> QED BY <1>3, <1>4, <1>5, Filters!UpTo
<1>7. IsSeq(g[Len(list)])
  BY <1>3, <1>6
<1> QED BY <1>2, <1>7, KeptIsFold

----------------------------------------------------------------------------
(* An incident begins or escalates (advanceIncidents) without a look at    *)
(* the log.                                                                *)
LEMMA OccursAlike ==
  ASSUME NEW e, NEW l, NEW i, IsEngine(e), IsSeq(l)
  PROVE  Alike(l, e, Occurs(e, i), Occurs(Onto(l, e), i))
<1> DEFINE reports == Kept(Scenario.reports, {o \in Report : Scenario.about[o] = i})
           waiting == [n \in DOMAIN reports |->
                         [obs |-> reports[n], at |-> e.tick + Scenario.offset[reports[n]]]]
           data == [incident |-> i, district |-> Scenario.place[i]]
           r == [e EXCEPT !.incidents[i].active = TRUE, !.awaited = @ \o waiting]
<1>1. IsSeq(waiting)
  <2>1. IsSeq(reports)
    BY ScenarioAssumption, KeptIsSeq DEF IsSeq
  <2>2. PICK R : reports \in Seq(R)
    BY <2>1 DEF IsSeq
  <2> HIDE DEF reports
  <2> DEFINE S == {waiting[n] : n \in 1 .. Len(reports)}
  <2>3. DOMAIN reports = 1 .. Len(reports) /\ Len(reports) \in Nat
    BY <2>2
  <2>4. waiting \in Seq(S)
    BY <2>3
  <2> QED BY <2>4 DEF IsSeq
<1>2. Onto(l, e).tick = e.tick
  BY OntoEngine DEF EngineField
<1>3. Occurs(e, i) = Emit(r, "TrueIncidentOccurred", data)
  BY DEF Occurs
<1>4. Occurs(Onto(l, e), i) =
        Emit([Onto(l, e) EXCEPT !.incidents[i].active = TRUE, !.awaited = @ \o waiting],
             "TrueIncidentOccurred", data)
  BY <1>2 DEF Occurs
<1> HIDE DEF waiting, data
<1>5. IsEngine(r)
  <2>1. IsSeq(e.awaited \o waiting)
    BY <1>1, SeqAppend DEF IsEngine
  <2> QED BY <2>1 DEF IsEngine, EngineField
<1>6. [Onto(l, e) EXCEPT !.incidents[i].active = TRUE, !.awaited = @ \o waiting] = Onto(l, r)
  BY DEF Onto, IsEngine, EngineField
<1>7. Keeps(e, r)
  BY <1>5, Changes DEF IsEngine, EngineField
<1> HIDE DEF r
<1>8. Alike(l, r, Emit(r, "TrueIncidentOccurred", data), Emit(Onto(l, r), "TrueIncidentOccurred", data))
  BY <1>5, Emits DEF Apart
<1> QED BY <1>3, <1>4, <1>6, <1>7, <1>8, AlikeOn

(* A team fights a hazard, and may resolve it, without a look at the log.  *)
LEMMA FightsAlike ==
  ASSUME NEW e, NEW l, NEW i, IsEngine(e), IsSeq(l)
  PROVE  Alike(l, e, Fights(e, i), Fights(Onto(l, e), i))
<1>1. \A f \in EngineField \ {"log"} : Onto(l, e)[f] = e[f]
  BY OntoEngine
<1>2. Onto(l, e).teams = e.teams /\ Onto(l, e).incidents = e.incidents
  BY <1>1 DEF EngineField
<1>3. Crew(Onto(l, e), i) = Crew(e, i)
  BY <1>2 DEF Crew
<1> DEFINE left == e.incidents[i].left - Cardinality(Crew(e, i))
           over == [e EXCEPT !.incidents[i] = [active |-> FALSE, left |-> 0], !.handled = Append(@, i)]
           on == [e EXCEPT !.incidents[i].left = left]
           over2 == [Onto(l, e) EXCEPT !.incidents[i] = [active |-> FALSE, left |-> 0],
                                       !.handled = Append(@, i)]
           on2 == [Onto(l, e) EXCEPT !.incidents[i].left = left]
           data == [action |-> "incident_pressure", incident |-> i]
<1>4. Fights(e, i) = IF ~e.incidents[i].active THEN e
                     ELSE IF Crew(e, i) # {} /\ left <= 0
                     THEN Emit(over, "IncidentResolved", [incident |-> i])
                     ELSE Emit(on, "ActionApplied", data)
  BY DEF Fights
<1>5. Fights(Onto(l, e), i) = IF ~e.incidents[i].active THEN Onto(l, e)
                     ELSE IF Crew(e, i) # {} /\ left <= 0
                     THEN Emit(over2, "IncidentResolved", [incident |-> i])
                     ELSE Emit(on2, "ActionApplied", data)
  BY <1>2, <1>3 DEF Fights
<1> HIDE DEF left
<1>6. IsEngine(over) /\ IsEngine(on)
  BY DEF IsEngine, EngineField
<1>7. over2 = Onto(l, over)
  BY DEF Onto, IsEngine, EngineField
<1>8. on2 = Onto(l, on)
  BY DEF Onto, IsEngine, EngineField
<1>9. /\ over.tick = e.tick /\ over.seed = e.seed /\ over.phase = e.phase /\ over.log = e.log
      /\ over.handled = Append(e.handled, i) /\ over.commands = e.commands
  BY DEF IsEngine, EngineField
<1>10. Keeps(e, on)
  BY <1>6, Changes DEF IsEngine, EngineField
<1> HIDE DEF over, on, over2, on2, data
<1>11. Alike(l, e, Emit(over, "IncidentResolved", [incident |-> i]), Emit(over2, "IncidentResolved", [incident |-> i]))
  <2> DEFINE ev == Event("IncidentResolved", e.tick, [incident |-> i])
             r == Emit(over, "IncidentResolved", [incident |-> i])
  <2>0. Emit(over2, "IncidentResolved", [incident |-> i]) = Onto(l, r) /\ Grown(over, r, ev)
    BY <1>6, <1>7, <1>9, Emitted
  <2>1. /\ IsEngine(r) /\ r.log = Append(e.log, ev) /\ r.log = e.log \o <<ev>>
        /\ \A f \in EngineField \ {"log"} : r[f] = over[f]
    BY <1>9, <2>0 DEF Grown
  <2>2. Quiet(<<ev>>, e.tick)
    BY QuietOne DEF Apart
  <2>3. /\ r.tick = e.tick /\ r.seed = e.seed /\ r.phase = e.phase /\ r.commands = e.commands
        /\ r.handled = Append(e.handled, i)
    BY <1>9, <2>1 DEF EngineField
  <2>4. Tally(e) => Tally(r)
    <3>1. ev.kind = "IncidentResolved" /\ ev.data.incident = i /\ IsSeq(e.log)
      BY DEF IsEngine, Event
    <3> HIDE DEF ev, r
    <3>2. Resolved(Append(e.log, ev)) = Append(Resolved(e.log), i)
      BY <3>1, ResolvedAppend
    <3> QED BY <2>1, <2>3, <3>2 DEF Tally
  <2> HIDE DEF r, ev
  <2>5. Keeps(e, r)
    BY <2>1, <2>2, <2>3, <2>4 DEF Keeps
  <2> QED BY <2>0, <2>5 DEF Alike, r
<1>12. Alike(l, e, Emit(on, "ActionApplied", data), Emit(on2, "ActionApplied", data))
  BY <1>6, <1>8, <1>10, Emits, AlikeOn DEF Apart
<1>13. Alike(l, e, e, Onto(l, e))
  BY KeepsSelf DEF Alike
<1> QED BY <1>4, <1>5, <1>11, <1>12, <1>13

(* A team arrives (processTeams) without a look at the log.                *)
LEMMA ArrivesAlike ==
  ASSUME NEW e, NEW l, NEW t, IsEngine(e), IsSeq(l)
  PROVE  Alike(l, e, Arrives(e, t), Arrives(Onto(l, e), t))
<1>1. Onto(l, e).teams = e.teams /\ Onto(l, e).tick = e.tick
  BY OntoEngine DEF EngineField
<1> DEFINE there == [e EXCEPT !.teams[t] = [@ EXCEPT !.status = "working", !.eta = NoTick,
                                                     !.location = e.teams[t].order.target]]
           there2 == [Onto(l, e) EXCEPT !.teams[t] = [@ EXCEPT !.status = "working", !.eta = NoTick,
                                                     !.location = e.teams[t].order.target]]
           data == [team |-> t, order |-> e.teams[t].order.id]
           goes == e.teams[t].status # "transit" \/ e.teams[t].eta > e.tick
<1>2. Arrives(e, t) = IF goes THEN e ELSE Emit(there, "TeamArrived", data)
  BY DEF Arrives
<1>3. Arrives(Onto(l, e), t) = IF goes THEN Onto(l, e) ELSE Emit(there2, "TeamArrived", data)
  BY <1>1 DEF Arrives
<1> HIDE DEF goes, data
<1>4. IsEngine(there)
  BY DEF IsEngine, EngineField
<1>5. there2 = Onto(l, there)
  BY DEF Onto, IsEngine, EngineField
<1>6. Keeps(e, there)
  BY <1>4, Changes DEF IsEngine, EngineField
<1> HIDE DEF there, there2
<1>7. Alike(l, e, Emit(there, "TeamArrived", data), Emit(there2, "TeamArrived", data))
  BY <1>4, <1>5, <1>6, Emits, AlikeOn DEF Apart
<1>8. Alike(l, e, e, Onto(l, e))
  BY KeepsSelf DEF Alike
<1> QED BY <1>2, <1>3, <1>7, <1>8

(* An observation is created or lost (generateObservations) without a look *)
(* at the log.                                                             *)
LEMMA CreatesAlike ==
  ASSUME NEW e, NEW l, NEW w, IsEngine(e), IsSeq(l)
  PROVE  Alike(l, e, Creates(e, w), Creates(Onto(l, e), w))
<1> DEFINE o == w.obs
           data == [obs |-> o]
           text == [obs |-> o, text |-> Scenario.content[o]]
           other == [obs |-> o, as |-> Scenario.corruption[o]]
           late == [obs |-> o, delay |-> Scenario.delay[o]]
           draw == Scenario.draws[e.seed][e.rng + 1]
           drawn(v) == [v EXCEPT !.rng = @ + 1]
           created(v) == Emit(drawn(v), "ObservationCreated", text)
           made(v) == IF draw.wrong THEN Emit(created(v), "ObservationCorrupted", other) ELSE created(v)
           held(v) == IF Scenario.delay[o] > 0 THEN Emit(made(v), "ObservationDelayed", late) ELSE made(v)
           due == [obs |-> o, due |-> e.tick + Scenario.delay[o]]
           up(v) == [v EXCEPT !.aloft = Append(@, due)]
<1>1. Onto(l, e).seed = e.seed /\ Onto(l, e).tick = e.tick /\ Onto(l, e).rng = e.rng
  BY OntoEngine DEF EngineField
<1>2. Creates(e, w) = IF draw.lost THEN Emit(made(e), "ObservationLost", data) ELSE up(held(e))
  BY DEF Creates
<1>3. Creates(Onto(l, e), w) = IF draw.lost THEN Emit(made(Onto(l, e)), "ObservationLost", data)
                               ELSE up(held(Onto(l, e)))
  BY <1>1 DEF Creates
<1> HIDE DEF o, data, text, other, late, due, draw
<1>4. Alike(l, e, drawn(e), drawn(Onto(l, e)))
  <2>1. IsEngine(drawn(e)) /\ drawn(Onto(l, e)) = Onto(l, drawn(e))
    BY DEF Onto, IsEngine, EngineField
  <2>2. Keeps(e, drawn(e))
    BY <2>1, Changes DEF IsEngine, EngineField
  <2> QED BY <2>1, <2>2 DEF Alike
<1> HIDE DEF drawn
<1>5. Alike(l, e, created(e), created(Onto(l, e)))
  BY <1>4, EmitsOn DEF Apart
<1> HIDE DEF created
<1>6. Alike(l, e, made(e), made(Onto(l, e)))
  <2>1. Alike(l, e, Emit(created(e), "ObservationCorrupted", other),
                    Emit(created(Onto(l, e)), "ObservationCorrupted", other))
    BY <1>5, EmitsOn DEF Apart
  <2> QED BY <1>5, <2>1
<1> HIDE DEF made
<1>7. Alike(l, e, held(e), held(Onto(l, e)))
  <2>1. Alike(l, e, Emit(made(e), "ObservationDelayed", late),
                    Emit(made(Onto(l, e)), "ObservationDelayed", late))
    BY <1>6, EmitsOn DEF Apart
  <2> QED BY <1>6, <2>1
<1>8. Alike(l, e, Emit(made(e), "ObservationLost", data), Emit(made(Onto(l, e)), "ObservationLost", data))
  BY <1>6, EmitsOn DEF Apart
<1> HIDE DEF held
<1>9. Alike(l, e, up(held(e)), up(held(Onto(l, e))))
  <2> DEFINE h == held(e)
  <2>1. IsEngine(h) /\ held(Onto(l, e)) = Onto(l, h) /\ Keeps(e, h)
    BY <1>7 DEF Alike, Keeps
  <2> HIDE DEF h
  <2>2. IsSeq(Append(h.aloft, due))
    BY <2>1, SeqAppend DEF IsEngine
  <2>3. IsEngine(up(h)) /\ up(Onto(l, h)) = Onto(l, up(h))
    BY <2>1, <2>2 DEF Onto, IsEngine, EngineField
  <2>4. Keeps(h, up(h))
    BY <2>1, <2>3, Changes DEF IsEngine, EngineField
  <2>5. Alike(l, e, up(h), up(Onto(l, h)))
    BY <2>1, <2>3, <2>4, KeepsOn DEF Alike
  <2> QED BY <2>1, <2>5 DEF h
<1> QED BY <1>2, <1>3, <1>8, <1>9

(* An observation is delivered (deliverObservations) without a look at the *)
(* log.                                                                    *)
LEMMA DeliversAlike ==
  ASSUME NEW e, NEW l, NEW a, IsEngine(e), IsSeq(l)
  PROVE  Alike(l, e, Delivers(e, a), Delivers(Onto(l, e), a))
<1> DEFINE on(w) == [w EXCEPT !.delivered = Append(@, [obs |-> a.obs, verified |-> FALSE])]
<1>1. IsEngine(on(e)) /\ on(Onto(l, e)) = Onto(l, on(e))
  BY DEF Onto, IsEngine, EngineField
<1>2. Keeps(e, on(e))
  BY <1>1, Changes DEF IsEngine, EngineField
<1>3. Delivers(e, a) = Emit(on(e), "ObservationDelivered", [obs |-> a.obs])
  BY DEF Delivers
<1>4. Delivers(Onto(l, e), a) = Emit(on(Onto(l, e)), "ObservationDelivered", [obs |-> a.obs])
  BY DEF Delivers
<1> HIDE DEF on
<1> QED BY <1>1, <1>2, <1>3, <1>4, Emits, AlikeOn DEF Apart

(* A change of the score is logged without a look at the log before it.    *)
LEMMA ScoredAlike ==
  ASSUME NEW e, NEW l, NEW c, IsEngine(e), IsSeq(l)
  PROVE  Alike(l, e, Scored(e, c), Scored(Onto(l, e), c))
<1>1. \A f \in EngineField \ {"log"} : Onto(l, e)[f] = e[f]
  BY OntoEngine
<1>2. /\ Onto(l, e).tick = e.tick /\ Onto(l, e).incidents = e.incidents
      /\ Onto(l, e).handled = e.handled /\ Onto(l, e).wasted = e.wasted
      /\ Onto(l, e).score = e.score
  BY <1>1 DEF EngineField
<1>3. Points(Onto(l, e)) = Points(e)
  BY <1>2 DEF Points, Missed
<1> DEFINE data == [category |-> c, delta |-> Points(e)[c] - e.score[c], total |-> Total(Points(e))]
<1>4. Scored(e, c) = IF Points(e)[c] = e.score[c] THEN e ELSE Emit(e, "ScoreChanged", data)
  BY DEF Scored
<1>5. Scored(Onto(l, e), c) = IF Points(e)[c] = e.score[c] THEN Onto(l, e)
                              ELSE Emit(Onto(l, e), "ScoreChanged", data)
  BY <1>2, <1>3 DEF Scored
<1> HIDE DEF data
<1>6. Alike(l, e, Emit(e, "ScoreChanged", data), Emit(Onto(l, e), "ScoreChanged", data))
  BY Emits DEF Apart
<1>7. Alike(l, e, e, Onto(l, e))
  BY KeepsSelf DEF Alike
<1> QED BY <1>4, <1>5, <1>6, <1>7

----------------------------------------------------------------------------
(* So does every incident of a list in turn.                               *)
LEMMA StartsAlike ==
  ASSUME NEW e, NEW l, NEW list, IsEngine(e), IsSeq(l), IsSeq(list)
  PROVE  Alike(l, e, Starts!Fold(0, e, list), Starts!Fold(0, Onto(l, e), list))
<1>1. PICK S : list \in Seq(S)
  BY DEF IsSeq
<1>2. PICK g : Starts!Through(0, e, list, g) /\ Starts!Fold(0, e, list) = g[Len(list)]
  BY <1>1, Starts!FoldGoesThrough
<1>3. PICK h : /\ Starts!Through(0, Onto(l, e), list, h)
               /\ Starts!Fold(0, Onto(l, e), list) = h[Len(list)]
  BY <1>1, Starts!FoldGoesThrough
<1> DEFINE T == {n \in Nat : Alike(l, e, g[n], h[n])}
<1>4. 0 \in T
  BY <1>2, <1>3, KeepsSelf DEF Starts!Through, Alike
<1>5. Len(list) \in Nat
  BY <1>1
<1>6. ASSUME NEW n \in 0 .. Len(list) - 1, n \in T PROVE n + 1 \in T
  <2>1. n + 1 \in 1 .. Len(list) /\ (n + 1) - 1 = n /\ n + 1 \in Nat
    BY <1>5
  <2>2. IsEngine(g[n]) /\ Keeps(e, g[n]) /\ h[n] = Onto(l, g[n])
    BY <1>6 DEF Alike, Keeps
  <2> DEFINE x == list[n + 1]
  <2>3. g[n + 1] = Occurs(g[n], x) /\ h[n + 1] = Occurs(Onto(l, g[n]), x)
    BY <1>2, <1>3, <2>1, <2>2 DEF Starts!Through
  <2> HIDE DEF x
  <2>4. Alike(l, g[n], Occurs(g[n], x), Occurs(Onto(l, g[n]), x))
    BY <2>2, OccursAlike
  <2> QED BY <2>1, <2>2, <2>3, <2>4, AlikeOn
<1>7. \A n \in 0 .. Len(list) : n \in T
  <2> HIDE DEF T
  <2> QED BY <1>4, <1>5, <1>6, Starts!UpTo
<1> QED BY <1>2, <1>3, <1>5, <1>7

(* So does every fight of a list in turn.                                  *)
LEMMA EffortsAlike ==
  ASSUME NEW e, NEW l, NEW list, IsEngine(e), IsSeq(l), IsSeq(list)
  PROVE  Alike(l, e, Efforts!Fold(0, e, list), Efforts!Fold(0, Onto(l, e), list))
<1>1. PICK S : list \in Seq(S)
  BY DEF IsSeq
<1>2. PICK g : Efforts!Through(0, e, list, g) /\ Efforts!Fold(0, e, list) = g[Len(list)]
  BY <1>1, Efforts!FoldGoesThrough
<1>3. PICK h : /\ Efforts!Through(0, Onto(l, e), list, h)
               /\ Efforts!Fold(0, Onto(l, e), list) = h[Len(list)]
  BY <1>1, Efforts!FoldGoesThrough
<1> DEFINE T == {n \in Nat : Alike(l, e, g[n], h[n])}
<1>4. 0 \in T
  BY <1>2, <1>3, KeepsSelf DEF Efforts!Through, Alike
<1>5. Len(list) \in Nat
  BY <1>1
<1>6. ASSUME NEW n \in 0 .. Len(list) - 1, n \in T PROVE n + 1 \in T
  <2>1. n + 1 \in 1 .. Len(list) /\ (n + 1) - 1 = n /\ n + 1 \in Nat
    BY <1>5
  <2>2. IsEngine(g[n]) /\ Keeps(e, g[n]) /\ h[n] = Onto(l, g[n])
    BY <1>6 DEF Alike, Keeps
  <2> DEFINE x == list[n + 1]
  <2>3. g[n + 1] = Fights(g[n], x) /\ h[n + 1] = Fights(Onto(l, g[n]), x)
    BY <1>2, <1>3, <2>1, <2>2 DEF Efforts!Through
  <2> HIDE DEF x
  <2>4. Alike(l, g[n], Fights(g[n], x), Fights(Onto(l, g[n]), x))
    BY <2>2, FightsAlike
  <2> QED BY <2>1, <2>2, <2>3, <2>4, AlikeOn
<1>7. \A n \in 0 .. Len(list) : n \in T
  <2> HIDE DEF T
  <2> QED BY <1>4, <1>5, <1>6, Efforts!UpTo
<1> QED BY <1>2, <1>3, <1>5, <1>7

(* So does every team of a list in turn.                                   *)
LEMMA ArrivalsAlike ==
  ASSUME NEW e, NEW l, NEW list, IsEngine(e), IsSeq(l), IsSeq(list)
  PROVE  Alike(l, e, Arrivals!Fold(0, e, list), Arrivals!Fold(0, Onto(l, e), list))
<1>1. PICK S : list \in Seq(S)
  BY DEF IsSeq
<1>2. PICK g : Arrivals!Through(0, e, list, g) /\ Arrivals!Fold(0, e, list) = g[Len(list)]
  BY <1>1, Arrivals!FoldGoesThrough
<1>3. PICK h : /\ Arrivals!Through(0, Onto(l, e), list, h)
               /\ Arrivals!Fold(0, Onto(l, e), list) = h[Len(list)]
  BY <1>1, Arrivals!FoldGoesThrough
<1> DEFINE T == {n \in Nat : Alike(l, e, g[n], h[n])}
<1>4. 0 \in T
  BY <1>2, <1>3, KeepsSelf DEF Arrivals!Through, Alike
<1>5. Len(list) \in Nat
  BY <1>1
<1>6. ASSUME NEW n \in 0 .. Len(list) - 1, n \in T PROVE n + 1 \in T
  <2>1. n + 1 \in 1 .. Len(list) /\ (n + 1) - 1 = n /\ n + 1 \in Nat
    BY <1>5
  <2>2. IsEngine(g[n]) /\ Keeps(e, g[n]) /\ h[n] = Onto(l, g[n])
    BY <1>6 DEF Alike, Keeps
  <2> DEFINE x == list[n + 1]
  <2>3. g[n + 1] = Arrives(g[n], x) /\ h[n + 1] = Arrives(Onto(l, g[n]), x)
    BY <1>2, <1>3, <2>1, <2>2 DEF Arrivals!Through
  <2> HIDE DEF x
  <2>4. Alike(l, g[n], Arrives(g[n], x), Arrives(Onto(l, g[n]), x))
    BY <2>2, ArrivesAlike
  <2> QED BY <2>1, <2>2, <2>3, <2>4, AlikeOn
<1>7. \A n \in 0 .. Len(list) : n \in T
  <2> HIDE DEF T
  <2> QED BY <1>4, <1>5, <1>6, Arrivals!UpTo
<1> QED BY <1>2, <1>3, <1>5, <1>7

(* So does every awaited report of a list in turn.                         *)
LEMMA ReportsAlike ==
  ASSUME NEW e, NEW l, NEW list, IsEngine(e), IsSeq(l), IsSeq(list)
  PROVE  Alike(l, e, Reports!Fold(0, e, list), Reports!Fold(0, Onto(l, e), list))
<1>1. PICK S : list \in Seq(S)
  BY DEF IsSeq
<1>2. PICK g : Reports!Through(0, e, list, g) /\ Reports!Fold(0, e, list) = g[Len(list)]
  BY <1>1, Reports!FoldGoesThrough
<1>3. PICK h : /\ Reports!Through(0, Onto(l, e), list, h)
               /\ Reports!Fold(0, Onto(l, e), list) = h[Len(list)]
  BY <1>1, Reports!FoldGoesThrough
<1> DEFINE T == {n \in Nat : Alike(l, e, g[n], h[n])}
<1>4. 0 \in T
  BY <1>2, <1>3, KeepsSelf DEF Reports!Through, Alike
<1>5. Len(list) \in Nat
  BY <1>1
<1>6. ASSUME NEW n \in 0 .. Len(list) - 1, n \in T PROVE n + 1 \in T
  <2>1. n + 1 \in 1 .. Len(list) /\ (n + 1) - 1 = n /\ n + 1 \in Nat
    BY <1>5
  <2>2. IsEngine(g[n]) /\ Keeps(e, g[n]) /\ h[n] = Onto(l, g[n])
    BY <1>6 DEF Alike, Keeps
  <2> DEFINE x == list[n + 1]
  <2>3. g[n + 1] = Creates(g[n], x) /\ h[n + 1] = Creates(Onto(l, g[n]), x)
    BY <1>2, <1>3, <2>1, <2>2 DEF Reports!Through
  <2> HIDE DEF x
  <2>4. Alike(l, g[n], Creates(g[n], x), Creates(Onto(l, g[n]), x))
    BY <2>2, CreatesAlike
  <2> QED BY <2>1, <2>2, <2>3, <2>4, AlikeOn
<1>7. \A n \in 0 .. Len(list) : n \in T
  <2> HIDE DEF T
  <2> QED BY <1>4, <1>5, <1>6, Reports!UpTo
<1> QED BY <1>2, <1>3, <1>5, <1>7

(* So does every observation on its way, in turn.                          *)
LEMMA DeliveriesAlike ==
  ASSUME NEW e, NEW l, NEW list, IsEngine(e), IsSeq(l), IsSeq(list)
  PROVE  Alike(l, e, Deliveries!Fold(0, e, list), Deliveries!Fold(0, Onto(l, e), list))
<1>1. PICK S : list \in Seq(S)
  BY DEF IsSeq
<1>2. PICK g : Deliveries!Through(0, e, list, g) /\ Deliveries!Fold(0, e, list) = g[Len(list)]
  BY <1>1, Deliveries!FoldGoesThrough
<1>3. PICK h : /\ Deliveries!Through(0, Onto(l, e), list, h)
               /\ Deliveries!Fold(0, Onto(l, e), list) = h[Len(list)]
  BY <1>1, Deliveries!FoldGoesThrough
<1> DEFINE T == {n \in Nat : Alike(l, e, g[n], h[n])}
<1>4. 0 \in T
  BY <1>2, <1>3, KeepsSelf DEF Deliveries!Through, Alike
<1>5. Len(list) \in Nat
  BY <1>1
<1>6. ASSUME NEW n \in 0 .. Len(list) - 1, n \in T PROVE n + 1 \in T
  <2>1. n + 1 \in 1 .. Len(list) /\ (n + 1) - 1 = n /\ n + 1 \in Nat
    BY <1>5
  <2>2. IsEngine(g[n]) /\ Keeps(e, g[n]) /\ h[n] = Onto(l, g[n])
    BY <1>6 DEF Alike, Keeps
  <2> DEFINE x == list[n + 1]
  <2>3. g[n + 1] = Delivers(g[n], x) /\ h[n + 1] = Delivers(Onto(l, g[n]), x)
    BY <1>2, <1>3, <2>1, <2>2 DEF Deliveries!Through
  <2> HIDE DEF x
  <2>4. Alike(l, g[n], Delivers(g[n], x), Delivers(Onto(l, g[n]), x))
    BY <2>2, DeliversAlike
  <2> QED BY <2>1, <2>2, <2>3, <2>4, AlikeOn
<1>7. \A n \in 0 .. Len(list) : n \in T
  <2> HIDE DEF T
  <2> QED BY <1>4, <1>5, <1>6, Deliveries!UpTo
<1> QED BY <1>2, <1>3, <1>5, <1>7

(* So does every category of the score in turn.                            *)
LEMMA ScoresAlike ==
  ASSUME NEW e, NEW l, NEW list, IsEngine(e), IsSeq(l), IsSeq(list)
  PROVE  Alike(l, e, Scores!Fold(0, e, list), Scores!Fold(0, Onto(l, e), list))
<1>1. PICK S : list \in Seq(S)
  BY DEF IsSeq
<1>2. PICK g : Scores!Through(0, e, list, g) /\ Scores!Fold(0, e, list) = g[Len(list)]
  BY <1>1, Scores!FoldGoesThrough
<1>3. PICK h : /\ Scores!Through(0, Onto(l, e), list, h)
               /\ Scores!Fold(0, Onto(l, e), list) = h[Len(list)]
  BY <1>1, Scores!FoldGoesThrough
<1> DEFINE T == {n \in Nat : Alike(l, e, g[n], h[n])}
<1>4. 0 \in T
  BY <1>2, <1>3, KeepsSelf DEF Scores!Through, Alike
<1>5. Len(list) \in Nat
  BY <1>1
<1>6. ASSUME NEW n \in 0 .. Len(list) - 1, n \in T PROVE n + 1 \in T
  <2>1. n + 1 \in 1 .. Len(list) /\ (n + 1) - 1 = n /\ n + 1 \in Nat
    BY <1>5
  <2>2. IsEngine(g[n]) /\ Keeps(e, g[n]) /\ h[n] = Onto(l, g[n])
    BY <1>6 DEF Alike, Keeps
  <2> DEFINE x == list[n + 1]
  <2>3. g[n + 1] = Scored(g[n], x) /\ h[n + 1] = Scored(Onto(l, g[n]), x)
    BY <1>2, <1>3, <2>1, <2>2 DEF Scores!Through
  <2> HIDE DEF x
  <2>4. Alike(l, g[n], Scored(g[n], x), Scored(Onto(l, g[n]), x))
    BY <2>2, ScoredAlike
  <2> QED BY <2>1, <2>2, <2>3, <2>4, AlikeOn
<1>7. \A n \in 0 .. Len(list) : n \in T
  <2> HIDE DEF T
  <2> QED BY <1>4, <1>5, <1>6, Scores!UpTo
<1> QED BY <1>2, <1>3, <1>5, <1>7

----------------------------------------------------------------------------
(* FoldLeft of the model and the folds of the instances. *)
LEMMA FoldsOfStep ==
  ASSUME NEW e, NEW list
  PROVE  /\ FoldLeft(Occurs, e, list) = Starts!Fold(0, e, list)
         /\ FoldLeft(Fights, e, list) = Efforts!Fold(0, e, list)
         /\ FoldLeft(Arrives, e, list) = Arrivals!Fold(0, e, list)
         /\ FoldLeft(Creates, e, list) = Reports!Fold(0, e, list)
         /\ FoldLeft(Delivers, e, list) = Deliveries!Fold(0, e, list)
         /\ FoldLeft(Scored, e, list) = Scores!Fold(0, e, list)
<1>1. FoldLeft(Occurs, e, list) = Starts!Fold(0, e, list)
  BY DEF Starts!Fold, Starts!Highest, FoldLeft, MapThenFoldSet, Max
<1>2. FoldLeft(Fights, e, list) = Efforts!Fold(0, e, list)
  BY DEF Efforts!Fold, Efforts!Highest, FoldLeft, MapThenFoldSet, Max
<1>3. FoldLeft(Arrives, e, list) = Arrivals!Fold(0, e, list)
  BY DEF Arrivals!Fold, Arrivals!Highest, FoldLeft, MapThenFoldSet, Max
<1>4. FoldLeft(Creates, e, list) = Reports!Fold(0, e, list)
  BY DEF Reports!Fold, Reports!Highest, FoldLeft, MapThenFoldSet, Max
<1>5. FoldLeft(Delivers, e, list) = Deliveries!Fold(0, e, list)
  BY DEF Deliveries!Fold, Deliveries!Highest, FoldLeft, MapThenFoldSet, Max
<1>6. FoldLeft(Scored, e, list) = Scores!Fold(0, e, list)
  BY DEF Scores!Fold, Scores!Highest, FoldLeft, MapThenFoldSet, Max
<1> QED BY <1>1, <1>2, <1>3, <1>4, <1>5, <1>6

(* The incidents' part of a step does not look at the log.                 *)
LEMMA IncidentsAlike ==
  ASSUME NEW e, NEW l, IsEngine(e), IsSeq(l)
  PROVE  Alike(l, e, Incidents(e), Incidents(Onto(l, e)))
<1> DEFINE at(w) == Kept(Scenario.incidents, {i \in Incident : Scenario.startTick[i] = w.tick})
           starting == at(e)
           begun(w) == Starts!Fold(0, w, starting)
<1>1. IsSeq(Scenario.incidents) /\ IsSeq(starting)
  BY ScenarioAssumption, KeptIsSeq DEF IsSeq
<1>2. at(Onto(l, e)) = starting
  <2>1. Onto(l, e).tick = e.tick
    BY OntoEngine DEF EngineField
  <2> QED BY <2>1
<1>a. \A w : Incidents(w) = Efforts!Fold(0, Starts!Fold(0, w, at(w)), Scenario.incidents)
  BY FoldsOfStep, Zenon DEF Incidents
<1> HIDE DEF at
<1>3. Incidents(e) = Efforts!Fold(0, begun(e), Scenario.incidents)
  BY <1>a
<1>4. Incidents(Onto(l, e)) = Efforts!Fold(0, begun(Onto(l, e)), Scenario.incidents)
  BY <1>2, <1>a
<1> HIDE DEF starting
<1>5. Alike(l, e, begun(e), begun(Onto(l, e)))
  BY <1>1, StartsAlike
<1> HIDE DEF begun
<1>6. /\ IsEngine(begun(e)) /\ Keeps(e, begun(e)) /\ begun(Onto(l, e)) = Onto(l, begun(e))
  BY <1>5 DEF Alike, Keeps
<1>7. Alike(l, begun(e), Efforts!Fold(0, begun(e), Scenario.incidents),
            Efforts!Fold(0, Onto(l, begun(e)), Scenario.incidents))
  BY <1>1, <1>6, EffortsAlike
<1> QED BY <1>3, <1>4, <1>6, <1>7, AlikeOn

(* The observations' part of a step does not look at the log.              *)
LEMMA ObservationsAlike ==
  ASSUME NEW e, NEW l, IsEngine(e), IsSeq(l)
  PROVE  Alike(l, e, Observations(e), Observations(Onto(l, e)))
<1> DEFINE due(w) == {x \in ToSet(w.awaited) : x.at <= w.tick}
           drop(w) == [w EXCEPT !.awaited = Kept(@, ToSet(@) \ due(w))]
           made(w) == Reports!Fold(0, drop(w), Kept(w.awaited, due(w)))
           landing(w, c) == {a \in ToSet(c.aloft) : a.due <= w.tick}
           land(w, c) == [c EXCEPT !.aloft = Kept(@, ToSet(@) \ landing(w, c))]
           all(w, c) == Deliveries!Fold(0, land(w, c), Kept(c.aloft, landing(w, c)))
           o == Onto(l, e)
<1>1. \A w : Observations(w) = all(w, made(w))
  <2> SUFFICES ASSUME NEW w PROVE Observations(w) = all(w, made(w))
    OBVIOUS
  <2> DEFINE first == FoldLeft(Creates, drop(w), Kept(w.awaited, due(w)))
             second(c) == FoldLeft(Delivers, land(w, c), Kept(c.aloft, landing(w, c)))
  <2>1. Observations(w) = second(first)
    BY DEF Observations
  <2>2. first = made(w)
    BY FoldsOfStep
  <2>3. second(made(w)) = all(w, made(w))
    BY FoldsOfStep
  <2> HIDE DEF first, second, all, made
  <2> QED
    BY <2>1, <2>2, <2>3
<1>2. o.tick = e.tick /\ o.awaited = e.awaited /\ due(o) = due(e)
  BY OntoEngine DEF EngineField
<1>3. IsSeq(e.awaited)
  BY DEF IsEngine
<1>4. Alike(l, e, drop(e), drop(o))
  <2> DEFINE some == due(e)
             rest == Kept(e.awaited, ToSet(e.awaited) \ some)
  <2>0. drop(e) = [e EXCEPT !.awaited = rest] /\ drop(o) = [o EXCEPT !.awaited = rest]
    BY <1>2
  <2>1. IsSeq(rest)
    BY <1>3, KeptIsSeq
  <2> HIDE DEF rest
  <2>2. IsEngine([e EXCEPT !.awaited = rest]) /\ [o EXCEPT !.awaited = rest] = Onto(l, [e EXCEPT !.awaited = rest])
    BY <2>1 DEF Onto, IsEngine, EngineField
  <2>3. Keeps(e, [e EXCEPT !.awaited = rest])
    BY <2>2, Changes DEF IsEngine, EngineField
  <2> QED BY <2>0, <2>2, <2>3 DEF Alike
<1>5. Alike(l, e, made(e), made(o))
  <2> DEFINE list == Kept(e.awaited, due(e))
  <2>1. IsSeq(list)
    BY <1>3, KeptIsSeq
  <2>2. made(e) = Reports!Fold(0, drop(e), list) /\ made(o) = Reports!Fold(0, drop(o), list)
    BY <1>2, Zenon
  <2>3. IsEngine(drop(e)) /\ Keeps(e, drop(e)) /\ drop(o) = Onto(l, drop(e))
    BY <1>4 DEF Alike, Keeps
  <2> HIDE DEF list, drop, made, o
  <2>4. Alike(l, drop(e), Reports!Fold(0, drop(e), list), Reports!Fold(0, Onto(l, drop(e)), list))
    BY <2>1, <2>3, ReportsAlike
  <2> QED BY <2>2, <2>3, <2>4, AlikeOn
<1>6. IsEngine(made(e)) /\ Keeps(e, made(e)) /\ made(o) = Onto(l, made(e))
  BY <1>5 DEF Alike, Keeps
<1> DEFINE m == made(e)
<1>7. all(e, made(e)) = all(e, m) /\ all(o, made(o)) = all(e, Onto(l, m))
  BY <1>2, <1>6, Zenon
<1>8. IsEngine(m) /\ Keeps(e, m)
  BY <1>6
<1> HIDE DEF m, made, due, drop
<1>9. Onto(l, m).aloft = m.aloft /\ IsSeq(m.aloft)
  BY <1>8, OntoEngine DEF EngineField, IsEngine
<1>10. Alike(l, m, land(e, m), land(e, Onto(l, m)))
  <2> DEFINE some == landing(e, m)
             rest == Kept(m.aloft, ToSet(m.aloft) \ some)
  <2>0. land(e, m) = [m EXCEPT !.aloft = rest] /\ land(e, Onto(l, m)) = [Onto(l, m) EXCEPT !.aloft = rest]
    BY <1>9
  <2>1. IsSeq(rest)
    BY <1>9, KeptIsSeq
  <2> HIDE DEF rest
  <2>2. /\ IsEngine([m EXCEPT !.aloft = rest])
        /\ [Onto(l, m) EXCEPT !.aloft = rest] = Onto(l, [m EXCEPT !.aloft = rest])
    BY <1>8, <2>1 DEF Onto, IsEngine, EngineField
  <2>3. Keeps(m, [m EXCEPT !.aloft = rest])
    BY <1>8, <2>2, Changes DEF IsEngine, EngineField
  <2> QED BY <2>0, <2>2, <2>3 DEF Alike
<1>11. Alike(l, m, all(e, m), all(e, Onto(l, m)))
  <2> DEFINE list == Kept(m.aloft, landing(e, m))
  <2>1. IsSeq(list)
    BY <1>9, KeptIsSeq
  <2>2. /\ all(e, m) = Deliveries!Fold(0, land(e, m), list)
        /\ all(e, Onto(l, m)) = Deliveries!Fold(0, land(e, Onto(l, m)), list)
    BY <1>9, Zenon
  <2>3. IsEngine(land(e, m)) /\ Keeps(m, land(e, m)) /\ land(e, Onto(l, m)) = Onto(l, land(e, m))
    BY <1>10 DEF Alike, Keeps
  <2> HIDE DEF list, land, all
  <2>4. Alike(l, land(e, m), Deliveries!Fold(0, land(e, m), list), Deliveries!Fold(0, Onto(l, land(e, m)), list))
    BY <2>1, <2>3, DeliveriesAlike
  <2> QED BY <1>8, <2>2, <2>3, <2>4, AlikeOn
<1> HIDE DEF all
<1>12. Alike(l, e, all(e, m), all(e, Onto(l, m)))
  BY <1>8, <1>11, AlikeOn
<1> QED BY <1>1, <1>7, <1>12 DEF o

(* The verifications' part of a step does not look at the log.             *)
LEMMA VerificationsAlike ==
  ASSUME NEW e, NEW l, IsEngine(e), IsSeq(l)
  PROVE  Alike(l, e, Verifications(e), Verifications(Onto(l, e)))
<1> DEFINE marks == [n \in DOMAIN e.delivered |-> Checked(e, e.delivered[n])]
<1>1. Onto(l, e).teams = e.teams /\ Onto(l, e).delivered = e.delivered
  BY OntoEngine DEF EngineField
<1>2. \A r : Checked(Onto(l, e), r) = Checked(e, r)
  <2>1. \A d : Inspected(Onto(l, e), d) <=> Inspected(e, d)
    BY <1>1 DEF Inspected
  <2> QED BY <2>1 DEF Checked
<1>3. Verifications(e) = [e EXCEPT !.delivered = marks]
  BY DEF Verifications
<1>4. Verifications(Onto(l, e)) = [Onto(l, e) EXCEPT !.delivered = marks]
  BY <1>1, <1>2 DEF Verifications
<1> HIDE DEF marks
<1>5. /\ IsEngine([e EXCEPT !.delivered = marks])
      /\ [Onto(l, e) EXCEPT !.delivered = marks] = Onto(l, [e EXCEPT !.delivered = marks])
  BY DEF Onto, IsEngine, EngineField
<1>6. Keeps(e, [e EXCEPT !.delivered = marks])
  BY <1>5, Changes DEF IsEngine, EngineField
<1> QED BY <1>3, <1>4, <1>5, <1>6 DEF Alike

(* Computing the score anew does not look at the log: the resolved         *)
(* incidents it reads are counted in handled.                              *)
LEMMA RescoredAlike ==
  ASSUME NEW e, NEW l, IsEngine(e), IsSeq(l)
  PROVE  Alike(l, e, Rescored(e), Rescored(Onto(l, e)))
<1> DEFINE order == <<"events_handled", "events_missed", "wasted_dispatch">>
           r == Scores!Fold(0, e, order)
           points == Points(e)
<1>1. Rescored(e) = [r EXCEPT !.score = points]
  BY FoldsOfStep, Zenon DEF Rescored
<1>2. Points(Onto(l, e)) = points
  <2>1. \A f \in EngineField \ {"log"} : Onto(l, e)[f] = e[f]
    BY OntoEngine
  <2>2. /\ Onto(l, e).tick = e.tick /\ Onto(l, e).incidents = e.incidents
        /\ Onto(l, e).handled = e.handled /\ Onto(l, e).wasted = e.wasted
    BY <2>1 DEF EngineField
  <2> QED BY <2>2 DEF Points, Missed
<1>3. Rescored(Onto(l, e)) = [Scores!Fold(0, Onto(l, e), order) EXCEPT !.score = points]
  BY <1>2, FoldsOfStep, Zenon DEF Rescored
<1>4. IsSeq(order)
  <2>1. order \in Seq({"events_handled", "events_missed", "wasted_dispatch"})
    OBVIOUS
  <2> HIDE DEF order
  <2> QED BY <2>1 DEF IsSeq
<1> HIDE DEF order, points
<1>5. Alike(l, e, r, Scores!Fold(0, Onto(l, e), order))
  BY <1>4, ScoresAlike
<1> HIDE DEF r
<1>6. IsEngine(r) /\ Keeps(e, r) /\ Scores!Fold(0, Onto(l, e), order) = Onto(l, r)
  BY <1>5 DEF Alike, Keeps
<1>7. /\ IsEngine([r EXCEPT !.score = points])
      /\ [Onto(l, r) EXCEPT !.score = points] = Onto(l, [r EXCEPT !.score = points])
  BY <1>6 DEF Onto, IsEngine, EngineField
<1>8. Keeps(r, [r EXCEPT !.score = points])
  BY <1>6, <1>7, Changes DEF IsEngine, EngineField
<1>9. Keeps(e, [r EXCEPT !.score = points])
  BY <1>6, <1>8, KeepsOn
<1> QED BY <1>1, <1>3, <1>6, <1>7, <1>9 DEF Alike

(* The digest of a step does not look at the log.                          *)
LEMMA DigestAlike ==
  ASSUME NEW e, NEW l, IsEngine(e), IsSeq(l)
  PROVE  Alike(l, e, Digest(e), Digest(Onto(l, e)))
<1>1. Onto(l, e).teams = e.teams
  BY OntoEngine DEF EngineField
<1>2. /\ Digest(e) = Emit(e, "SystemStateChanged", [teams |-> e.teams])
      /\ Digest(Onto(l, e)) = Emit(Onto(l, e), "SystemStateChanged", [teams |-> e.teams])
  BY <1>1 DEF Digest
<1> QED BY <1>2, Emits DEF Apart

(* The event that completes a run.                                         *)
Ending(e) ==
  Event("ScenarioCompleted", e.tick, [finalScore |-> e.score, finalTick |-> e.tick])
(* The log is the one given, with the completion at its end if the run is  *)
(* over.                                                                   *)
Last1(e, log) ==
  IF e.tick < Scenario.totalTicks THEN e.log = log ELSE e.log = Append(log, Ending(e))

(* A step of a running engine: a tick later, the log longer by what the    *)
(* step did and, at the last tick, by the completion.                      *)
Stepped(e, r) ==
  /\ IsEngine(r)
  /\ r.tick = e.tick + 1 /\ r.seed = e.seed /\ r.commands = e.commands
  /\ r.phase = IF r.tick < Scenario.totalTicks THEN e.phase ELSE "completed"
  /\ Tally(e) => Tally(r)
  /\ \E ext : Quiet(ext, r.tick) /\ Last1(r, e.log \o ext)

(* Finishing a step (finalizeRun at the last tick) does not look at the    *)
(* log, and completes the run exactly at its last tick.                    *)
LEMMA FinalizedAlike ==
  ASSUME NEW e, NEW l, IsEngine(e), IsSeq(l)
  PROVE  /\ Finalized(Onto(l, e)) = Onto(l, Finalized(e))
         /\ IsEngine(Finalized(e))
         /\ Finalized(e).tick = e.tick /\ Finalized(e).seed = e.seed /\ Finalized(e).commands = e.commands
         /\ Finalized(e).phase = IF e.tick < Scenario.totalTicks THEN e.phase ELSE "completed"
         /\ Tally(e) => Tally(Finalized(e))
         /\ Last1(Finalized(e), e.log)
<1> DEFINE done(w) == [w EXCEPT !.phase = "completed"]
           data == [finalScore |-> e.score, finalTick |-> e.tick]
           ev == Event("ScenarioCompleted", e.tick, data)
           d == done(e)
           r == Emit(d, "ScenarioCompleted", data)
<1>1. Onto(l, e).tick = e.tick /\ Onto(l, e).score = e.score
  BY OntoEngine DEF EngineField
<1>2. Finalized(e) = IF e.tick < Scenario.totalTicks THEN e ELSE r
  BY DEF Finalized
<1>3. Finalized(Onto(l, e)) = IF e.tick < Scenario.totalTicks THEN Onto(l, e)
                              ELSE Emit(done(Onto(l, e)), "ScenarioCompleted", data)
  BY <1>1 DEF Finalized
<1>4. /\ IsEngine(d) /\ done(Onto(l, e)) = Onto(l, d)
      /\ d.tick = e.tick /\ d.seed = e.seed /\ d.phase = "completed" /\ d.log = e.log
      /\ d.handled = e.handled /\ d.score = e.score /\ d.commands = e.commands
  BY DEF Onto, IsEngine, EngineField
<1> HIDE DEF done, d
<1>5. Emit(Onto(l, d), "ScenarioCompleted", data) = Onto(l, r) /\ Grown(d, r, ev)
  BY <1>4, Emitted
<1>6. /\ IsEngine(r) /\ r.log = Append(e.log, ev)
      /\ r.tick = e.tick /\ r.seed = e.seed /\ r.phase = "completed"
      /\ r.handled = e.handled /\ r.score = e.score /\ r.commands = e.commands
  BY <1>4, <1>5 DEF Grown, EngineField
<1>7. Tally(e) => Tally(r)
  <2>1. ev.kind # "IncidentResolved" /\ IsSeq(e.log)
    BY DEF IsEngine, Event
  <2> HIDE DEF ev, r
  <2>2. Resolved(Append(e.log, ev)) = Resolved(e.log)
    BY <2>1, ResolvedAppend
  <2> QED BY <1>6, <2>2 DEF Tally
<1>8. e.tick \in Nat /\ Scenario.totalTicks \in Nat
  BY ScenarioAssumption DEF IsEngine
<1>9. ev = Ending(r)
  BY <1>6 DEF Ending
<1> HIDE DEF r, ev
<1>10. Last1(r, e.log) \/ e.tick < Scenario.totalTicks
  BY <1>6, <1>9 DEF Last1
<1>11. e.tick < Scenario.totalTicks => Last1(e, e.log)
  BY DEF Last1
<1> QED BY <1>2, <1>3, <1>4, <1>5, <1>6, <1>7, <1>10, <1>11

(* A step does not look at the log, and does what Stepped says.            *)
LEMMA StepAlike ==
  ASSUME NEW e, NEW l, IsEngine(e), IsSeq(l), e.phase # "completed"
  PROVE  StepEngine(Onto(l, e)) = Onto(l, StepEngine(e)) /\ Stepped(e, StepEngine(e))
<1> DEFINE later(w) == [w EXCEPT !.tick = @ + 1]
           a == later(e)
           fought(w) == Incidents(w)
           moved(w) == Arrivals!Fold(0, Incidents(w), Scenario.teams)
           seen(w) == Observations(w)
           rest(w) == Rescored(Digest(Verifications(Observations(moved(w)))))
<1>1. Onto(l, e).phase = e.phase
  BY OntoEngine DEF EngineField
<1>2. \A w : w.phase # "completed" => StepEngine(w) = Finalized(rest(later(w)))
  BY FoldsOfStep, Zenon DEF StepEngine
<1>3. IsEngine(a) /\ later(Onto(l, e)) = Onto(l, a) /\ a.tick = e.tick + 1 /\ a.seed = e.seed
      /\ a.phase = e.phase /\ a.log = e.log /\ a.handled = e.handled /\ a.commands = e.commands
  <2>1. e.tick + 1 \in Nat
    BY DEF IsEngine
  <2>2. a = [e EXCEPT !.tick = e.tick + 1]
    OBVIOUS
  <2>3. later(Onto(l, e)) = [Onto(l, e) EXCEPT !.tick = e.tick + 1]
    BY DEF Onto, IsEngine, EngineField
  <2> DEFINE t == e.tick + 1
  <2>4. a = [e EXCEPT !.tick = t] /\ later(Onto(l, e)) = [Onto(l, e) EXCEPT !.tick = t]
    BY <2>2, <2>3
  <2> HIDE DEF t, a, later
  <2>5. [Onto(l, e) EXCEPT !.tick = t] = Onto(l, [e EXCEPT !.tick = t])
    BY DEF Onto, IsEngine, EngineField
  <2>6. /\ a.tick = t /\ a.seed = e.seed
        /\ a.phase = e.phase /\ a.log = e.log /\ a.handled = e.handled /\ a.commands = e.commands
    BY <2>4 DEF IsEngine, EngineField
  <2>7. IsEngine(a)
    BY <2>1, <2>4 DEF IsEngine, EngineField, t
  <2> QED BY <2>4, <2>5, <2>6, <2>7 DEF t
<1> HIDE DEF later, a
<1>4. Alike(l, a, rest(a), rest(Onto(l, a)))
  <2> DEFINE m1 == Incidents(a)
             m2 == Arrivals!Fold(0, m1, Scenario.teams)
             m3 == Observations(m2)
             m4 == Verifications(m3)
             m5 == Digest(m4)
  <2>1. IsEngine(m1) /\ Keeps(a, m1) /\ Incidents(Onto(l, a)) = Onto(l, m1)
    BY <1>3, IncidentsAlike DEF Alike, Keeps
  <2> HIDE DEF m1
  <2>2. IsEngine(m2) /\ Keeps(a, m2) /\ moved(Onto(l, a)) = Onto(l, m2)
    <3>1. IsSeq(Scenario.teams)
      BY ScenarioAssumption DEF IsSeq
    <3>2. Alike(l, m1, m2, Arrivals!Fold(0, Onto(l, m1), Scenario.teams))
      BY <2>1, <3>1, ArrivalsAlike
    <3> HIDE DEF m2
    <3>3. Alike(l, a, m2, Arrivals!Fold(0, Onto(l, m1), Scenario.teams))
      BY <1>3, <2>1, <3>2, AlikeOn
    <3> QED BY <2>1, <3>3 DEF Alike, Keeps
  <2>m. moved(a) = m2
    BY DEF m1
  <2> HIDE DEF m2, moved
  <2>3. IsEngine(m3) /\ Keeps(a, m3) /\ Observations(Onto(l, m2)) = Onto(l, m3)
    <3>1. Alike(l, m2, m3, Observations(Onto(l, m2)))
      BY <2>2, ObservationsAlike
    <3> HIDE DEF m3
    <3>2. Alike(l, a, m3, Observations(Onto(l, m2)))
      BY <1>3, <2>2, <3>1, AlikeOn
    <3> QED BY <3>2 DEF Alike, Keeps
  <2> HIDE DEF m3
  <2>4. IsEngine(m4) /\ Keeps(a, m4) /\ Verifications(Onto(l, m3)) = Onto(l, m4)
    <3>1. Alike(l, m3, m4, Verifications(Onto(l, m3)))
      BY <2>3, VerificationsAlike
    <3> HIDE DEF m4
    <3>2. Alike(l, a, m4, Verifications(Onto(l, m3)))
      BY <1>3, <2>3, <3>1, AlikeOn
    <3> QED BY <3>2 DEF Alike, Keeps
  <2> HIDE DEF m4
  <2>5. IsEngine(m5) /\ Keeps(a, m5) /\ Digest(Onto(l, m4)) = Onto(l, m5)
    <3>1. Alike(l, m4, m5, Digest(Onto(l, m4)))
      BY <2>4, DigestAlike
    <3> HIDE DEF m5
    <3>2. Alike(l, a, m5, Digest(Onto(l, m4)))
      BY <1>3, <2>4, <3>1, AlikeOn
    <3> QED BY <3>2 DEF Alike, Keeps
  <2> HIDE DEF m5
  <2>6. Alike(l, a, Rescored(m5), Rescored(Onto(l, m5)))
    BY <1>3, <2>5, RescoredAlike, AlikeOn
  <2>7. rest(a) = Rescored(m5) /\ rest(Onto(l, a)) = Rescored(Onto(l, m5))
    BY <2>m, <2>2, <2>3, <2>4, <2>5 DEF m3, m4, m5
  <2> QED BY <2>6, <2>7
<1> DEFINE m == rest(a)
<1>5. IsEngine(m) /\ Keeps(a, m) /\ rest(Onto(l, a)) = Onto(l, m)
  BY <1>4 DEF Alike, Keeps
<1>6. StepEngine(e) = Finalized(m) /\ StepEngine(Onto(l, e)) = Finalized(Onto(l, m))
  BY <1>1, <1>2, <1>3, <1>5 DEF a
<1> HIDE DEF rest, m
<1>7. PICK ext : Quiet(ext, a.tick) /\ m.log = e.log \o ext
  BY <1>3, <1>5 DEF Keeps
<1> DEFINE r == Finalized(m)
<1>8. /\ Finalized(Onto(l, m)) = Onto(l, r) /\ IsEngine(r)
      /\ r.tick = m.tick /\ r.seed = m.seed /\ r.commands = m.commands
      /\ r.phase = IF m.tick < Scenario.totalTicks THEN m.phase ELSE "completed"
      /\ Tally(m) => Tally(r)
      /\ Last1(r, m.log)
  BY <1>5, FinalizedAlike
<1> HIDE DEF r
<1>9. Tally(e) => Tally(a)
  BY <1>3 DEF Tally
<1>10. m.tick = a.tick /\ m.seed = a.seed /\ m.phase = a.phase /\ m.commands = a.commands /\ (Tally(a) => Tally(m))
  BY <1>5 DEF Keeps
<1>11. Stepped(e, r)
  BY <1>3, <1>7, <1>8, <1>9, <1>10 DEF Stepped
<1> QED BY <1>6, <1>8, <1>11 DEF r

----------------------------------------------------------------------------
(* Two answers that differ in what the engine's log begins with. *)
SameAnswer(l, e, a, b) ==
  b.accepted = a.accepted /\ b.eta = a.eta /\ Alike(l, e, a.engine, b.engine)

(* A refusal does not look at the log.                                     *)
LEMMA RefusedAlike ==
  ASSUME NEW e, NEW l, IsEngine(e)
  PROVE  SameAnswer(l, e, Refused(e), Refused(Onto(l, e)))
BY KeepsSelf DEF SameAnswer, Refused, Alike

(* Dispatching a team does not look at the log.                            *)
LEMMA DispatchAlike ==
  ASSUME NEW e, NEW l, IsEngine(e), IsSeq(l), NEW t, NEW d, NEW task
  PROVE  SameAnswer(l, e, Dispatch(e, t, d, task), Dispatch(Onto(l, e), t, d, task))
<1>1. \A f \in EngineField \ {"log"} : Onto(l, e)[f] = e[f]
  BY OntoEngine
<1>2. Onto(l, e).tick = e.tick /\ Onto(l, e).teams = e.teams /\ Onto(l, e).orders = e.orders
  BY <1>1 DEF EngineField
<1> DEFINE eta == e.tick + (IF e.teams[t].location = d THEN 0 ELSE Scenario.travel)
           id  == e.orders + 1
           order == [id |-> id, target |-> d, task |-> task]
           no == task \notin Scenario.tasks[t] \/ e.teams[t].status = "transit"
           data == [team |-> t, order |-> id, to |-> d, eta |-> eta]
           out(w) == [w EXCEPT !.orders = id,
                               !.teams[t] = [@ EXCEPT !.status = "transit", !.eta = eta, !.order = order]]
           yes(w) == [accepted |-> TRUE, eta |-> eta, engine |-> Emit(out(w), "TeamDispatched", data)]
<1>3. Dispatch(e, t, d, task) = IF no THEN Refused(e) ELSE yes(e)
  BY DEF Dispatch
<1>4. Dispatch(Onto(l, e), t, d, task) = IF no THEN Refused(Onto(l, e)) ELSE yes(Onto(l, e))
  BY <1>2 DEF Dispatch
<1> HIDE DEF no, data, eta, id, order
<1>5. IsEngine(out(e)) /\ out(Onto(l, e)) = Onto(l, out(e))
  BY DEF Onto, IsEngine, EngineField
<1>a. /\ out(e).tick = e.tick /\ out(e).seed = e.seed /\ out(e).phase = e.phase /\ out(e).log = e.log
      /\ out(e).handled = e.handled /\ out(e).commands = e.commands
  BY DEF IsEngine, EngineField
<1>6. Keeps(e, out(e))
  <2> HIDE DEF out
  <2> QED BY <1>5, <1>a, Changes
<1> HIDE DEF out
<1>7. Alike(l, e, yes(e).engine, yes(Onto(l, e)).engine)
  BY <1>5, <1>6, Emits, AlikeOn DEF Apart
<1>8. SameAnswer(l, e, yes(e), yes(Onto(l, e)))
  BY <1>7 DEF SameAnswer
<1> HIDE DEF yes
<1> QED BY <1>3, <1>4, <1>8, RefusedAlike

(* Cancelling an order does not look at the log.                           *)
LEMMA CancelAlike ==
  ASSUME NEW e, NEW l, IsEngine(e), IsSeq(l), NEW o
  PROVE  SameAnswer(l, e, Cancel(e, o), Cancel(Onto(l, e), o))
<1>1. \A f \in EngineField \ {"log"} : Onto(l, e)[f] = e[f]
  BY OntoEngine
<1>2. Onto(l, e).tick = e.tick /\ Onto(l, e).teams = e.teams
  BY <1>1 DEF EngineField
<1> DEFINE holders(w) == {t \in TeamName : w.teams[t].order # NoOrder /\ w.teams[t].order.id = o}
           t == CHOOSE h \in holders(e) : TRUE
           ahead == IF e.teams[t].eta = NoTick THEN 0 ELSE e.teams[t].eta - e.tick
           waste == IF ahead > 0 THEN ahead ELSE 0
           data == [action |-> "order_cancelled", team |-> t]
           noted(w) == IF e.teams[t].status = "working" THEN Emit(w, "ActionApplied", data) ELSE w
           off(w) == [w EXCEPT !.wasted = @ + waste,
                               !.teams[t] = [@ EXCEPT !.status = "idle", !.eta = NoTick, !.order = NoOrder]]
           yes(w) == [accepted |-> TRUE, eta |-> NoTick, engine |-> off(noted(w))]
<1>3. holders(Onto(l, e)) = holders(e)
  BY <1>2
<1>4. Cancel(e, o) = IF holders(e) = {} THEN Refused(e) ELSE yes(e)
  BY DEF Cancel
<1>5. Cancel(Onto(l, e), o) = IF holders(e) = {} THEN Refused(Onto(l, e)) ELSE yes(Onto(l, e))
  BY <1>2, <1>3, Zenon DEF Cancel
<1> HIDE DEF holders, t, ahead, waste, data
<1>6. Alike(l, e, noted(e), noted(Onto(l, e)))
  BY Emits, KeepsSelf DEF Apart, Alike
<1> DEFINE n == noted(e)
<1>7. IsEngine(n) /\ Keeps(e, n) /\ noted(Onto(l, e)) = Onto(l, n)
  BY <1>6 DEF Alike, Keeps
<1> HIDE DEF noted, n
<1>8. IsEngine(off(n)) /\ off(Onto(l, n)) = Onto(l, off(n))
  BY <1>7 DEF Onto, IsEngine, EngineField
<1>a. /\ off(n).tick = n.tick /\ off(n).seed = n.seed /\ off(n).phase = n.phase /\ off(n).log = n.log
      /\ off(n).handled = n.handled /\ off(n).commands = n.commands
  BY <1>7 DEF IsEngine, EngineField
<1>9. Keeps(n, off(n))
  <2> HIDE DEF off
  <2> QED BY <1>7, <1>8, <1>a, Changes
<1> HIDE DEF off
<1>10. Alike(l, e, off(n), off(Onto(l, n)))
  BY <1>7, <1>8, <1>9, KeepsOn DEF Alike
<1>11. SameAnswer(l, e, yes(e), yes(Onto(l, e)))
  BY <1>7, <1>10 DEF SameAnswer, n
<1> HIDE DEF yes
<1> QED BY <1>4, <1>5, <1>11, RefusedAlike

(* Executing a command does not look at the log.                           *)
LEMMA ExecuteAlike ==
  ASSUME NEW e, NEW l, IsEngine(e), IsSeq(l), NEW c, c.name \in CommandName
  PROVE  SameAnswer(l, e, Execute(e, c), Execute(Onto(l, e), c))
<1>1. CASE c.name = "DISPATCH_TEAM"
  BY <1>1, DispatchAlike DEF Execute
<1>2. CASE c.name = "REQUEST_VERIFICATION"
  BY <1>2, DispatchAlike DEF Execute
<1>3. CASE c.name = "CANCEL_ORDER"
  BY <1>3, CancelAlike DEF Execute
<1> QED BY <1>1, <1>2, <1>3 DEF CommandName

(* An answered command: its outcome is in the log, under its id, and       *)
(* around it only what executing and scoring added.                        *)
OutcomeOf(a) == IF a.accepted THEN "CommandAccepted" ELSE "CommandRejected"
(* The answer a to command id: the engine after it, with the outcome in    *)
(* its log.                                                                *)
Responds(e, id, a) ==
  /\ a.id = id /\ a.accepted \in BOOLEAN
  /\ IsEngine(a.engine)
  /\ a.engine.tick = e.tick /\ a.engine.seed = e.seed /\ a.engine.phase = e.phase
  /\ a.engine.commands = e.commands
  /\ Tally(e) => Tally(a.engine)
  /\ \E q, r, data : /\ Quiet(q, e.tick) /\ Quiet(r, e.tick) /\ data.id = id
                     /\ a.engine.log = Append(e.log \o q, Event(OutcomeOf(a), e.tick, data)) \o r

(* Two decisions that differ in what the engine's log begins with.         *)
SameDecision(l, a, b) ==
  /\ b.engine = Onto(l, a.engine)
  /\ b.id = a.id /\ b.accepted = a.accepted /\ b.code = a.code /\ b.eta = a.eta

(* No event at all is quiet.                                               *)
LEMMA QuietNone ==
  ASSUME NEW tick
  PROVE  Quiet(<<>>, tick)
<1> DEFINE none == <<>>
<1>1. IsSeq(none)
  BY SeqShort
<1>2. \A n \in DOMAIN none : FALSE
  OBVIOUS
<1> HIDE DEF none
<1> QED BY <1>1, <1>2 DEF Quiet, none

(* What is emitted as the outcome of a command. *)
LEMMA OutcomeEmitted ==
  ASSUME NEW e, NEW l, NEW kind, NEW data, IsEngine(e), IsSeq(l), kind # "IncidentResolved"
  PROVE  /\ Emit(Onto(l, e), kind, data) = Onto(l, Emit(e, kind, data))
         /\ Grown(e, Emit(e, kind, data), Event(kind, e.tick, data))
         /\ Tally(e) => Tally(Emit(e, kind, data))
<1> DEFINE ev == Event(kind, e.tick, data)
           r == Emit(e, kind, data)
<1>0. Emit(Onto(l, e), kind, data) = Onto(l, r) /\ Grown(e, r, ev)
  BY Emitted
<1>1. /\ IsEngine(r) /\ r.log = Append(e.log, ev)
      /\ \A f \in EngineField \ {"log"} : r[f] = e[f]
  BY <1>0 DEF Grown
<1>3. Tally(e) => Tally(r)
  <2>1. ev.kind # "IncidentResolved" /\ IsSeq(e.log)
    BY DEF IsEngine, Event
  <2> HIDE DEF ev, r
  <2>2. Resolved(Append(e.log, ev)) = Resolved(e.log)
    BY <2>1, ResolvedAppend
  <2>3. r.handled = e.handled
    BY <1>1 DEF EngineField
  <2> QED BY <1>1, <2>2, <2>3 DEF Tally
<1> QED BY <1>0, <1>3

(* Rejecting a command does not look at the log and logs the rejection     *)
(* under the command's id.                                                 *)
LEMMA RejectedAlike ==
  ASSUME NEW e, NEW l, IsEngine(e), IsSeq(l), NEW id, NEW code
  PROVE  /\ SameDecision(l, Rejected(e, id, code), Rejected(Onto(l, e), id, code))
         /\ Responds(e, id, Rejected(e, id, code))
<1> DEFINE data == [id |-> id, code |-> code]
           kind == "CommandRejected"
           r == Emit(e, kind, data)
           a == Rejected(e, id, code)
<1>0. /\ Emit(Onto(l, e), kind, data) = Onto(l, r) /\ Grown(e, r, Event(kind, e.tick, data))
      /\ Tally(e) => Tally(r)
  BY OutcomeEmitted
<1>1. /\ IsEngine(r) /\ r.log = Append(e.log, Event(kind, e.tick, data))
      /\ \A f \in EngineField \ {"log"} : r[f] = e[f]
  BY <1>0 DEF Grown
<1>2. /\ a = [engine |-> r, id |-> id, accepted |-> FALSE, code |-> code, eta |-> NoTick]
      /\ Rejected(Onto(l, e), id, code) =
           [engine |-> Emit(Onto(l, e), kind, data), id |-> id, accepted |-> FALSE, code |-> code, eta |-> NoTick]
  BY DEF Rejected
<1>3. data.id = id
  OBVIOUS
<1> HIDE DEF r, data, kind
<1>4. SameDecision(l, a, Rejected(Onto(l, e), id, code))
  BY <1>0, <1>2 DEF SameDecision
<1> HIDE DEF a
<1>5. r.log = Append(e.log \o <<>>, Event(kind, e.tick, data)) \o <<>>
  <2> DEFINE w == e.log
             ev == Event(kind, e.tick, data)
  <2>1. IsSeq(w)
    BY DEF IsEngine
  <2> HIDE DEF w, ev
  <2>2. w \o <<>> = w /\ IsSeq(Append(w, ev))
    BY <2>1, SeqAppend
  <2>3. Append(w, ev) \o <<>> = Append(w, ev)
    BY <2>2, SeqAppend
  <2> QED BY <1>1, <2>2, <2>3 DEF w, ev
<1>6. /\ r.tick = e.tick /\ r.seed = e.seed /\ r.phase = e.phase /\ r.commands = e.commands
  BY <1>1 DEF EngineField
<1>7. a.engine = r /\ a.id = id /\ a.accepted = FALSE /\ OutcomeOf(a) = kind
  BY <1>2 DEF kind, OutcomeOf
<1>8. Responds(e, id, a)
  BY <1>0, <1>1, <1>3, <1>5, <1>6, <1>7, QuietNone DEF Responds
<1> QED BY <1>4, <1>8 DEF a

(* Deciding a command (submitCommand after its issue) does not look at the *)
(* log and logs one outcome under the command's id.                        *)
LEMMA DecidedAlike ==
  ASSUME NEW e, NEW l, IsEngine(e), IsSeq(l), NEW id, NEW c, c.name \in CommandName, NEW key
  PROVE  /\ SameDecision(l, Decided(e, id, c, key), Decided(Onto(l, e), id, c, key))
         /\ Responds(e, id, Decided(e, id, c, key))
<1> DEFINE done(w) == Execute(w, c)
           keyed(w) == [done(w).engine EXCEPT !.keys = @ \cup {key}]
           data(w) == [id |-> id, key |-> key, eta |-> done(w).eta]
           ruled(w) == Emit(keyed(w), "CommandAccepted", data(w))
           yes(w) == [engine |-> Rescored(ruled(w)), id |-> id, accepted |-> TRUE, code |-> "", eta |-> done(w).eta]
           o == Onto(l, e)
<1>1. \A w : Decided(w, id, c, key) =
        IF key \in w.keys THEN Rejected(w, id, "duplicate_command")
        ELSE IF ~done(w).accepted THEN Rejected(w, id, "refused") ELSE yes(w)
  BY Zenon DEF Decided
<1>2. o.keys = e.keys
  BY OntoEngine DEF EngineField
<1> DEFINE x == done(e).engine
<1>3. /\ done(o).accepted = done(e).accepted /\ done(o).eta = done(e).eta
      /\ IsEngine(x) /\ Keeps(e, x) /\ done(o).engine = Onto(l, x)
  <2>1. SameAnswer(l, e, done(e), done(o))
    BY ExecuteAlike
  <2> HIDE DEF done, o
  <2> QED BY <2>1 DEF SameAnswer, Alike, Keeps
<1> DEFINE k == [x EXCEPT !.keys = @ \cup {key}]
           d == data(e)
<1>4. keyed(e) = k /\ keyed(o) = [Onto(l, x) EXCEPT !.keys = @ \cup {key}] /\ data(o) = d
  BY <1>3
<1>5. d.id = id
  OBVIOUS
<1> HIDE DEF x, d, o, done, data
<1>6. IsEngine(k) /\ [Onto(l, x) EXCEPT !.keys = @ \cup {key}] = Onto(l, k)
  BY <1>3 DEF Onto, IsEngine, EngineField
<1>7. Keeps(x, k)
  BY <1>3, <1>6, Changes DEF IsEngine, EngineField
<1>8. Keeps(e, k)
  BY <1>3, <1>7, KeepsOn
<1>9. ruled(e) = Emit(k, "CommandAccepted", d) /\ ruled(o) = Emit(Onto(l, k), "CommandAccepted", d)
  BY <1>4, <1>6 DEF d
<1> HIDE DEF k, keyed
<1> DEFINE r == Emit(k, "CommandAccepted", d)
           ev == Event("CommandAccepted", k.tick, d)
<1>b. /\ Emit(Onto(l, k), "CommandAccepted", d) = Onto(l, r) /\ Grown(k, r, ev)
      /\ Tally(k) => Tally(r)
  BY <1>6, OutcomeEmitted
<1>10. /\ IsEngine(r) /\ r.log = Append(k.log, ev)
       /\ \A f \in EngineField \ {"log"} : r[f] = k[f]
  BY <1>b DEF Grown
<1> HIDE DEF r, ruled
<1> DEFINE s == Rescored(r)
<1>11. IsEngine(s) /\ Keeps(r, s) /\ Rescored(Onto(l, r)) = Onto(l, s)
  BY <1>10, RescoredAlike DEF Alike, Keeps
<1> DEFINE a == yes(e)
<1>12. a = [engine |-> s, id |-> id, accepted |-> TRUE, code |-> "", eta |-> done(e).eta]
  BY <1>9 DEF r
<1>13. yes(o) = [engine |-> Onto(l, s), id |-> id, accepted |-> TRUE, code |-> "", eta |-> done(e).eta]
  BY <1>3, <1>9, <1>b, <1>11 DEF r
<1> HIDE DEF s, a, yes
<1>14. SameDecision(l, a, yes(o))
  <2> DEFINE b == yes(o)
  <2>0. b = [engine |-> Onto(l, s), id |-> id, accepted |-> TRUE, code |-> "", eta |-> done(e).eta]
    BY <1>13
  <2> HIDE DEF b
  <2>1. /\ a.engine = s /\ a.id = id /\ a.accepted = TRUE /\ a.code = "" /\ a.eta = done(e).eta
    BY <1>12
  <2>2. /\ b.engine = Onto(l, s) /\ b.id = id /\ b.accepted = TRUE /\ b.code = "" /\ b.eta = done(e).eta
    BY <2>0
  <2> QED BY <2>1, <2>2 DEF SameDecision, b
<1>15. Responds(e, id, a)
  <2>1. PICK q : Quiet(q, e.tick) /\ k.log = e.log \o q
    BY <1>8 DEF Keeps
  <2>2. PICK z : Quiet(z, r.tick) /\ s.log = r.log \o z
    BY <1>11 DEF Keeps
  <2>3. /\ k.tick = e.tick /\ k.seed = e.seed /\ k.phase = e.phase /\ k.commands = e.commands
        /\ Tally(e) => Tally(k)
    BY <1>8 DEF Keeps
  <2>4. r.tick = e.tick /\ r.seed = e.seed /\ r.phase = e.phase /\ r.commands = e.commands
    BY <1>10, <2>3 DEF EngineField
  <2>5. s.tick = e.tick /\ s.seed = e.seed /\ s.phase = e.phase /\ s.commands = e.commands /\ (Tally(e) => Tally(s))
    BY <1>b, <1>11, <2>3, <2>4 DEF Keeps
  <2>6. s.log = Append(e.log \o q, ev) \o z /\ Quiet(z, e.tick)
    BY <1>10, <2>1, <2>2, <2>4
  <2>7. a.engine = s /\ a.id = id /\ a.accepted = TRUE /\ OutcomeOf(a) = "CommandAccepted"
    BY <1>12 DEF OutcomeOf
  <2>8. a.engine.log = Append(e.log \o q, Event(OutcomeOf(a), e.tick, d)) \o z
    BY <2>3, <2>6, <2>7
  <2> HIDE DEF ev
  <2> QED BY <1>5, <1>11, <2>1, <2>5, <2>6, <2>7, <2>8 DEF Responds
<1>16. CASE key \in e.keys
  BY <1>1, <1>2, <1>16, RejectedAlike DEF o
<1>17. CASE key \notin e.keys /\ ~done(e).accepted
  BY <1>1, <1>2, <1>3, <1>17, RejectedAlike DEF o
<1>18. CASE key \notin e.keys /\ done(e).accepted
  BY <1>1, <1>2, <1>3, <1>14, <1>15, <1>18 DEF o, a
<1> QED BY <1>16, <1>17, <1>18

----------------------------------------------------------------------------
(* Steps and the replay of a log (restoreEngine) as folds.                 *)
Stepping == INSTANCE FoldLaws WITH Op <- LAMBDA p, e, k : StepEngine(e)
Replays  == INSTANCE FoldLaws WITH Op <- LAMBDA p, e, ev : Resubmit(e, ev)

(* Steps go on one at a time.                                              *)
LEMMA StepsMore ==
  ASSUME NEW e, NEW n \in Nat
  PROVE  Steps(e, 0) = e /\ Steps(e, n + 1) = StepEngine(Steps(e, n))
<1> DEFINE count(m) == [k \in 1 .. m |-> k]
<1>1. \A m : Steps(e, m) = Stepping!Fold(0, e, count(m))
  BY DEF Steps, Stepping!Fold, Stepping!Highest, FoldLeft, MapThenFoldSet, Max
<1>2. count(n) \in Seq(Nat) /\ n + 1 \in Nat
  OBVIOUS
<1>3. count(n + 1) = Append(count(n), n + 1)
  OBVIOUS
<1>4. count(0) = <<>>
  OBVIOUS
<1> HIDE DEF count
<1>5. Stepping!Fold(0, e, Append(count(n), n + 1)) = StepEngine(Stepping!Fold(0, e, count(n)))
  BY <1>2, Stepping!FoldAppend
<1>6. Stepping!Fold(0, e, <<>>) = e
  BY Stepping!FoldEmpty
<1> QED BY <1>1, <1>3, <1>4, <1>5, <1>6

(* The engine as far as the commands of a log bring it. *)
Rebuilt(seed, log) == FoldLeft(Resubmit, FreshEngine(seed), log)

(* Rebuilt is a fold.                                                      *)
LEMMA RebuiltIsFold ==
  ASSUME NEW seed, NEW log
  PROVE  Rebuilt(seed, log) = Replays!Fold(0, FreshEngine(seed), log)
BY DEF Rebuilt, Replays!Fold, Replays!Highest, FoldLeft, MapThenFoldSet, Max

(* What an event more in the log adds to the rebuilt engine.               *)
LEMMA RebuiltAppend ==
  ASSUME NEW seed, NEW log, NEW ev, IsSeq(log)
  PROVE  Rebuilt(seed, Append(log, ev)) = Resubmit(Rebuilt(seed, log), ev)
<1>1. PICK S : log \in Seq(S)
  BY DEF IsSeq
<1> DEFINE U == S \cup {ev}
<1>2. log \in Seq(U) /\ ev \in U
  BY <1>1
<1> HIDE DEF U
<1>3. \A b : Replays!Fold(0, b, Append(log, ev)) = Resubmit(Replays!Fold(0, b, log), ev)
  BY <1>2, Replays!FoldAppend
<1> QED BY <1>3, RebuiltIsFold

(* What is not a command is passed over. *)
LEMMA RebuiltQuiet ==
  ASSUME NEW seed, NEW log, NEW ext, NEW tick, IsSeq(log), Quiet(ext, tick)
  PROVE  Rebuilt(seed, log \o ext) = Rebuilt(seed, log)
<1> DEFINE b == Replays!Fold(0, FreshEngine(seed), log)
<1>1. PICK S : log \in Seq(S)
  BY DEF IsSeq
<1>2. PICK R : ext \in Seq(R)
  BY DEF IsSeq, Quiet
<1> DEFINE U == S \cup R
<1>3. log \in Seq(U) /\ ext \in Seq(U)
  BY <1>1, <1>2
<1> HIDE DEF U
<1>4. Rebuilt(seed, log \o ext) = Replays!Fold(0, b, ext)
  BY <1>3, Replays!FoldConcat, RebuiltIsFold
<1> HIDE DEF b
<1> DEFINE g == [n \in 0 .. Len(ext) |-> b]
<1>5. Replays!Through(0, b, ext, g)
  <2>1. Len(ext) \in Nat /\ DOMAIN ext = 1 .. Len(ext)
    BY <1>3
  <2>2. \A n \in 1 .. Len(ext) : Resubmit(b, ext[n]) = b
    BY <2>1 DEF Quiet, Apart, Resubmit
  <2>3. g[0] = b
    BY <2>1
  <2>4. ASSUME NEW n \in 1 .. Len(ext) PROVE g[n] = Resubmit(g[n - 1], ext[n])
    <3>1. n \in 0 .. Len(ext) /\ n - 1 \in 0 .. Len(ext)
      BY <2>1
    <3> QED BY <2>2, <3>1
  <2> HIDE DEF g
  <2> QED BY <2>3, <2>4 DEF Replays!Through
<1>6. g[Len(ext)] = b
  <2>1. Len(ext) \in 0 .. Len(ext)
    BY <1>3
  <2> QED BY <2>1
<1> HIDE DEF g
<1>7. Replays!Fold(0, b, ext) = b
  BY <1>3, <1>5, <1>6, Replays!FoldIsEnd
<1> QED BY <1>4, <1>7, RebuiltIsFold DEF b

(* Commands are what their name and their parameters say. *)
LEMMA SubmitFields ==
  ASSUME NEW e, NEW c, NEW d, NEW key, c.name \in CommandName, d.name = c.name, d.params = c.params
  PROVE  Submit(e, c, key) = Submit(e, d, key)
<1>1. \A w : Execute(w, c) = Execute(w, d)
  BY DEF Execute, CommandName
<1>2. \A w, id : Decided(w, id, c, key) = Decided(w, id, d, key)
  <2> SUFFICES ASSUME NEW w, NEW id PROVE Decided(w, id, c, key) = Decided(w, id, d, key)
    OBVIOUS
  <2>1. Execute(w, c) = Execute(w, d)
    BY <1>1
  <2> QED BY <2>1 DEF Decided
<1>3. Decide(e, c, key) = Decide(e, d, key)
  BY <1>2, Zenon DEF Decide
<1> QED BY <1>3 DEF Submit

----------------------------------------------------------------------------
(* Ticks that do not go back. *)
Rising(log, tick) ==
  /\ IsSeq(log)
  /\ \A n \in DOMAIN log : log[n].tick \in Nat /\ log[n].tick <= tick
  /\ \A n \in DOMAIN log : n + 1 \in DOMAIN log => log[n].tick <= log[n + 1].tick

(* One event more, at a tick not before the last one's, keeps the ticks    *)
(* rising.                                                                 *)
LEMMA RisingAppend ==
  ASSUME NEW log, NEW ev, NEW tick \in Nat, NEW old \in Nat, Rising(log, old), old <= tick,
         ev.tick = tick
  PROVE  Rising(Append(log, ev), tick)
<1>1. PICK S : log \in Seq(S)
  BY DEF IsSeq, Rising
<1> DEFINE U == S \cup {ev}
           longer == Append(log, ev)
           N == Len(log)
<1>2. log \in Seq(U) /\ ev \in U
  BY <1>1
<1> HIDE DEF U
<1>3. /\ longer \in Seq(U) /\ N \in Nat /\ DOMAIN log = 1 .. N /\ DOMAIN longer = 1 .. N + 1
      /\ longer[N + 1] = ev /\ \A n \in 1 .. N : longer[n] = log[n]
  BY <1>2
<1> HIDE DEF longer, N
<1>4. ASSUME NEW n \in DOMAIN longer PROVE longer[n].tick \in Nat /\ longer[n].tick <= tick
  <2>1. CASE n = N + 1
    BY <1>3, <2>1
  <2>2. CASE n \in 1 .. N
    <3>1. longer[n] = log[n] /\ log[n].tick \in Nat /\ log[n].tick <= old
      BY <1>3, <2>2 DEF Rising
    <3> QED BY <3>1
  <2> QED BY <1>3, <2>1, <2>2
<1>5. ASSUME NEW n \in DOMAIN longer, n + 1 \in DOMAIN longer PROVE longer[n].tick <= longer[n + 1].tick
  <2>1. CASE n = N
    <3>1. longer[n].tick \in Nat /\ longer[n].tick <= tick /\ longer[n + 1] = ev
      BY <1>3, <1>4, <2>1
    <3> QED BY <3>1
  <2>2. CASE n + 1 \in 1 .. N
    <3>1. n \in 1 .. N
      BY <1>3, <2>2
    <3>2. longer[n] = log[n] /\ longer[n + 1] = log[n + 1] /\ log[n].tick <= log[n + 1].tick
      BY <1>3, <2>2, <3>1 DEF Rising
    <3> QED BY <3>2
  <2> QED BY <1>3, <1>5, <2>1, <2>2
<1> QED BY <1>2, <1>3, <1>4, <1>5 DEF Rising, IsSeq, longer

(* And so do quiet events.                                                 *)
LEMMA RisingQuiet ==
  ASSUME NEW log, NEW ext, NEW tick \in Nat, NEW old \in Nat, Rising(log, old), old <= tick,
         Quiet(ext, tick)
  PROVE  Rising(log \o ext, tick)
<1> DEFINE both == log \o ext
           M == Len(log)
           N == Len(ext)
<1>1. IsSeq(log) /\ IsSeq(ext)
  BY DEF Rising, Quiet
<1>2. /\ M \in Nat /\ N \in Nat /\ DOMAIN log = 1 .. M /\ DOMAIN ext = 1 .. N
      /\ DOMAIN both = 1 .. M + N
      /\ \A n \in 1 .. M : both[n] = log[n]
      /\ \A n \in 1 .. N : both[M + n] = ext[n]
  BY <1>1, SeqParts
<1>3. IsSeq(both)
  BY <1>1, SeqAppend
<1> HIDE DEF both, M, N
<1>4. ASSUME NEW n \in M + 1 .. M + N PROVE both[n].tick = tick
  <2>1. n - M \in 1 .. N /\ M + (n - M) = n
    BY <1>2
  <2>2. both[n] = ext[n - M] /\ n - M \in DOMAIN ext
    BY <1>2, <2>1
  <2> QED BY <2>2 DEF Quiet
<1>5. ASSUME NEW n \in 1 .. M PROVE both[n] = log[n] /\ log[n].tick \in Nat /\ log[n].tick <= old
  BY <1>2 DEF Rising
<1>6. ASSUME NEW n \in DOMAIN both PROVE both[n].tick \in Nat /\ both[n].tick <= tick
  <2>1. CASE n \in 1 .. M
    BY <1>5, <2>1
  <2>2. CASE n \in M + 1 .. M + N
    BY <1>4, <2>2
  <2> QED BY <1>2, <2>1, <2>2
<1>7. ASSUME NEW n \in DOMAIN both, n + 1 \in DOMAIN both PROVE both[n].tick <= both[n + 1].tick
  <2>1. CASE n + 1 \in M + 1 .. M + N
    BY <1>4, <1>6, <2>1
  <2>2. CASE n + 1 \in 1 .. M
    <3>1. n \in 1 .. M
      BY <1>2, <2>2
    <3> QED BY <1>2, <1>5, <2>2, <3>1 DEF Rising
  <2> QED BY <1>2, <1>7, <2>1, <2>2
<1> QED BY <1>3, <1>6, <1>7 DEF Rising, both

----------------------------------------------------------------------------
(* The log begins with the start, and ends with the completion of a run    *)
(* that is over: neither stands anywhere else.                             *)
Genesis(seed) ==
  Event("ScenarioStarted", 0,
        [scenario |-> Scenario.id, seed |-> seed, totalTicks |-> Scenario.totalTicks])
(* The run is over; where its completion stands in the log, if at all.     *)
Over(e) == e.tick = Scenario.totalTicks
End(e) == IF e.tick < Scenario.totalTicks THEN 0 ELSE Len(e.log)
(* A log that begins with the start of the run and has its completion at   *)
(* end, and neither anywhere else.                                         *)
Framed(log, seed, end) ==
  /\ IsSeq(log) /\ log # <<>> /\ log[1] = Genesis(seed)
  /\ \A n \in DOMAIN log :
       /\ n # 1 => log[n].kind # "ScenarioStarted"
       /\ (log[n].kind = "ScenarioCompleted") <=> n = end

(* Quiet events keep the frame of a log.                                   *)
LEMMA FramedQuiet ==
  ASSUME NEW log, NEW seed, NEW ext, NEW tick, Framed(log, seed, 0), Quiet(ext, tick)
  PROVE  Framed(log \o ext, seed, 0)
<1> DEFINE both == log \o ext
           M == Len(log)
           N == Len(ext)
<1>1. IsSeq(log) /\ IsSeq(ext)
  BY DEF Framed, Quiet
<1>2. /\ M \in Nat /\ N \in Nat /\ DOMAIN log = 1 .. M /\ DOMAIN ext = 1 .. N
      /\ DOMAIN both = 1 .. M + N
      /\ \A n \in 1 .. M : both[n] = log[n]
      /\ \A n \in 1 .. N : both[M + n] = ext[n]
  BY <1>1, SeqParts
<1>3. IsSeq(both)
  BY <1>1, SeqAppend
<1>4. M > 0
  <2>1. PICK S : log \in Seq(S)
    BY <1>1 DEF IsSeq
  <2>2. log # <<>>
    BY DEF Framed
  <2> QED BY <2>1, <2>2
<1> HIDE DEF both, M, N
<1>5. both # <<>> /\ both[1] = Genesis(seed)
  <2>1. 1 \in DOMAIN both /\ 1 \in 1 .. M
    BY <1>2, <1>4
  <2>2. both[1] = Genesis(seed)
    BY <1>2, <2>1 DEF Framed
  <2>3. DOMAIN <<>> = {}
    OBVIOUS
  <2> QED BY <2>1, <2>2, <2>3
<1>6. ASSUME NEW n \in DOMAIN both
      PROVE  both[n].kind # "ScenarioCompleted" /\ (n # 1 => both[n].kind # "ScenarioStarted")
  <2>1. CASE n \in 1 .. M
    BY <1>2, <2>1 DEF Framed
  <2>2. CASE n \in M + 1 .. M + N
    <3>1. n - M \in 1 .. N /\ M + (n - M) = n
      BY <1>2, <2>2
    <3>2. both[n] = ext[n - M] /\ n - M \in DOMAIN ext
      BY <1>2, <3>1
    <3> QED BY <3>2 DEF Quiet, Apart
  <2> QED BY <1>2, <2>1, <2>2
<1> QED BY <1>3, <1>5, <1>6 DEF Framed, both

(* And so does an event that is no start; a completion moves the end.      *)
LEMMA FramedAppend ==
  ASSUME NEW log, NEW seed, NEW ev, Framed(log, seed, 0), ev.kind # "ScenarioStarted",
         NEW end, end = IF ev.kind = "ScenarioCompleted" THEN Len(log) + 1 ELSE 0
  PROVE  Framed(Append(log, ev), seed, end)
<1>1. PICK S : log \in Seq(S)
  BY DEF IsSeq, Framed
<1> DEFINE U == S \cup {ev}
           longer == Append(log, ev)
           N == Len(log)
<1>2. log \in Seq(U) /\ ev \in U /\ log # <<>>
  BY <1>1 DEF Framed
<1> HIDE DEF U
<1>3. /\ longer \in Seq(U) /\ N \in Nat /\ DOMAIN log = 1 .. N /\ DOMAIN longer = 1 .. N + 1
      /\ longer[N + 1] = ev /\ \A n \in 1 .. N : longer[n] = log[n]
      /\ N > 0 /\ Len(longer) = N + 1 /\ longer # <<>>
  BY <1>2
<1> HIDE DEF longer, N
<1>4. longer[1] = Genesis(seed)
  BY <1>3 DEF Framed
<1>5. ASSUME NEW n \in DOMAIN longer
      PROVE  /\ n # 1 => longer[n].kind # "ScenarioStarted"
             /\ (longer[n].kind = "ScenarioCompleted") <=> n = end
  <2>1. CASE n = N + 1
    BY <1>3, <2>1
  <2>2. CASE n \in 1 .. N
    BY <1>3, <2>2 DEF Framed
  <2> QED BY <1>3, <2>1, <2>2
<1> QED BY <1>2, <1>3, <1>4, <1>5 DEF Framed, IsSeq, longer

----------------------------------------------------------------------------
(* What holds of an engine that has gone its way from a seed: its clock,   *)
(* its log, and that its commands bring the seed to it.                    *)
Retraced(e) ==
  LET f == Rebuilt(e.seed, e.log)
  IN  f.tick \in Nat /\ f.tick <= e.tick /\ e = Steps(f, e.tick - f.tick)
(* The log ends with the completion.                                       *)
Ended(e) == \E log : IsSeq(log) /\ e.log = Append(log, Ending(e))
(* The inductive invariant of an engine.  Retraced alone is not inductive: *)
(* that a resubmitted command finds the engine at the tick it was issued   *)
(* at needs the ticks of the log rising, and that restoring may pass over  *)
(* the rest of the log needs the frame.                                    *)
Traceable(e) ==
  /\ IsEngine(e)
  /\ e.tick <= Scenario.totalTicks
  /\ e.phase = IF e.tick < Scenario.totalTicks THEN "running" ELSE "completed"
  /\ Tally(e)
  /\ Rising(e.log, e.tick)
  /\ Framed(e.log, e.seed, End(e))
  /\ Over(e) => Ended(e)
  /\ Retraced(e)

(* A fresh engine is traceable, from its seed.                             *)
LEMMA TraceableFresh ==
  ASSUME NEW seed
  PROVE  /\ Traceable(FreshEngine(seed)) /\ FreshEngine(seed).seed = seed
         /\ FreshEngine(seed).tick = 0 /\ FreshEngine(seed).phase = "running"
         /\ FreshEngine(seed).commands = 0
         /\ FreshEngine(seed).log = <<Genesis(seed)>>
<1> DEFINE data == [scenario |-> Scenario.id, seed |-> seed, totalTicks |-> Scenario.totalTicks]
           base == [tick |-> 0, phase |-> "running", seed |-> seed, rng |-> 0, commands |-> 0, orders |-> 0,
                    teams     |-> Table(TeamName, Standby),
                    incidents |-> Table(Incident, Ahead),
                    awaited   |-> <<>>, aloft |-> <<>>, delivered |-> <<>>, handled |-> <<>>,
                    wasted    |-> 0, keys |-> {}, score |-> NoPoints, log |-> <<>>]
           g == Genesis(seed)
           r == FreshEngine(seed)
<1>1. r = Emit(base, "ScenarioStarted", data)
  BY DEF FreshEngine
<1>2. g = Event("ScenarioStarted", 0, data)
  BY DEF Genesis
<1>3. IsEngine(base) /\ base.tick = 0 /\ base.log = <<>> /\ base.seed = seed /\ base.phase = "running"
      /\ base.handled = <<>> /\ base.commands = 0
  BY SeqShort DEF IsEngine, EngineField
<1> HIDE DEF base, data, r
<1>4. Grown(base, r, g)
  <2>1. IsSeq(<<>>)
    BY SeqShort
  <2> QED BY <1>1, <1>2, <1>3, <2>1, Emitted
<1>5. /\ IsEngine(r) /\ r.tick = 0 /\ r.seed = seed /\ r.phase = "running" /\ r.commands = 0
      /\ r.handled = <<>> /\ r.log = Append(<<>>, g)
  BY <1>3, <1>4 DEF Grown, EngineField
<1>6. r.log = <<g>>
  BY <1>5
<1>7. g.kind = "ScenarioStarted" /\ g.tick = 0
  BY DEF Genesis, Event
<1> HIDE DEF g
<1>8. IsSeq(<<g>>) /\ IsSeq(<<>>)
  BY SeqShort
<1>9. \A f, x : Resolved(<<>>) = <<>>
  BY Resolves!FoldEmpty DEF Resolved, Resolves!Fold, Resolves!Highest, FoldLeft, MapThenFoldSet, Max
<1>10. Tally(r)
  BY <1>5, <1>7, <1>8, <1>9, ResolvedAppend DEF Tally
<1>11. DOMAIN <<g>> = {1} /\ <<g>>[1] = g /\ Len(<<g>>) = 1 /\ <<g>> # <<>>
  OBVIOUS
<1>12. Rising(r.log, 0)
  BY <1>6, <1>7, <1>8, <1>11 DEF Rising
<1>13. Framed(r.log, seed, 0)
  BY <1>6, <1>7, <1>8, <1>11 DEF Framed, g
<1>14. Scenario.totalTicks \in Nat /\ Scenario.totalTicks > 0
  BY ScenarioAssumption
<1>15. Rebuilt(seed, <<>>) = r
  <2>1. Replays!Fold(0, r, <<>>) = r
    BY Replays!FoldEmpty
  <2> QED BY <2>1, RebuiltIsFold DEF r
<1>16. Rebuilt(seed, r.log) = r
  <2>1. Rebuilt(seed, Append(<<>>, g)) = Resubmit(Rebuilt(seed, <<>>), g)
    BY <1>8, RebuiltAppend
  <2>2. Resubmit(r, g) = r
    BY <1>7 DEF Resubmit
  <2> QED BY <1>5, <1>15, <2>1, <2>2
<1>17. Retraced(r)
  <2>1. Steps(r, 0) = r
    BY StepsMore
  <2> QED BY <1>5, <1>16, <2>1 DEF Retraced
<1>18. ~Over(r)
  BY <1>5, <1>14 DEF Over
<1>19. Traceable(r)
  BY <1>5, <1>10, <1>12, <1>13, <1>14, <1>17, <1>18 DEF Traceable, End
<1> QED BY <1>5, <1>6, <1>19 DEF r, g

(* A step of a running engine keeps it traceable.                          *)
LEMMA TraceableStep ==
  ASSUME NEW e, Traceable(e), e.phase = "running"
  PROVE  Traceable(StepEngine(e)) /\ Stepped(e, StepEngine(e))
<1> DEFINE r == StepEngine(e)
           T == Scenario.totalTicks
<1>1. IsEngine(e) /\ e.tick \in Nat /\ e.tick < T /\ T \in Nat
  BY ScenarioAssumption DEF Traceable, IsEngine
<1>2. Stepped(e, r)
  <2>1. IsSeq(<<>>)
    BY SeqShort
  <2> QED BY <1>1, <2>1, StepAlike
<1> HIDE DEF r
<1>3. /\ IsEngine(r) /\ r.tick = e.tick + 1 /\ r.seed = e.seed
      /\ r.phase = IF r.tick < T THEN e.phase ELSE "completed"
      /\ Tally(r)
  BY <1>2 DEF Stepped, Traceable
<1>4. PICK ext : Quiet(ext, r.tick) /\ Last1(r, e.log \o ext)
  BY <1>2 DEF Stepped
<1> DEFINE both == e.log \o ext
<1>5. Rising(both, r.tick) /\ Framed(both, e.seed, 0)
  <2>1. Rising(e.log, e.tick) /\ e.tick <= r.tick /\ r.tick \in Nat
    BY <1>1, <1>3 DEF Traceable
  <2>2. Framed(e.log, e.seed, 0)
    BY <1>1 DEF Traceable, End
  <2> QED BY <1>1, <1>4, <2>1, <2>2, RisingQuiet, FramedQuiet
<1>6. Rebuilt(e.seed, both) = Rebuilt(e.seed, e.log)
  BY <1>1, <1>4, RebuiltQuiet DEF IsEngine
<1> HIDE DEF both
<1> DEFINE ev == Ending(r)
<1>7. ev.kind = "ScenarioCompleted" /\ ev.tick = r.tick
  BY DEF Ending, Event
<1> HIDE DEF ev
<1>8. Rebuilt(e.seed, Append(both, ev)) = Rebuilt(e.seed, both)
  <2>1. Rebuilt(e.seed, Append(both, ev)) = Resubmit(Rebuilt(e.seed, both), ev)
    BY <1>5, RebuiltAppend DEF Rising
  <2> QED BY <1>7, <2>1 DEF Resubmit
<1>9. Rising(Append(both, ev), r.tick) /\ Framed(Append(both, ev), e.seed, Len(both) + 1)
  <2>1. r.tick \in Nat /\ r.tick <= r.tick
    BY <1>1, <1>3
  <2>2. Rising(Append(both, ev), r.tick)
    BY <1>5, <1>7, <2>1, RisingAppend
  <2>3. Framed(Append(both, ev), e.seed, Len(both) + 1)
    BY <1>5, <1>7, FramedAppend
  <2> QED BY <2>2, <2>3
<1>10. r.log = IF r.tick < T THEN both ELSE Append(both, ev)
  BY <1>4 DEF Last1, both, ev
<1>11. Retraced(r)
  <2> DEFINE f == Rebuilt(e.seed, e.log)
  <2>1. f.tick \in Nat /\ f.tick <= e.tick /\ e = Steps(f, e.tick - f.tick)
    BY DEF Traceable, Retraced
  <2>2. Rebuilt(r.seed, r.log) = f
    BY <1>3, <1>6, <1>8, <1>10
  <2> HIDE DEF f
  <2> DEFINE n == e.tick - f.tick
  <2>3. n \in Nat /\ r.tick - f.tick = n + 1
    BY <1>1, <1>3, <2>1
  <2> HIDE DEF n
  <2>4. Steps(f, n + 1) = StepEngine(Steps(f, n))
    BY <2>3, StepsMore
  <2>5. r = Steps(f, r.tick - f.tick)
    BY <2>1, <2>3, <2>4 DEF n, r
  <2> QED BY <1>1, <1>3, <2>1, <2>2, <2>5 DEF Retraced
<1>12. CASE r.tick < T
  <2>1. ~Over(r)
    BY <1>1, <1>3, <1>12 DEF Over
  <2>2. End(r) = 0 /\ r.tick <= T
    BY <1>1, <1>3, <1>12 DEF End
  <2>3. r.phase = "running" /\ r.log = both
    BY <1>3, <1>10, <1>12
  <2>4. Framed(r.log, r.seed, End(r)) /\ Rising(r.log, r.tick)
    BY <1>3, <1>5, <2>2, <2>3
  <2> QED BY <1>2, <1>3, <1>11, <1>12, <2>1, <2>2, <2>3, <2>4 DEF Traceable, r
<1>13. CASE ~(r.tick < T)
  <2>1. Over(r) /\ r.tick <= T
    BY <1>1, <1>3, <1>13 DEF Over
  <2>2. Ended(r)
    BY <1>5, <1>10, <1>13 DEF Ended, Rising, ev
  <2>3. Len(Append(both, ev)) = Len(both) + 1
    <3>1. PICK S : both \in Seq(S)
      BY <1>5 DEF Rising, IsSeq
    <3> QED BY <3>1
  <2>4. r.log = Append(both, ev) /\ End(r) = Len(both) + 1
    BY <1>10, <1>13, <2>3 DEF End
  <2>5. Framed(r.log, r.seed, End(r)) /\ Rising(r.log, r.tick)
    BY <1>3, <1>9, <2>4
  <2>6. r.phase = "completed"
    BY <1>3, <1>13
  <2> QED BY <1>2, <1>3, <1>11, <1>13, <2>1, <2>2, <2>5, <2>6 DEF Traceable, r
<1> QED BY <1>12, <1>13

----------------------------------------------------------------------------
(* The engine with a command issued and not yet decided. *)
Asked(e, c, key) == [id |-> e.commands + 1, name |-> c.name, key |-> key, params |-> c.params]
Asking(e, c, key) == Emit([e EXCEPT !.commands = e.commands + 1], "CommandIssued", Asked(e, c, key))
(* What submitting a command does: it is issued under the next id, and     *)
(* then answered.                                                          *)
Submitted(e, c, key, a) ==
  LET i == Asking(e, c, key)
  IN  /\ IsEngine(i)
      /\ i.log = Append(e.log, Event("CommandIssued", e.tick, Asked(e, c, key)))
      /\ i.tick = e.tick /\ i.seed = e.seed /\ i.phase = e.phase /\ i.commands = e.commands + 1
      /\ Tally(e) => Tally(i)
      /\ Responds(i, e.commands + 1, a)

(* Submitting a command does not look at the log and does what Submitted   *)
(* says.                                                                   *)
LEMMA SubmitAlike ==
  ASSUME NEW e, NEW l, IsEngine(e), IsSeq(l), e.phase # "completed",
         NEW c, c.name \in CommandName, NEW key
  PROVE  /\ SameDecision(l, Submit(e, c, key), Submit(Onto(l, e), c, key))
         /\ Submitted(e, c, key, Submit(e, c, key))
<1> DEFINE id == e.commands + 1
           next(w) == [w EXCEPT !.commands = id]
           data == Asked(e, c, key)
           ev == Event("CommandIssued", e.tick, data)
           n == next(e)
           i == Emit(n, "CommandIssued", data)
           o == Onto(l, e)
<1>1. o.phase = e.phase /\ o.commands = e.commands
  BY OntoEngine DEF EngineField
<1>2. /\ \A w : w.phase # "completed" /\ w.commands = e.commands
         => Submit(w, c, key) = Decided(Emit(next(w), "CommandIssued", data), id, c, key)
  BY Zenon DEF Submit, Decide, Asked
<1>3. /\ IsEngine(n) /\ next(Onto(l, e)) = Onto(l, n)
  BY DEF Onto, IsEngine, EngineField
<1>a. /\ n.tick = e.tick /\ n.seed = e.seed /\ n.phase = e.phase /\ n.log = e.log
      /\ n.handled = e.handled /\ n.commands = id
  BY DEF IsEngine, EngineField
<1>b. Submit(e, c, key) = Decided(i, id, c, key)
  BY <1>2
<1>c. Submit(o, c, key) = Decided(Emit(Onto(l, n), "CommandIssued", data), id, c, key)
  BY <1>1, <1>2, <1>3
<1>d. i = Asking(e, c, key)
  BY DEF Asking
<1> HIDE DEF n, next, id, data
<1>4. /\ Emit(Onto(l, n), "CommandIssued", data) = Onto(l, i)
      /\ Grown(n, i, Event("CommandIssued", n.tick, data))
      /\ Tally(n) => Tally(i)
  BY <1>3, OutcomeEmitted
<1>5. /\ IsEngine(i) /\ i.log = Append(n.log, ev)
      /\ \A f \in EngineField \ {"log"} : i[f] = n[f]
  BY <1>a, <1>4 DEF Grown
<1> HIDE DEF i
<1>6. /\ SameDecision(l, Decided(i, id, c, key), Decided(Onto(l, i), id, c, key))
      /\ Responds(i, id, Decided(i, id, c, key))
  BY <1>5, DecidedAlike
<1>7. i.tick = e.tick /\ i.seed = e.seed /\ i.phase = e.phase /\ i.commands = id /\ (Tally(e) => Tally(i))
  BY <1>a, <1>4, <1>5 DEF EngineField, Tally
<1>8. Submitted(e, c, key, Submit(e, c, key))
  BY <1>a, <1>b, <1>d, <1>5, <1>6, <1>7 DEF Submitted, id, data
<1> QED BY <1>b, <1>c, <1>4, <1>6, <1>8 DEF o

(* Submitting a command keeps the engine traceable.                        *)
LEMMA TraceableSubmit ==
  ASSUME NEW e, Traceable(e), e.phase = "running", NEW c, c.name \in CommandName, NEW key
  PROVE  LET r == Submit(e, c, key).engine
         IN  Traceable(r) /\ r.tick = e.tick /\ r.seed = e.seed /\ r.commands = e.commands + 1
<1> DEFINE a == Submit(e, c, key)
           r == a.engine
           i == Asking(e, c, key)
           data == Asked(e, c, key)
           ev == Event("CommandIssued", e.tick, data)
           T == Scenario.totalTicks
           f == Rebuilt(e.seed, e.log)
<1>1. IsEngine(e) /\ e.tick \in Nat /\ e.tick < T /\ T \in Nat /\ Tally(e)
  BY ScenarioAssumption DEF Traceable, IsEngine
<1>2. Submitted(e, c, key, a)
  <2>1. IsSeq(<<>>)
    BY SeqShort
  <2> QED BY <1>1, <2>1, SubmitAlike
<1>3. Submit(e, [name |-> c.name, params |-> c.params], key) = a
  BY SubmitFields
<1>4. ev.kind = "CommandIssued" /\ ev.tick = e.tick /\ ev.data.name = c.name /\ ev.data.key = key
      /\ ev.data.params = c.params
  BY DEF Event, Asked
<1>5. /\ IsEngine(i) /\ i.log = Append(e.log, ev)
      /\ i.tick = e.tick /\ i.seed = e.seed /\ i.phase = e.phase /\ i.commands = e.commands + 1
      /\ Tally(i) /\ Responds(i, e.commands + 1, a)
  BY <1>1, <1>2 DEF Submitted
<1> HIDE DEF a, i, data, ev
<1>6. /\ IsEngine(r) /\ r.tick = e.tick /\ r.seed = e.seed /\ r.phase = "running"
      /\ r.commands = e.commands + 1 /\ Tally(r)
  BY <1>5 DEF Responds
<1>7. PICK q, z, d : /\ Quiet(q, e.tick) /\ Quiet(z, e.tick)
                     /\ r.log = Append(i.log \o q, Event(OutcomeOf(a), e.tick, d)) \o z
  BY <1>5 DEF Responds
<1> DEFINE x == Event(OutcomeOf(a), e.tick, d)
           l1 == Append(e.log, ev)
           l2 == l1 \o q
           l3 == Append(l2, x)
<1>8. r.log = l3 \o z
  BY <1>5, <1>7
<1>9. x.kind \in {"CommandAccepted", "CommandRejected"} /\ x.tick = e.tick
  BY DEF Event, OutcomeOf
<1>s. IsSeq(e.log)
  BY <1>1 DEF IsEngine
<1> HIDE DEF x
<1>10. Rising(l1, e.tick) /\ Framed(l1, e.seed, 0)
  <2>1. Rising(e.log, e.tick) /\ e.tick <= e.tick
    BY <1>1 DEF Traceable
  <2>2. Framed(e.log, e.seed, 0)
    BY <1>1 DEF Traceable, End
  <2>3. Rising(l1, e.tick)
    BY <1>1, <1>4, <2>1, RisingAppend
  <2>4. Framed(l1, e.seed, 0)
    BY <1>4, <2>2, FramedAppend
  <2> QED BY <2>3, <2>4
<1>11. IsSeq(l1)
  BY <1>10 DEF Rising
<1>r1. Rebuilt(e.seed, l1) = Resubmit(f, ev)
  BY <1>s, RebuiltAppend
<1> HIDE DEF l1
<1>12. Rising(l2, e.tick) /\ Framed(l2, e.seed, 0)
  <2>1. Rising(l2, e.tick)
    BY <1>1, <1>7, <1>10, RisingQuiet
  <2> QED BY <1>7, <1>10, <2>1, FramedQuiet
<1>13. IsSeq(l2)
  BY <1>12 DEF Rising
<1>r2. Rebuilt(e.seed, l2) = Rebuilt(e.seed, l1)
  BY <1>7, <1>11, RebuiltQuiet
<1> HIDE DEF l2
<1>14. Rising(l3, e.tick) /\ Framed(l3, e.seed, 0)
  <2>1. Rising(l3, e.tick)
    BY <1>1, <1>9, <1>12, RisingAppend
  <2>2. Framed(l3, e.seed, 0)
    BY <1>9, <1>12, FramedAppend
  <2> QED BY <2>1, <2>2
<1>15. IsSeq(l3)
  BY <1>14 DEF Rising
<1>r3. Rebuilt(e.seed, l3) = Rebuilt(e.seed, l2)
  <2>1. Rebuilt(e.seed, l3) = Resubmit(Rebuilt(e.seed, l2), x)
    BY <1>13, RebuiltAppend
  <2> QED BY <1>9, <2>1 DEF Resubmit
<1> HIDE DEF l3
<1>16. Rising(r.log, e.tick) /\ Framed(r.log, e.seed, 0)
  <2>1. Rising(l3 \o z, e.tick)
    BY <1>1, <1>7, <1>14, RisingQuiet
  <2> QED BY <1>7, <1>8, <1>14, <2>1, FramedQuiet
<1>r4. Rebuilt(e.seed, r.log) = Rebuilt(e.seed, l3)
  BY <1>7, <1>8, <1>15, RebuiltQuiet
<1>17. Resubmit(f, ev) = r
  <2>1. f.tick \in Nat /\ f.tick <= e.tick /\ e = Steps(f, e.tick - f.tick)
    BY DEF Traceable, Retraced
  <2> HIDE DEF f
  <2>2. Reach(f, e.tick) = e
    <3>1. CASE f.tick < e.tick
      BY <2>1, <3>1 DEF Reach
    <3>2. CASE f.tick = e.tick
      <4>1. e.tick - f.tick = 0
        BY <1>1, <3>2
      <4>2. Steps(f, 0) = f
        BY StepsMore
      <4> QED BY <1>1, <2>1, <3>2, <4>1, <4>2 DEF Reach
    <3> QED BY <1>1, <2>1, <3>1, <3>2
  <2> QED BY <1>3, <1>4, <2>2 DEF Resubmit, ResubmitAt
<1>18. Retraced(r)
  <2>1. Rebuilt(r.seed, r.log) = r
    BY <1>6, <1>17, <1>r1, <1>r2, <1>r3, <1>r4
  <2>2. Steps(r, 0) = r
    BY StepsMore
  <2>3. r.tick - r.tick = 0 /\ r.tick \in Nat /\ r.tick <= r.tick
    BY <1>1, <1>6
  <2> QED BY <2>1, <2>2, <2>3 DEF Retraced
<1>19. ~Over(r) /\ End(r) = 0
  BY <1>1, <1>6 DEF Over, End
<1>20. Traceable(r)
  BY <1>1, <1>6, <1>16, <1>18, <1>19 DEF Traceable
<1> QED BY <1>6, <1>20 DEF a

----------------------------------------------------------------------------
(* The state of the player bridge (bridge.ts) by its fields.               *)
BridgeField == {"known", "seen", "claims", "since", "initial", "log"}
IsBridge(b) == b = [f \in BridgeField |-> b[f]] /\ IsSeq(b.log)

(* The bridge has told players more, all of it at one tick. *)
Telling(b, r, tick) ==
  /\ IsBridge(r) /\ r.initial = b.initial
  /\ \E ext : Quiet(ext, tick) /\ r.log = b.log \o ext

(* A bridge that says nothing more tells quietly.                          *)
LEMMA TellingSelf ==
  ASSUME NEW b, IsBridge(b), NEW tick, NEW r, IsBridge(r), r.initial = b.initial, r.log = b.log
  PROVE  Telling(b, r, tick)
<1> DEFINE none == <<>>
<1>1. b.log \o none = b.log
  BY SeqAppend DEF IsBridge
<1>2. Quiet(none, tick)
  BY QuietNone
<1> HIDE DEF none
<1> QED BY <1>1, <1>2 DEF Telling

(* Telling after telling at one tick is telling.                           *)
LEMMA TellingOn ==
  ASSUME NEW b, IsBridge(b), NEW r, NEW s, NEW tick, Telling(b, r, tick), Telling(r, s, tick)
  PROVE  Telling(b, s, tick)
<1>1. PICK x : Quiet(x, tick) /\ r.log = b.log \o x
  BY DEF Telling
<1>2. PICK y : Quiet(y, tick) /\ s.log = r.log \o y
  BY DEF Telling
<1>3. Quiet(x \o y, tick)
  BY <1>1, <1>2, QuietConcat
<1> DEFINE w == b.log
<1>4. IsSeq(w) /\ IsSeq(x) /\ IsSeq(y)
  BY <1>1, <1>2 DEF Quiet, IsBridge
<1> HIDE DEF w
<1>5. (w \o x) \o y = w \o (x \o y)
  BY <1>4, SeqConcat
<1>6. s.log = b.log \o (x \o y)
  BY <1>1, <1>2, <1>5 DEF w
<1> QED BY <1>3, <1>6 DEF Telling

(* What the bridge tells, whatever the event. *)
Spoken(b, r, ev) ==
  /\ IsBridge(r)
  /\ r.log = Append(b.log, ev) /\ r.log = b.log \o <<ev>>
  /\ \A f \in BridgeField \ {"log"} : r[f] = b[f]

(* emitPublic adds its event to the player log and changes nothing else.   *)
LEMMA Tells ==
  ASSUME NEW b, IsBridge(b), NEW tick, NEW kind, NEW data
  PROVE  Spoken(b, Tell(b, tick, kind, data), Event(kind, tick, data))
<1> DEFINE ev == Event(kind, tick, data)
           w == b.log
           r == Tell(b, tick, kind, data)
<1>1. IsSeq(w)
  BY DEF IsBridge
<1>2. r = [b EXCEPT !.log = Append(w, ev)]
  BY DEF Tell, Event
<1> HIDE DEF ev, w, r
<1> DEFINE k == Append(w, ev)
<1>3. IsSeq(k) /\ k = w \o <<ev>>
  BY <1>1, SeqAppend
<1> HIDE DEF k
<1>4. r = [b EXCEPT !.log = k]
  BY <1>2 DEF k
<1>5. IsBridge(r) /\ r.log = k /\ \A f \in BridgeField \ {"log"} : r[f] = b[f]
  BY <1>3, <1>4 DEF IsBridge, BridgeField
<1> QED BY <1>3, <1>5 DEF Spoken, k, w, r, ev

(* An event of another kind than the start, a result and the end is told   *)
(* quietly.                                                                *)
LEMMA TellsQuietly ==
  ASSUME NEW b, IsBridge(b), NEW tick, NEW kind, NEW data, kind \notin Apart
  PROVE  Telling(b, Tell(b, tick, kind, data), tick)
<1>1. Spoken(b, Tell(b, tick, kind, data), Event(kind, tick, data))
  BY Tells
<1>2. Quiet(<<Event(kind, tick, data)>>, tick)
  BY QuietOne
<1>3. Tell(b, tick, kind, data).initial = b.initial
  BY <1>1 DEF Spoken, BridgeField
<1> QED BY <1>1, <1>2, <1>3 DEF Telling, Spoken

(* A claim is told quietly.                                                *)
LEMMA TellsClaim ==
  ASSUME NEW b, IsBridge(b), NEW tick, NEW c
  PROVE  Telling(b, TellClaim(b, tick, c), tick)
BY TellsQuietly DEF TellClaim, Apart

(* What a delivered observation shows players is told quietly.             *)
LEMMA ShowsQuietly ==
  ASSUME NEW b, IsBridge(b), NEW ev
  PROVE  Telling(b, Shown(b, ev), ev.tick)
<1> DEFINE o == ev.data.obs
           c == Scenario.claimOf[o]
           x == Bridge!WithDelivered(b.claims, o, b.known)
           y == IF b.claims[c] = NoClaim THEN b.seen[o] ELSE b.since[c]
           filed == [b EXCEPT !.claims = x, !.since[c] = y]
           shown == [obs |-> o, claim |-> c, text |-> b.known[o].text, observed |-> b.seen[o]]
           told == Tell(filed, ev.tick, "EvidenceRecorded", shown)
<1>1. Shown(b, ev) = TellClaim(told, ev.tick, c)
  <2>1. [b EXCEPT !.claims = Bridge!WithDelivered(@, o, b.known),
                  !.since[c] = IF b.claims[c] = NoClaim THEN b.seen[o] ELSE @] = filed
    <3> HIDE DEF c, o
    <3> QED BY DEF IsBridge, BridgeField
  <2> QED BY <2>1, Zenon DEF Shown
<1> HIDE DEF x, y, c, o, shown
<1>2. IsBridge(filed) /\ filed.initial = b.initial /\ filed.log = b.log
  BY DEF IsBridge, BridgeField
<1> HIDE DEF filed
<1>3. Telling(b, filed, ev.tick)
  BY <1>2, TellingSelf
<1>4. Telling(filed, told, ev.tick)
  BY <1>2, TellsQuietly DEF Apart
<1> HIDE DEF told
<1>t. IsBridge(told)
  BY <1>4 DEF Telling
<1>5. Telling(told, TellClaim(told, ev.tick, c), ev.tick)
  BY <1>t, TellsClaim
<1>6. Telling(b, told, ev.tick)
  BY <1>3, <1>4, TellingOn
<1> QED BY <1>1, <1>5, <1>6, TellingOn

(* So is whatever the bridge hears of any other event than the start and   *)
(* the completion.                                                         *)
LEMMA HearsQuietly ==
  ASSUME NEW b, IsBridge(b), NEW ev, ev.kind \notin {"ScenarioStarted", "ScenarioCompleted"}
  PROVE  Telling(b, Heard(b, ev), ev.tick)
<1>1. CASE ev.kind = "ObservationCreated"
  <2> DEFINE o == ev.data.obs
             made == Made(ev.data.text)
             r == [b EXCEPT !.known[o] = made, !.seen[o] = ev.tick]
  <2>1. Heard(b, ev) = r
    BY <1>1 DEF Heard
  <2> HIDE DEF o, made
  <2>2. IsBridge(r) /\ r.initial = b.initial /\ r.log = b.log
    BY DEF IsBridge, BridgeField
  <2> QED BY <2>1, <2>2, TellingSelf
<1>2. CASE ev.kind = "ObservationCorrupted"
  <2> DEFINE o == ev.data.obs
             as == ev.data.as
             r == [b EXCEPT !.known[o] = as]
  <2>1. Heard(b, ev) = r
    BY <1>2 DEF Heard
  <2> HIDE DEF o, as
  <2>2. IsBridge(r) /\ r.initial = b.initial /\ r.log = b.log
    BY DEF IsBridge, BridgeField
  <2> QED BY <2>1, <2>2, TellingSelf
<1>3. CASE ev.kind = "ObservationDelivered"
  BY <1>3, ShowsQuietly DEF Heard
<1>4. CASE ev.kind = "ScoreChanged"
  <2>1. Heard(b, ev) = Tell(b, ev.tick, "PublicScoreChanged", ev.data)
    BY <1>4 DEF Heard
  <2> QED BY <2>1, TellsQuietly DEF Apart
<1>5. CASE ev.kind \notin {"ObservationCreated", "ObservationCorrupted", "ObservationDelivered", "ScoreChanged"}
  <2>1. Heard(b, ev) = b
    BY <1>5 DEF Heard
  <2> QED BY <2>1, TellingSelf
<1> QED BY <1>1, <1>2, <1>3, <1>4, <1>5

----------------------------------------------------------------------------
(* The folds of mirroring and of telling, as instances of the laws of      *)
(* FoldLaws.                                                               *)
Shows    == INSTANCE FoldLaws WITH Op <- LAMBDA p, r, t : ShowTeam(r, t)
Waitings == INSTANCE FoldLaws WITH Op <- LAMBDA p, r, t : Waits(r, t)
Hearings == INSTANCE FoldLaws WITH Op <- LAMBDA p, b, ev : Heard(b, ev)

(* A run: an engine, its bridge and what teams are asked to verify.        *)
IsRun(r) ==
  /\ r = [engine |-> r.engine, bridge |-> r.bridge, jobs |-> r.jobs]
  /\ IsEngine(r.engine) /\ IsBridge(r.bridge)

(* The run with another log in its engine. *)
Relogged(l, e) == [e EXCEPT !.log = l]
(* The run with another log in its engine.                                 *)
Relog(l, r) == [r EXCEPT !.engine = Relogged(l, r.engine)]

(* Its fields.                                                             *)
LEMMA RelogFields ==
  ASSUME NEW l, NEW r, IsRun(r)
  PROVE  /\ Relog(l, r) = [engine |-> Relogged(l, r.engine), bridge |-> r.bridge, jobs |-> r.jobs]
         /\ \A f \in EngineField \ {"log"} : Relogged(l, r.engine)[f] = r.engine[f]
         /\ Relogged(l, r.engine).log = l
         /\ IsSeq(l) => IsRun(Relog(l, r))
<1> DEFINE e == r.engine
           g == Relogged(l, e)
<1>1. /\ \A f \in EngineField \ {"log"} : g[f] = e[f]
      /\ g.log = l
      /\ g = [f \in EngineField |-> g[f]]
  BY DEF Relogged, IsRun, IsEngine, EngineField
<1>2. Relog(l, r) = [engine |-> g, bridge |-> r.bridge, jobs |-> r.jobs]
  BY DEF Relog, IsRun
<1>3. IsEngine(e)
  BY DEF IsRun
<1> HIDE DEF e, g
<1>4. IsSeq(l) => IsEngine(g)
  BY <1>1, <1>3 DEF IsEngine, EngineField
<1>5. IsSeq(l) => IsRun(Relog(l, r))
  BY <1>2, <1>4 DEF IsRun
<1> QED BY <1>1, <1>2, <1>5 DEF g, e

(* The bridge of the run has told players more, and the log of the engine  *)
(* had no part in it.                                                      *)
Moves(l, r, s, t) ==
  /\ IsRun(s) /\ s.engine = r.engine
  /\ Telling(r.bridge, s.bridge, r.engine.tick)
  /\ t = Relog(l, s)

(* A run that does nothing moves.                                          *)
LEMMA MovesSelf ==
  ASSUME NEW l, NEW r, IsRun(r)
  PROVE  Moves(l, r, r, Relog(l, r))
<1>1. IsBridge(r.bridge)
  BY DEF IsRun
<1>2. Telling(r.bridge, r.bridge, r.engine.tick)
  BY <1>1, TellingSelf
<1> QED BY <1>2 DEF Moves

(* Moves follow each other.                                                *)
LEMMA MovesOn ==
  ASSUME NEW l, NEW r, IsRun(r), NEW s, NEW t, NEW u, NEW v, Moves(l, r, s, t), Moves(l, s, u, v)
  PROVE  Moves(l, r, u, v)
<1>1. IsBridge(r.bridge)
  BY DEF IsRun
<1>2. Telling(r.bridge, s.bridge, r.engine.tick) /\ Telling(s.bridge, u.bridge, r.engine.tick)
  BY DEF Moves
<1>3. Telling(r.bridge, u.bridge, r.engine.tick)
  BY <1>1, <1>2, TellingOn
<1> QED BY <1>3 DEF Moves

(* A run with another bridge. *)
LEMMA MovesBridge ==
  ASSUME NEW l, NEW r, IsRun(r), NEW b, Telling(r.bridge, b, r.engine.tick), NEW j
  PROVE  LET s == [engine |-> r.engine, bridge |-> b, jobs |-> j]
         IN  Moves(l, r, s, [engine |-> Relogged(l, r.engine), bridge |-> b, jobs |-> j])
<1> DEFINE s == [engine |-> r.engine, bridge |-> b, jobs |-> j]
           t == [engine |-> Relogged(l, r.engine), bridge |-> b, jobs |-> j]
<1>1. IsRun(s)
  BY DEF IsRun, Telling
<1>2. s.engine = r.engine /\ s.bridge = b
  OBVIOUS
<1>3. t = Relog(l, s)
  BY DEF Relog
<1> HIDE DEF s, t
<1> QED BY <1>1, <1>2, <1>3 DEF Moves, s, t

(* Showing a team to players does not look at the engine's log.            *)
LEMMA ShowsAlike ==
  ASSUME NEW l, NEW r, IsRun(r), NEW t
  PROVE  Moves(l, r, ShowTeam(r, t), ShowTeam(Relog(l, r), t))
<1> DEFINE e == r.engine
           g == Relogged(l, e)
           data == [team |-> t, state |-> Own(e.teams[t])]
           b == Tell(r.bridge, e.tick, "OwnTeamUpdated", data)
<1>1. /\ Relog(l, r) = [engine |-> g, bridge |-> r.bridge, jobs |-> r.jobs]
      /\ \A f \in EngineField \ {"log"} : g[f] = e[f]
  BY RelogFields
<1>2. g.tick = e.tick /\ g.teams = e.teams
  BY <1>1 DEF EngineField
<1>3. ShowTeam(r, t) = [engine |-> e, bridge |-> b, jobs |-> r.jobs]
  BY DEF ShowTeam, IsRun
<1>4. ShowTeam(Relog(l, r), t) = [engine |-> g, bridge |-> b, jobs |-> r.jobs]
  <2> DEFINE R == [engine |-> g, bridge |-> r.bridge, jobs |-> r.jobs]
  <2>1. R.engine = g /\ R.bridge = r.bridge
    OBVIOUS
  <2>2. ShowTeam(R, t) = [R EXCEPT !.bridge = b]
    BY <1>2, <2>1 DEF ShowTeam
  <2>3. [R EXCEPT !.bridge = b] = [engine |-> g, bridge |-> b, jobs |-> r.jobs]
    OBVIOUS
  <2> QED BY <1>1, <2>2, <2>3
<1>5. Telling(r.bridge, b, e.tick)
  <2>1. IsBridge(r.bridge)
    BY DEF IsRun
  <2> QED BY <2>1, TellsQuietly DEF Apart
<1> HIDE DEF b, g
<1>6. Moves(l, r, [engine |-> e, bridge |-> b, jobs |-> r.jobs],
            [engine |-> g, bridge |-> b, jobs |-> r.jobs])
  BY <1>5, MovesBridge DEF g
<1> QED BY <1>3, <1>4, <1>6

(* The result of a verification is told quietly.                           *)
LEMMA AnsweredTells ==
  ASSUME NEW b, IsBridge(b), NEW tick, NEW t, NEW c
  PROVE  Telling(b, Answered(b, tick, t, c), tick)
<1> DEFINE outcome == Bridge!Outcome(c, b.claims, b.known)
           ruled == [b EXCEPT !.claims = Bridge!WithOutcome(@, c, b.known)]
           first == IF outcome = "inconclusive" THEN b ELSE TellClaim(ruled, tick, c)
           data == [claim |-> c, team |-> t, outcome |-> outcome]
<1>1. Answered(b, tick, t, c) = Tell(first, tick, "VerificationResolved", data)
  BY DEF Answered
<1>2. IsBridge(ruled) /\ ruled.initial = b.initial /\ ruled.log = b.log
  <2> DEFINE x == Bridge!WithOutcome(b.claims, c, b.known)
  <2>1. ruled = [b EXCEPT !.claims = x]
    BY DEF IsBridge, BridgeField
  <2> HIDE DEF x, ruled
  <2> QED BY <2>1 DEF IsBridge, BridgeField
<1> HIDE DEF ruled, outcome, data
<1>3. Telling(b, ruled, tick) /\ Telling(b, b, tick)
  BY <1>2, TellingSelf
<1>4. Telling(ruled, TellClaim(ruled, tick, c), tick)
  BY <1>2, TellsClaim
<1>5. Telling(b, first, tick)
  BY <1>3, <1>4, TellingOn
<1> HIDE DEF first
<1>6. IsBridge(first)
  BY <1>5 DEF Telling
<1>7. Telling(first, Tell(first, tick, "VerificationResolved", data), tick)
  BY <1>6, TellsQuietly DEF Apart
<1> QED BY <1>1, <1>5, <1>7, TellingOn

(* Whether a team's verification is done is decided without a look at the  *)
(* engine's log.                                                           *)
LEMMA WaitsAlike ==
  ASSUME NEW l, NEW r, IsRun(r), NEW t
  PROVE  Moves(l, r, Waits(r, t), Waits(Relog(l, r), t))
<1> DEFINE e == r.engine
           g == Relogged(l, e)
           job == r.jobs[t]
           left == [r.jobs EXCEPT ![t] = NoJob]
           b == Answered(r.bridge, e.tick, t, job.claim)
           same == SameWork(e, t, job)
           works == e.teams[t].status = "working"
           R == [engine |-> g, bridge |-> r.bridge, jobs |-> r.jobs]
<1>1. /\ Relog(l, r) = R
      /\ \A f \in EngineField \ {"log"} : g[f] = e[f]
  BY RelogFields
<1>2. g.tick = e.tick /\ g.teams = e.teams
  BY <1>1 DEF EngineField
<1>3. SameWork(g, t, job) <=> same
  BY <1>2 DEF SameWork
<1>4. Waits(r, t) = IF job = NoJob THEN r
                    ELSE IF ~same THEN [engine |-> e, bridge |-> r.bridge, jobs |-> left]
                    ELSE IF works THEN [engine |-> e, bridge |-> b, jobs |-> left]
                    ELSE r
  <2> DEFINE done == [r EXCEPT !.jobs[t] = NoJob]
  <2>1. done = [engine |-> e, bridge |-> r.bridge, jobs |-> left]
    BY DEF IsRun
  <2>2. Waits(r, t) = IF job = NoJob THEN r
                      ELSE IF ~same THEN done
                      ELSE IF works THEN [done EXCEPT !.bridge = Answered(@, e.tick, t, job.claim)]
                      ELSE r
    BY Zenon DEF Waits
  <2> HIDE DEF done, same, works, job, left, e
  <2>3. [done EXCEPT !.bridge = Answered(@, e.tick, t, job.claim)] = [done EXCEPT !.bridge = b]
    BY <2>1
  <2> HIDE DEF b
  <2>4. [done EXCEPT !.bridge = b] = [engine |-> e, bridge |-> b, jobs |-> left]
    BY <2>1
  <2> QED BY <2>1, <2>2, <2>3, <2>4
<1>5. Waits(R, t) = IF job = NoJob THEN R
                    ELSE IF ~same THEN [engine |-> g, bridge |-> r.bridge, jobs |-> left]
                    ELSE IF works THEN [engine |-> g, bridge |-> b, jobs |-> left]
                    ELSE R
  <2> DEFINE done == [R EXCEPT !.jobs[t] = NoJob]
  <2>0. R.engine = g /\ R.jobs = r.jobs /\ R.bridge = r.bridge
    OBVIOUS
  <2>1. done = [engine |-> g, bridge |-> r.bridge, jobs |-> left]
    OBVIOUS
  <2> HIDE DEF R
  <2>2. Waits(R, t) = IF job = NoJob THEN R
                      ELSE IF ~SameWork(g, t, job) THEN done
                      ELSE IF g.teams[t].status = "working"
                      THEN [done EXCEPT !.bridge = Answered(@, g.tick, t, job.claim)]
                      ELSE R
    BY <2>0, Zenon DEF Waits
  <2> HIDE DEF done, same, job, left, e, g
  <2>3. [done EXCEPT !.bridge = Answered(@, g.tick, t, job.claim)] = [done EXCEPT !.bridge = b]
    BY <1>2, <2>1
  <2> HIDE DEF b
  <2>4. [done EXCEPT !.bridge = b] = [engine |-> g, bridge |-> b, jobs |-> left]
    BY <2>1
  <2> QED BY <1>2, <1>3, <2>1, <2>2, <2>3, <2>4
<1>6. Telling(r.bridge, b, e.tick) /\ Telling(r.bridge, r.bridge, e.tick)
  <2>1. IsBridge(r.bridge)
    BY DEF IsRun
  <2> QED BY <2>1, AnsweredTells, TellingSelf
<1> HIDE DEF b, g, same, works, left, job
<1>7. /\ Moves(l, r, [engine |-> e, bridge |-> b, jobs |-> left], [engine |-> g, bridge |-> b, jobs |-> left])
      /\ Moves(l, r, [engine |-> e, bridge |-> r.bridge, jobs |-> left],
                 [engine |-> g, bridge |-> r.bridge, jobs |-> left])
  BY <1>6, MovesBridge DEF g
<1>8. Moves(l, r, r, R)
  BY <1>1, MovesSelf
<1> HIDE DEF R
<1> QED BY <1>1, <1>4, <1>5, <1>7, <1>8

----------------------------------------------------------------------------
(* Listing each team once, as a fold.                                      *)
Uniques == INSTANCE FoldLaws WITH
  Op <- LAMBDA p, acc, t : IF Contains(acc, t) THEN acc ELSE Append(acc, t)

(* The same for a list of teams in turn.                                   *)
LEMMA ShowsAllAlike ==
  ASSUME NEW l, NEW r, IsRun(r), NEW list, IsSeq(list)
  PROVE  Moves(l, r, Shows!Fold(0, r, list), Shows!Fold(0, Relog(l, r), list))
<1>1. PICK S : list \in Seq(S)
  BY DEF IsSeq
<1>2. PICK g : Shows!Through(0, r, list, g) /\ Shows!Fold(0, r, list) = g[Len(list)]
  BY <1>1, Shows!FoldGoesThrough
<1>3. PICK h : /\ Shows!Through(0, Relog(l, r), list, h)
               /\ Shows!Fold(0, Relog(l, r), list) = h[Len(list)]
  BY <1>1, Shows!FoldGoesThrough
<1> DEFINE T == {n \in Nat : Moves(l, r, g[n], h[n])}
<1>4. 0 \in T
  BY <1>2, <1>3, MovesSelf DEF Shows!Through
<1>5. Len(list) \in Nat
  BY <1>1
<1>6. ASSUME NEW n \in 0 .. Len(list) - 1, n \in T PROVE n + 1 \in T
  <2>1. n + 1 \in 1 .. Len(list) /\ (n + 1) - 1 = n /\ n + 1 \in Nat
    BY <1>5
  <2>2. IsRun(g[n]) /\ Moves(l, r, g[n], h[n]) /\ h[n] = Relog(l, g[n])
    BY <1>6 DEF Moves
  <2> DEFINE x == list[n + 1]
  <2>3. g[n + 1] = ShowTeam(g[n], x) /\ h[n + 1] = ShowTeam(Relog(l, g[n]), x)
    BY <1>2, <1>3, <2>1, <2>2 DEF Shows!Through
  <2> HIDE DEF x
  <2>4. Moves(l, g[n], ShowTeam(g[n], x), ShowTeam(Relog(l, g[n]), x))
    BY <2>2, ShowsAlike
  <2> QED BY <2>1, <2>2, <2>3, <2>4, MovesOn
<1>7. \A n \in 0 .. Len(list) : n \in T
  <2> HIDE DEF T
  <2> QED BY <1>4, <1>5, <1>6, Shows!UpTo
<1> QED BY <1>2, <1>3, <1>5, <1>7

(* The same for a list of teams in turn.                                   *)
LEMMA WaitsAllAlike ==
  ASSUME NEW l, NEW r, IsRun(r), NEW list, IsSeq(list)
  PROVE  Moves(l, r, Waitings!Fold(0, r, list), Waitings!Fold(0, Relog(l, r), list))
<1>1. PICK S : list \in Seq(S)
  BY DEF IsSeq
<1>2. PICK g : Waitings!Through(0, r, list, g) /\ Waitings!Fold(0, r, list) = g[Len(list)]
  BY <1>1, Waitings!FoldGoesThrough
<1>3. PICK h : /\ Waitings!Through(0, Relog(l, r), list, h)
               /\ Waitings!Fold(0, Relog(l, r), list) = h[Len(list)]
  BY <1>1, Waitings!FoldGoesThrough
<1> DEFINE T == {n \in Nat : Moves(l, r, g[n], h[n])}
<1>4. 0 \in T
  BY <1>2, <1>3, MovesSelf DEF Waitings!Through
<1>5. Len(list) \in Nat
  BY <1>1
<1>6. ASSUME NEW n \in 0 .. Len(list) - 1, n \in T PROVE n + 1 \in T
  <2>1. n + 1 \in 1 .. Len(list) /\ (n + 1) - 1 = n /\ n + 1 \in Nat
    BY <1>5
  <2>2. IsRun(g[n]) /\ Moves(l, r, g[n], h[n]) /\ h[n] = Relog(l, g[n])
    BY <1>6 DEF Moves
  <2> DEFINE x == list[n + 1]
  <2>3. g[n + 1] = Waits(g[n], x) /\ h[n + 1] = Waits(Relog(l, g[n]), x)
    BY <1>2, <1>3, <2>1, <2>2 DEF Waitings!Through
  <2> HIDE DEF x
  <2>4. Moves(l, g[n], Waits(g[n], x), Waits(Relog(l, g[n]), x))
    BY <2>2, WaitsAlike
  <2> QED BY <2>1, <2>2, <2>3, <2>4, MovesOn
<1>7. \A n \in 0 .. Len(list) : n \in T
  <2> HIDE DEF T
  <2> QED BY <1>4, <1>5, <1>6, Waitings!UpTo
<1> QED BY <1>2, <1>3, <1>5, <1>7

(* The teams events speak of are a list.                                   *)
LEMMA TouchedIsSeq ==
  ASSUME NEW delta, IsSeq(delta)
  PROVE  IsSeq(Touched(delta))
<1>1. PICK S : delta \in Seq(S)
  BY DEF IsSeq
<1> DEFINE parts == [n \in DOMAIN delta |-> TouchedBy(delta[n])]
           U == TeamName \cup {delta[n].data.team : n \in DOMAIN delta}
           none == <<>>
           list == FlattenSeq(parts)
<1>2. DOMAIN delta = 1 .. Len(delta) /\ Len(delta) \in Nat
  BY <1>1
<1>3. ASSUME NEW n \in DOMAIN delta PROVE TouchedBy(delta[n]) \in Seq(U)
  <2> DEFINE t == delta[n].data.team
  <2>1. t \in U /\ Scenario.teams \in Seq(TeamName) /\ TeamName \subseteq U
    BY ScenarioAssumption
  <2> HIDE DEF U, t
  <2>2. <<t>> \in Seq(U) /\ none \in Seq(U) /\ Scenario.teams \in Seq(U)
    BY <2>1
  <2>3. TouchedBy(delta[n]) \in {<<t>>, none, Scenario.teams}
    BY DEF TouchedBy, t
  <2> QED BY <2>2, <2>3
<1> HIDE DEF U
<1>4. parts \in Seq(Seq(U))
  BY <1>2, <1>3
<1> HIDE DEF parts
<1>5. list \in Seq(U)
  <2>1. list = Uniques!Joined(parts)
    BY DEF FlattenSeq, Uniques!Joined
  <2> QED BY <1>4, <2>1, Uniques!FlattenIsSeq
<1>6. Touched(delta) = Uniques!Fold(0, none, list)
  BY DEF Touched, Uniques!Fold, Uniques!Highest, FoldLeft, MapThenFoldSet, Max, parts
<1> HIDE DEF list
<1>7. PICK g : Uniques!Through(0, none, list, g) /\ Uniques!Fold(0, none, list) = g[Len(list)]
  BY <1>5, Uniques!FoldGoesThrough
<1> DEFINE T == {n \in Nat : IsSeq(g[n])}
<1>8. Len(list) \in Nat
  BY <1>5
<1>9. 0 \in T
  BY <1>7, SeqShort DEF Uniques!Through
<1>10. ASSUME NEW n \in 0 .. Len(list) - 1, n \in T PROVE n + 1 \in T
  <2>1. n + 1 \in 1 .. Len(list) /\ (n + 1) - 1 = n /\ n + 1 \in Nat /\ IsSeq(g[n])
    BY <1>8, <1>10
  <2>2. g[n + 1] = IF Contains(g[n], list[n + 1]) THEN g[n] ELSE Append(g[n], list[n + 1])
    BY <1>7, <2>1 DEF Uniques!Through
  <2>3. IsSeq(Append(g[n], list[n + 1]))
    BY <2>1, SeqAppend
  <2> QED BY <2>1, <2>2, <2>3
<1>11. \A n \in 0 .. Len(list) : n \in T
  <2> HIDE DEF T
  <2> QED BY <1>8, <1>9, <1>10, Uniques!UpTo
<1> QED BY <1>6, <1>7, <1>8, <1>11

(* Mirroring the operational state (mirrorOperationalPublicState) does not *)
(* look at the engine's log.                                               *)
LEMMA MirroredAlike ==
  ASSUME NEW l, NEW r, IsRun(r), NEW delta, IsSeq(delta)
  PROVE  Moves(l, r, Mirrored(r, delta), Mirrored(Relog(l, r), delta))
<1> DEFINE list == Touched(delta)
           s == Shows!Fold(0, r, list)
           t == Shows!Fold(0, Relog(l, r), list)
<1>1. \A w : Mirrored(w, delta) = Waitings!Fold(0, Shows!Fold(0, w, list), Scenario.teams)
  BY DEF Mirrored, Shows!Fold, Shows!Highest, Waitings!Fold, Waitings!Highest, FoldLeft, MapThenFoldSet, Max
<1>2. IsSeq(list) /\ IsSeq(Scenario.teams)
  BY TouchedIsSeq, ScenarioAssumption DEF IsSeq
<1> HIDE DEF list
<1>3. Moves(l, r, s, t)
  BY <1>2, ShowsAllAlike
<1> HIDE DEF s, t
<1>4. IsRun(s) /\ t = Relog(l, s)
  BY <1>3 DEF Moves
<1>5. Moves(l, s, Waitings!Fold(0, s, Scenario.teams), Waitings!Fold(0, t, Scenario.teams))
  BY <1>2, <1>4, WaitsAllAlike
<1>6. Moves(l, r, Waitings!Fold(0, s, Scenario.teams), Waitings!Fold(0, t, Scenario.teams))
  BY <1>3, <1>5, MovesOn
<1> QED BY <1>1, <1>6 DEF s, t

----------------------------------------------------------------------------
(* Events of one tick without the start or the completion of a run. *)
Ordinary(delta, tick) ==
  /\ IsSeq(delta)
  /\ \A n \in DOMAIN delta :
       delta[n].kind \notin {"ScenarioStarted", "ScenarioCompleted"} /\ delta[n].tick = tick

(* Events of one tick, without start and completion, are told quietly one  *)
(* after the other.                                                        *)
LEMMA HearsAll ==
  ASSUME NEW b, IsBridge(b), NEW delta, NEW tick, Ordinary(delta, tick)
  PROVE  Telling(b, Hearings!Fold(0, b, delta), tick)
<1>1. PICK S : delta \in Seq(S)
  BY DEF IsSeq, Ordinary
<1>2. PICK g : Hearings!Through(0, b, delta, g) /\ Hearings!Fold(0, b, delta) = g[Len(delta)]
  BY <1>1, Hearings!FoldGoesThrough
<1> DEFINE T == {n \in Nat : Telling(b, g[n], tick)}
<1>4. 0 \in T
  BY <1>2, TellingSelf DEF Hearings!Through
<1>5. Len(delta) \in Nat /\ DOMAIN delta = 1 .. Len(delta)
  BY <1>1
<1>6. ASSUME NEW n \in 0 .. Len(delta) - 1, n \in T PROVE n + 1 \in T
  <2>1. n + 1 \in 1 .. Len(delta) /\ (n + 1) - 1 = n /\ n + 1 \in Nat
    BY <1>5
  <2>2. IsBridge(g[n]) /\ Telling(b, g[n], tick)
    BY <1>6 DEF Telling
  <2> DEFINE x == delta[n + 1]
  <2>3. g[n + 1] = Heard(g[n], x)
    BY <1>2, <2>1, <2>2 DEF Hearings!Through
  <2>4. x.kind \notin {"ScenarioStarted", "ScenarioCompleted"} /\ x.tick = tick
    BY <1>5, <2>1 DEF Ordinary
  <2> HIDE DEF x
  <2>5. Telling(g[n], Heard(g[n], x), tick)
    BY <2>2, <2>4, HearsQuietly
  <2> QED BY <2>1, <2>2, <2>3, <2>5, TellingOn
<1>7. \A n \in 0 .. Len(delta) : n \in T
  <2> HIDE DEF T
  <2> QED BY <1>4, <1>5, <1>6, Hearings!UpTo
<1> QED BY <1>2, <1>5, <1>7

(* Hearing a list of events is a fold.                                     *)
LEMMA HearsIsFold ==
  ASSUME NEW b, NEW delta
  PROVE  FoldLeft(Heard, b, delta) = Hearings!Fold(0, b, delta)
BY DEF Hearings!Fold, Hearings!Highest, FoldLeft, MapThenFoldSet, Max

(* What SubSeq cuts off a concatenation.                                   *)
LEMMA SeqCuts ==
  ASSUME NEW a, NEW b, IsSeq(a), IsSeq(b), NEW x
  PROVE  /\ SubSeq(a \o b, Len(a) + 1, Len(a \o b)) = b
         /\ SubSeq(a, 1, Len(a)) = a
         /\ SubSeq(a, Len(a) + 1, Len(a)) = <<>>
         /\ SubSeq(Append(a, x), 1, Len(a)) = a
         /\ SubSeq(Append(a, x), Len(a) + 1, Len(Append(a, x))) = <<x>>
<1>1. PICK S : a \in Seq(S)
  BY DEF IsSeq
<1>2. PICK T : b \in Seq(T)
  BY DEF IsSeq
<1> DEFINE U == S \cup T \cup {x}
<1>3. a \in Seq(U) /\ b \in Seq(U) /\ x \in U
  BY <1>1, <1>2
<1> HIDE DEF U
<1>4. SubSeq(a \o b, Len(a) + 1, Len(a \o b)) = b
  BY <1>3
<1>5. SubSeq(a, 1, Len(a)) = a
  BY <1>3
<1>6. SubSeq(a, Len(a) + 1, Len(a)) = <<>>
  BY <1>3
<1>7. SubSeq(Append(a, x), 1, Len(a)) = a
  BY <1>3
<1>8. SubSeq(Append(a, x), Len(a) + 1, Len(Append(a, x))) = <<x>>
  <2> DEFINE one == <<x>>
  <2>1. one \in Seq(U) /\ Append(a, x) = a \o one
    BY <1>3
  <2> HIDE DEF one
  <2>2. SubSeq(a \o one, Len(a) + 1, Len(a \o one)) = one
    BY <1>3, <2>1
  <2> QED BY <2>1, <2>2 DEF one
<1> QED BY <1>4, <1>5, <1>6, <1>7, <1>8

\* What follows the first of two sequences is the second one.
(* The second part of a concatenation.                                     *)
LEMMA SeqTail ==
  ASSUME NEW a, NEW b, IsSeq(a), IsSeq(b)
  PROVE  SubSeq(a \o b, Len(a) + 1, Len(a \o b)) = b
BY SeqCuts

(* Where publishing splits its events: before the completion, if there is  *)
(* one, and after all of them otherwise.                                   *)
LEMMA TerminalOrdinary ==
  ASSUME NEW delta, NEW tick, Ordinary(delta, tick), NEW ev
  PROVE  /\ TerminalIndex(delta) = Len(delta) + 1
         /\ ev.kind = "ScenarioCompleted" => TerminalIndex(Append(delta, ev)) = Len(delta) + 1
<1>1. PICK S : delta \in Seq(S)
  BY DEF IsSeq, Ordinary
<1> DEFINE N == Len(delta)
           U == S \cup {ev}
           longer == Append(delta, ev)
<1>2. delta \in Seq(U) /\ ev \in U
  BY <1>1
<1> HIDE DEF U
<1>3. /\ N \in Nat /\ DOMAIN delta = 1 .. N /\ DOMAIN longer = 1 .. N + 1 /\ Len(longer) = N + 1
      /\ longer[N + 1] = ev /\ \A n \in 1 .. N : longer[n] = delta[n]
  BY <1>2
<1> HIDE DEF N, longer
<1>4. {n \in DOMAIN delta : delta[n].kind = "ScenarioCompleted"} = {}
  BY DEF Ordinary
<1>5. \A k \in Nat : Min({k}) = k
  BY DEF Min
<1>6. \A k \in Nat : Min({k, k + 1}) = k
  <2> SUFFICES ASSUME NEW k \in Nat PROVE Min({k, k + 1}) = k
    OBVIOUS
  <2>1. \A x \in {k, k + 1} : (\A y \in {k, k + 1} : x <= y) <=> x = k
    OBVIOUS
  <2> QED BY <2>1 DEF Min
<1>7. TerminalIndex(delta) = N + 1
  BY <1>3, <1>4, <1>5 DEF TerminalIndex, N
<1>8. ASSUME ev.kind = "ScenarioCompleted" PROVE TerminalIndex(longer) = N + 1
  <2>1. {n \in DOMAIN longer : longer[n].kind = "ScenarioCompleted"} = {N + 1}
    <3>1. \A n \in 1 .. N : longer[n].kind # "ScenarioCompleted"
      BY <1>3 DEF Ordinary
    <3>2. \A n \in DOMAIN longer : n \in 1 .. N \/ n = N + 1
      BY <1>3
    <3>3. N + 1 \in DOMAIN longer
      BY <1>3
    <3> QED BY <1>3, <1>8, <3>1, <3>2, <3>3
  <2>2. {N + 1} \cup {(N + 1) + 1} = {N + 1, (N + 1) + 1} /\ N + 1 \in Nat
    BY <1>3
  <2> QED BY <1>3, <1>6, <2>1, <2>2 DEF TerminalIndex
<1> QED BY <1>7, <1>8 DEF N, longer

(* A run with its bridge replaced, by what the bridge is. *)
Rebridged(b, r) == [r EXCEPT !.bridge = b]

(* The run with its bridge replaced, by its fields.                        *)
LEMMA BridgeReplaced ==
  ASSUME NEW r, IsRun(r), NEW b, NEW l
  PROVE  /\ Rebridged(b, r) = [engine |-> r.engine, bridge |-> b, jobs |-> r.jobs]
         /\ Rebridged(b, Relog(l, r)) =
              [engine |-> Relogged(l, r.engine), bridge |-> b, jobs |-> r.jobs]
         /\ Rebridged(b, Relog(l, r)) = Relog(l, Rebridged(b, r))
<1>1. [r EXCEPT !.bridge = b] = [engine |-> r.engine, bridge |-> b, jobs |-> r.jobs]
  BY DEF IsRun
<1>2. Relog(l, r) = [engine |-> Relogged(l, r.engine), bridge |-> r.bridge, jobs |-> r.jobs]
  BY RelogFields
<1>3. [Relog(l, r) EXCEPT !.bridge = b] =
              [engine |-> Relogged(l, r.engine), bridge |-> b, jobs |-> r.jobs]
  BY <1>2
<1>4. Relog(l, [r EXCEPT !.bridge = b]) = [engine |-> Relogged(l, r.engine), bridge |-> b, jobs |-> r.jobs]
  <2> DEFINE s == [engine |-> r.engine, bridge |-> b, jobs |-> r.jobs]
             g == Relogged(l, s.engine)
  <2>1. s.engine = r.engine /\ Relog(l, s) = [s EXCEPT !.engine = g]
    BY DEF Relog
  <2> HIDE DEF g
  <2>2. [s EXCEPT !.engine = g] = [engine |-> g, bridge |-> b, jobs |-> r.jobs]
    OBVIOUS
  <2> QED BY <1>1, <2>1, <2>2 DEF g
<1> QED BY <1>1, <1>3, <1>4 DEF Rebridged

(* Publishing the events of a tick does not look at the engine's log.      *)
LEMMA ToldOrdinary ==
  ASSUME NEW l, NEW r, IsRun(r), NEW delta, Ordinary(delta, r.engine.tick)
  PROVE  Moves(l, r, Told(r, delta), Told(Relog(l, r), delta))
<1> DEFINE b == Hearings!Fold(0, r.bridge, delta)
           h == Rebridged(b, r)
           m == Mirrored(h, delta)
           N == Len(delta)
           none == <<>>
           R == Relog(l, r)
<1>1. IsSeq(delta)
  BY DEF Ordinary
<1>2. /\ TerminalIndex(delta) = N + 1 /\ N \in Nat /\ (N + 1) - 1 = N
      /\ SubSeq(delta, 1, N) = delta /\ SubSeq(delta, N + 1, N) = none
  <2>1. N \in Nat
    BY <1>1, SeqParts
  <2>2. SubSeq(delta, 1, N) = delta /\ SubSeq(delta, N + 1, N) = none
    BY <1>1, SeqCuts
  <2>3. TerminalIndex(delta) = N + 1
    BY TerminalOrdinary
  <2> HIDE DEF N
  <2> QED BY <2>1, <2>2, <2>3
<1>3. \A x : FoldLeft(Heard, x, none) = x
  BY HearsIsFold, Hearings!FoldEmpty
<1>4. \A w : Told(w, delta) =
        Rebridged(FoldLeft(Heard, Mirrored(Rebridged(FoldLeft(Heard, w.bridge, delta), w), delta).bridge, none),
                  Mirrored(Rebridged(FoldLeft(Heard, w.bridge, delta), w), delta))
  <2> HIDE DEF N, none
  <2> QED BY <1>2 DEF Told, N, Rebridged
<1>5. \A w : Told(w, delta) =
        Rebridged(Mirrored(Rebridged(Hearings!Fold(0, w.bridge, delta), w), delta).bridge,
                  Mirrored(Rebridged(Hearings!Fold(0, w.bridge, delta), w), delta))
  BY <1>3, <1>4, HearsIsFold
<1> HIDE DEF none
<1>6. Telling(r.bridge, b, r.engine.tick)
  BY HearsAll DEF IsRun
<1>7. R.bridge = r.bridge /\ Rebridged(b, R) = Relog(l, h)
  <2>1. R = [engine |-> Relogged(l, r.engine), bridge |-> r.bridge, jobs |-> r.jobs]
    BY RelogFields
  <2>2. Rebridged(b, R) = Relog(l, h)
    <3> HIDE DEF b
    <3> QED BY BridgeReplaced
  <2> QED BY <2>1, <2>2
<1>8. Moves(l, r, h, Relog(l, h))
  <2> HIDE DEF b, h
  <2>1. h = [engine |-> r.engine, bridge |-> b, jobs |-> r.jobs]
    BY BridgeReplaced DEF h
  <2>2. Moves(l, r, h, [engine |-> Relogged(l, r.engine), bridge |-> b, jobs |-> r.jobs])
    BY <1>6, <2>1, MovesBridge
  <2> QED BY <2>2 DEF Moves
<1> HIDE DEF b
<1>9. /\ Told(r, delta) = Rebridged(m.bridge, m)
      /\ Told(R, delta) = Rebridged(Mirrored(Relog(l, h), delta).bridge, Mirrored(Relog(l, h), delta))
  BY <1>5, <1>7 DEF b
<1> HIDE DEF h, R
<1>10. IsRun(h)
  BY <1>8 DEF Moves
<1>11. Moves(l, h, m, Mirrored(Relog(l, h), delta))
  BY <1>1, <1>10, MirroredAlike
<1> HIDE DEF m
<1>12. Moves(l, r, m, Mirrored(Relog(l, h), delta))
  BY <1>8, <1>11, MovesOn
<1>13. IsRun(m) /\ Mirrored(Relog(l, h), delta) = Relog(l, m)
  BY <1>12 DEF Moves
<1>14. Rebridged(m.bridge, m) = m /\ Rebridged(Relog(l, m).bridge, Relog(l, m)) = Relog(l, m)
  <2>1. Relog(l, m) = [engine |-> Relogged(l, m.engine), bridge |-> m.bridge, jobs |-> m.jobs]
    BY <1>13, RelogFields
  <2>2. Relog(l, m).bridge = m.bridge
    BY <2>1
  <2>3. Rebridged(m.bridge, m) = m
    BY <1>13 DEF IsRun, Rebridged
  <2> QED BY <1>13, <2>2, <2>3, BridgeReplaced
<1> QED BY <1>9, <1>12, <1>13, <1>14 DEF R

----------------------------------------------------------------------------
(* The bridge hears of the completion after all else of the last step. *)
Finishes(l, r, s, t, ev) ==
  \E m : Moves(l, r, m, Relog(l, m)) /\ s = Rebridged(Heard(m.bridge, ev), m) /\ t = Relog(l, s)

(* Hearing a list with one event more.                                     *)
LEMMA HearsAppend ==
  ASSUME NEW x, NEW y, NEW S, NEW d \in Seq(S), y \in S
  PROVE  Hearings!Fold(0, x, Append(d, y)) = Heard(Hearings!Fold(0, x, d), y)
BY Hearings!FoldAppend

(* Hearing a single event.                                                 *)
LEMMA HearsOne ==
  ASSUME NEW b, NEW ev
  PROVE  FoldLeft(Heard, b, <<ev>>) = Heard(b, ev)
<1> DEFINE none == <<>>
           S == {ev}
<1>1. none \in Seq(S) /\ ev \in S /\ Append(none, ev) = <<ev>>
  OBVIOUS
<1>2. Hearings!Fold(0, b, none) = b
  BY Hearings!FoldEmpty
<1> HIDE DEF S, none
<1>3. Hearings!Fold(0, b, Append(none, ev)) = Heard(Hearings!Fold(0, b, none), ev)
  BY <1>1, HearsAppend
<1> QED BY <1>1, <1>2, <1>3, HearsIsFold

(* Publishing the last step: all else first, the completion at the end.    *)
LEMMA ToldLast ==
  ASSUME NEW l, NEW r, IsRun(r), NEW ext, Ordinary(ext, r.engine.tick),
         NEW ev, ev.kind = "ScenarioCompleted"
  PROVE  Finishes(l, r, Told(r, Append(ext, ev)), Told(Relog(l, r), Append(ext, ev)), ev)
<1> DEFINE delta == Append(ext, ev)
           one == <<ev>>
           b == Hearings!Fold(0, r.bridge, ext)
           h == Rebridged(b, r)
           m == Mirrored(h, delta)
           N == Len(ext)
           R == Relog(l, r)
<1>1. IsSeq(ext) /\ IsSeq(delta)
  BY SeqAppend DEF Ordinary
<1>2. /\ TerminalIndex(delta) = N + 1 /\ N \in Nat /\ (N + 1) - 1 = N
      /\ SubSeq(delta, 1, N) = ext /\ SubSeq(delta, N + 1, Len(delta)) = one
  <2>1. N \in Nat
    BY <1>1, SeqParts
  <2>2. SubSeq(delta, 1, N) = ext /\ SubSeq(delta, N + 1, Len(delta)) = one
    BY <1>1, SeqCuts
  <2>3. TerminalIndex(delta) = N + 1
    BY TerminalOrdinary
  <2> HIDE DEF N
  <2> QED BY <2>1, <2>2, <2>3
<1>3. \A x : FoldLeft(Heard, x, one) = Heard(x, ev)
  BY HearsOne
<1> HIDE DEF one
<1>4. \A w : Told(w, delta) =
        Rebridged(FoldLeft(Heard, Mirrored(Rebridged(FoldLeft(Heard, w.bridge, ext), w), delta).bridge, one),
                  Mirrored(Rebridged(FoldLeft(Heard, w.bridge, ext), w), delta))
  <2> HIDE DEF N, delta
  <2> QED BY <1>2 DEF Told, N, Rebridged
<1>5. \A w : Told(w, delta) =
        Rebridged(Heard(Mirrored(Rebridged(Hearings!Fold(0, w.bridge, ext), w), delta).bridge, ev),
                  Mirrored(Rebridged(Hearings!Fold(0, w.bridge, ext), w), delta))
  BY <1>3, <1>4, HearsIsFold
<1> HIDE DEF delta
<1>6. Telling(r.bridge, b, r.engine.tick)
  BY HearsAll DEF IsRun
<1>7. R.bridge = r.bridge /\ Rebridged(b, R) = Relog(l, h)
  <2>1. R = [engine |-> Relogged(l, r.engine), bridge |-> r.bridge, jobs |-> r.jobs]
    BY RelogFields
  <2>2. Rebridged(b, R) = Relog(l, h)
    <3> HIDE DEF b
    <3> QED BY BridgeReplaced
  <2> QED BY <2>1, <2>2
<1>8. Moves(l, r, h, Relog(l, h))
  <2> HIDE DEF b, h
  <2>1. h = [engine |-> r.engine, bridge |-> b, jobs |-> r.jobs]
    BY BridgeReplaced DEF h
  <2>2. Moves(l, r, h, [engine |-> Relogged(l, r.engine), bridge |-> b, jobs |-> r.jobs])
    BY <1>6, <2>1, MovesBridge
  <2> QED BY <2>2 DEF Moves
<1> HIDE DEF b
<1>9. /\ Told(r, delta) = Rebridged(Heard(m.bridge, ev), m)
      /\ Told(R, delta) = Rebridged(Heard(Mirrored(Relog(l, h), delta).bridge, ev), Mirrored(Relog(l, h), delta))
  BY <1>5, <1>7 DEF b
<1> HIDE DEF h, R
<1>10. IsRun(h)
  BY <1>8 DEF Moves
<1>11. Moves(l, h, m, Mirrored(Relog(l, h), delta))
  BY <1>1, <1>10, MirroredAlike
<1> HIDE DEF m
<1>12. Moves(l, r, m, Mirrored(Relog(l, h), delta))
  BY <1>8, <1>11, MovesOn
<1>13. IsRun(m) /\ Mirrored(Relog(l, h), delta) = Relog(l, m)
  BY <1>12 DEF Moves
<1>14. Relog(l, m).bridge = m.bridge
  <2>1. Relog(l, m) = [engine |-> Relogged(l, m.engine), bridge |-> m.bridge, jobs |-> m.jobs]
    BY <1>13, RelogFields
  <2> QED BY <2>1
<1>15. Rebridged(Heard(m.bridge, ev), Relog(l, m)) = Relog(l, Rebridged(Heard(m.bridge, ev), m))
  BY <1>13, BridgeReplaced
<1>16. Moves(l, r, m, Relog(l, m))
  BY <1>12, <1>13
<1> QED BY <1>9, <1>13, <1>14, <1>15, <1>16 DEF R, delta, Finishes

(* Logs that differ only in what was asked for in commands. *)
Echoes(d, o) ==
  /\ IsSeq(d) /\ IsSeq(o) /\ Len(d) = Len(o)
  /\ \A n \in 1 .. Len(d) :
       d[n] = o[n] \/ (d[n].kind = "CommandIssued" /\ o[n].kind = "CommandIssued")

(* What players are told does not depend on what was asked for in a        *)
(* command.                                                                *)
LEMMA ToldEchoes ==
  ASSUME NEW r, NEW tick, NEW d, NEW o, Echoes(d, o), Ordinary(d, tick), Ordinary(o, tick)
  PROVE  Told(r, d) = Told(r, o)
<1> DEFINE N == Len(d)
<1>1. PICK S : d \in Seq(S)
  BY DEF IsSeq, Echoes
<1>2. PICK R : o \in Seq(R)
  BY DEF IsSeq, Echoes
<1>3. Len(o) = N /\ N \in Nat /\ DOMAIN d = 1 .. N /\ DOMAIN o = 1 .. N
  BY <1>1, <1>2 DEF Echoes
<1>4. ASSUME NEW n \in 1 .. N
      PROVE  TouchedBy(d[n]) = TouchedBy(o[n]) /\ \A b : Heard(b, d[n]) = Heard(b, o[n])
  <2>1. CASE d[n] = o[n]
    BY <2>1
  <2>2. CASE d[n].kind = "CommandIssued" /\ o[n].kind = "CommandIssued"
    BY <2>2 DEF TouchedBy, Heard
  <2> QED BY <2>1, <2>2 DEF Echoes
<1>5. Touched(d) = Touched(o)
  <2> DEFINE p == [n \in DOMAIN d |-> TouchedBy(d[n])]
             q == [n \in DOMAIN o |-> TouchedBy(o[n])]
  <2>1. p = q
    BY <1>3, <1>4
  <2> HIDE DEF p, q
  <2>2. Touched(d) = FoldLeft(LAMBDA acc, t : IF Contains(acc, t) THEN acc ELSE Append(acc, t), <<>>, FlattenSeq(p))
        /\ Touched(o) = FoldLeft(LAMBDA acc, t : IF Contains(acc, t) THEN acc ELSE Append(acc, t), <<>>, FlattenSeq(q))
    BY Zenon DEF Touched, p, q
  <2> QED BY <2>1, <2>2
<1>6. \A b : FoldLeft(Heard, b, d) = FoldLeft(Heard, b, o)
  <2> SUFFICES ASSUME NEW b PROVE FoldLeft(Heard, b, d) = FoldLeft(Heard, b, o)
    OBVIOUS
  <2>1. PICK g : Hearings!Through(0, b, d, g) /\ Hearings!Fold(0, b, d) = g[N]
    BY <1>1, Hearings!FoldGoesThrough
  <2> HIDE DEF N
  <2>2. Hearings!Through(0, b, o, g)
    <3>1. g[0] = b /\ \A k \in 1 .. N : g[k] = Heard(g[k - 1], d[k])
      BY <2>1 DEF Hearings!Through, N
    <3>2. \A k \in 1 .. N : g[k] = Heard(g[k - 1], o[k])
      BY <1>4, <3>1
    <3> QED BY <1>3, <3>1, <3>2 DEF Hearings!Through
  <2>3. Hearings!Fold(0, b, o) = g[N]
    BY <1>2, <1>3, <2>2, Hearings!FoldIsEnd
  <2> QED BY <2>1, <2>3, HearsIsFold
<1>7. TerminalIndex(d) = N + 1 /\ TerminalIndex(o) = N + 1
  BY <1>3, TerminalOrdinary
<1>8. /\ SubSeq(d, 1, N) = d /\ SubSeq(o, 1, N) = o /\ SubSeq(d, N + 1, N) = <<>> /\ SubSeq(o, N + 1, N) = <<>>
      /\ (N + 1) - 1 = N
  <2>1. SubSeq(d, 1, N) = d /\ SubSeq(d, N + 1, N) = <<>>
    BY SeqCuts DEF Echoes
  <2>2. SubSeq(o, 1, N) = o /\ SubSeq(o, N + 1, N) = <<>>
    BY <1>3, SeqCuts DEF Echoes
  <2> HIDE DEF N
  <2> QED BY <1>3, <2>1, <2>2
<1> HIDE DEF N
<1>9. \A w : Mirrored(w, d) = Mirrored(w, o)
  BY <1>5, Zenon DEF Mirrored
<1> DEFINE none == <<>>
           h == [r EXCEPT !.bridge = FoldLeft(Heard, @, d)]
           k == [r EXCEPT !.bridge = FoldLeft(Heard, @, o)]
<1>10. Told(r, d) = [Mirrored(h, d) EXCEPT !.bridge = FoldLeft(Heard, @, none)]
  <2> HIDE DEF none
  <2> QED BY <1>3, <1>7, <1>8 DEF Told, N, none
<1>11. Told(r, o) = [Mirrored(k, o) EXCEPT !.bridge = FoldLeft(Heard, @, none)]
  <2> HIDE DEF none
  <2> QED BY <1>3, <1>7, <1>8 DEF Told, N, none
<1>12. h = k
  BY <1>6
<1> HIDE DEF h, k
<1> QED BY <1>9, <1>10, <1>11, <1>12

----------------------------------------------------------------------------
(* One tick of a run. *)
Ticked(r) == Published([r EXCEPT !.engine = StepEngine(@)], Len(r.engine.log))

(* What a tick has done: the engine made its step, and players were told   *)
(* of it, of the completion last.                                          *)
RanOn(r, s) ==
  /\ IsRun(s) /\ s.engine = StepEngine(r.engine)
  /\ \E b : /\ Telling(r.bridge, b, s.engine.tick)
            /\ s.bridge = IF s.engine.tick < Scenario.totalTicks THEN b ELSE Heard(b, Ending(s.engine))

(* A run and its copy with another log before it move alike. *)
RunsAlike(l, r, s, t) ==
  \E d : /\ IsSeq(d) /\ \A n \in DOMAIN d : d[n].kind # "CommandIssued"
         /\ s.engine.log = r.engine.log \o d
         /\ t = Relog(l \o d, s)

(* An engine is its log put before the same engine without one.            *)
LEMMA Splits ==
  ASSUME NEW e, IsEngine(e), NEW l, IsSeq(l)
  PROVE  LET bare == Relogged(<<>>, e)
         IN  /\ IsEngine(bare) /\ bare.log = <<>>
             /\ \A f \in EngineField \ {"log"} : bare[f] = e[f]
             /\ Onto(l, bare) = Relogged(l, e)
             /\ Onto(e.log, bare) = e
<1> DEFINE none == <<>>
           bare == Relogged(none, e)
<1>1. IsSeq(none)
  BY SeqShort
<1>2. l \o none = l /\ e.log \o none = e.log
  <2> DEFINE w == e.log
  <2>1. IsSeq(w)
    BY DEF IsEngine
  <2> HIDE DEF w
  <2>2. w \o <<>> = w /\ l \o <<>> = l
    BY <2>1, SeqAppend
  <2> QED BY <2>2 DEF w
<1> HIDE DEF none
<1>3. IsEngine(bare) /\ bare.log = none /\ \A f \in EngineField \ {"log"} : bare[f] = e[f]
  BY <1>1 DEF Relogged, IsEngine, EngineField
<1>4. \A k : [bare EXCEPT !.log = k] = [e EXCEPT !.log = k]
  BY DEF Relogged, IsEngine, EngineField
<1>5. [e EXCEPT !.log = e.log] = e
  BY DEF IsEngine, EngineField
<1>6. Onto(l, bare) = [bare EXCEPT !.log = l] /\ Onto(e.log, bare) = [bare EXCEPT !.log = e.log]
  <2> HIDE DEF bare
  <2>1. \A k : Onto(k, bare) = [bare EXCEPT !.log = k \o none]
    BY <1>3 DEF Onto
  <2>2. Onto(l, bare) = [bare EXCEPT !.log = l]
    BY <1>2, <2>1
  <2>3. Onto(e.log, bare) = [bare EXCEPT !.log = e.log]
    BY <1>2, <2>1
  <2> QED BY <2>2, <2>3
<1>7. Onto(l, bare) = Relogged(l, e)
  BY <1>4, <1>6 DEF Relogged
<1>8. Onto(e.log, bare) = e
  BY <1>4, <1>5, <1>6
<1> HIDE DEF bare
<1> QED BY <1>3, <1>7, <1>8 DEF bare, none

(* Putting a log before the engine's own, in two ways.                     *)
LEMMA OntoRelogged ==
  ASSUME NEW e, IsEngine(e), NEW k, NEW l
  PROVE  Relogged(l \o e.log, Onto(k, e)) = Onto(l, e)
BY DEF Relogged, Onto, IsEngine, EngineField

(* The run with its engine replaced, by its fields.                        *)
LEMMA EngineReplaced ==
  ASSUME NEW r, IsRun(r), NEW e, IsEngine(e), NEW l, NEW k
  PROVE  LET m == [r EXCEPT !.engine = e]
         IN  /\ m = [engine |-> e, bridge |-> r.bridge, jobs |-> r.jobs]
             /\ IsRun(m)
             /\ [Relog(k, r) EXCEPT !.engine = Relogged(l, e)] = Relog(l, m)
<1> DEFINE m == [engine |-> e, bridge |-> r.bridge, jobs |-> r.jobs]
           g == Relogged(l, e)
           h == Relogged(k, r.engine)
<1>1. [r EXCEPT !.engine = e] = m
  BY DEF IsRun
<1>2. m.engine = e /\ m.bridge = r.bridge /\ m.jobs = r.jobs
  OBVIOUS
<1>3. IsRun(m)
  BY DEF IsRun
<1>4. Relog(k, r) = [engine |-> h, bridge |-> r.bridge, jobs |-> r.jobs]
  BY RelogFields
<1>5. Relog(l, m) = [m EXCEPT !.engine = g]
  BY DEF Relog
<1> HIDE DEF g, h
<1>6. [Relog(k, r) EXCEPT !.engine = g] = [m EXCEPT !.engine = g]
  BY <1>4
<1> HIDE DEF m
<1> QED BY <1>1, <1>3, <1>5, <1>6 DEF m, g

(* A tick does what RanOn says, and does not look at the engine's log.     *)
LEMMA TickAlike ==
  ASSUME NEW r, IsRun(r), r.engine.phase # "completed", NEW l, IsSeq(l)
  PROVE  RanOn(r, Ticked(r)) /\ RunsAlike(l, r, Ticked(r), Ticked(Relog(l, r)))
<1> DEFINE e == r.engine
           bare == Relogged(<<>>, e)
           b == StepEngine(bare)
           d == b.log
           f == StepEngine(e)
           k == l \o d
           m == [r EXCEPT !.engine = f]
           T == Scenario.totalTicks
<1>1. IsEngine(e) /\ IsSeq(e.log)
  BY DEF IsRun, IsEngine
<1>2. /\ IsEngine(bare) /\ bare.log = <<>> /\ bare.phase = e.phase
      /\ Onto(l, bare) = Relogged(l, e) /\ Onto(e.log, bare) = e
  <2> HIDE DEF e
  <2> QED BY <1>1, Splits DEF EngineField
<1> HIDE DEF bare
<1>3. StepEngine(Relogged(l, e)) = Onto(l, b) /\ f = Onto(e.log, b) /\ Stepped(bare, b)
  <2>1. StepEngine(Onto(l, bare)) = Onto(l, b) /\ Stepped(bare, b)
    BY <1>1, <1>2, StepAlike
  <2>2. StepEngine(Onto(e.log, bare)) = Onto(e.log, b)
    BY <1>1, <1>2, StepAlike
  <2> QED BY <1>2, <2>1, <2>2
<1> HIDE DEF b, f
<1>4. IsEngine(b) /\ IsSeq(d)
  BY <1>3 DEF Stepped, IsEngine
<1>5. IsEngine(f) /\ f.log = e.log \o d /\ f.tick = b.tick /\ f.score = b.score
  <2> DEFINE w == e.log
             o == Onto(w, b)
  <2>1. IsSeq(w)
    BY <1>1
  <2>0. f = o
    BY <1>3
  <2> HIDE DEF w
  <2>2. IsEngine(o) /\ o.log = w \o b.log /\ \A x \in EngineField \ {"log"} : o[x] = b[x]
    BY <1>4, <2>1, OntoEngine
  <2> HIDE DEF o
  <2>3. o.tick = b.tick /\ o.score = b.score
    BY <2>2 DEF EngineField
  <2> QED BY <2>0, <2>2, <2>3 DEF w
<1>6. Onto(l, b) = Relogged(k, f)
  BY <1>3, <1>4, OntoRelogged
<1>7. /\ m = [engine |-> f, bridge |-> r.bridge, jobs |-> r.jobs] /\ IsRun(m)
      /\ [Relog(l, r) EXCEPT !.engine = Relogged(k, f)] = Relog(k, m)
  <2> HIDE DEF k
  <2> QED BY <1>5, EngineReplaced
<1>8. m.engine = f /\ m.bridge = r.bridge
  BY <1>7
<1> HIDE DEF m
<1>9. SubSeq(e.log \o d, Len(e.log) + 1, Len(e.log \o d)) = d
  <2> DEFINE w == e.log
  <2>1. IsSeq(w)
    BY <1>1
  <2>2. IsSeq(d)
    BY <1>4
  <2> HIDE DEF w, d
  <2>3. SubSeq(w \o d, Len(w) + 1, Len(w \o d)) = d
    BY <2>1, <2>2, SeqCuts
  <2> QED BY <2>3 DEF w
<1>10. Ticked(r) = Told(m, d)
  BY <1>5, <1>8, <1>9 DEF Ticked, Published, m, f
<1>11. Relog(l, r).engine = Relogged(l, e) /\ Relogged(l, e).log = l
  <2>1. Relog(l, r) = [engine |-> Relogged(l, e), bridge |-> r.bridge, jobs |-> r.jobs] /\ Relogged(l, e).log = l
    BY RelogFields
  <2> QED BY <2>1
<1>12. Relogged(k, f).log = k
  BY <1>5 DEF Relogged, IsEngine, EngineField
<1>13. Relog(k, m).engine = Relogged(k, f)
  <2>1. Relog(k, m) = [engine |-> Relogged(k, m.engine), bridge |-> m.bridge, jobs |-> m.jobs]
    BY <1>7, RelogFields
  <2> QED BY <1>8, <2>1
<1>14. SubSeq(k, Len(l) + 1, Len(k)) = d
  BY <1>4, SeqCuts
<1>15. Ticked(Relog(l, r)) = Told(Relog(k, m), d)
  <2>1. [Relog(l, r) EXCEPT !.engine = StepEngine(@)] = Relog(k, m)
    BY <1>3, <1>6, <1>7, <1>11
  <2> HIDE DEF k
  <2> QED BY <1>11, <1>12, <1>13, <1>14, <2>1 DEF Ticked, Published
<1>16. PICK ext : Quiet(ext, b.tick) /\ Last1(b, ext)
  <2>1. PICK ext : Quiet(ext, b.tick) /\ Last1(b, bare.log \o ext)
    BY <1>3 DEF Stepped
  <2>2. <<>> \o ext = ext
    <3>1. PICK S : ext \in Seq(S)
      BY <2>1 DEF Quiet, IsSeq
    <3> QED BY <3>1
  <2> QED BY <1>2, <2>1, <2>2
<1>17. Ordinary(ext, f.tick)
  BY <1>5, <1>16 DEF Ordinary, Quiet, Apart
<1>18. Ending(b) = Ending(f) /\ Ending(b).kind = "ScenarioCompleted"
  BY <1>5 DEF Ending, Event
<1>19. CASE b.tick < T
  <2>1. d = ext
    BY <1>16, <1>19 DEF Last1
  <2> HIDE DEF k
  <2>2. Moves(k, m, Told(m, d), Told(Relog(k, m), d))
    BY <1>7, <1>8, <1>17, <2>1, ToldOrdinary
  <2>3. RanOn(r, Told(m, d))
    BY <1>5, <1>8, <1>19, <2>2 DEF Moves, RanOn, f
  <2>4. RunsAlike(l, r, Told(m, d), Told(Relog(k, m), d))
    <3>1. \A n \in DOMAIN d : d[n].kind # "CommandIssued"
      BY <1>16, <2>1 DEF Quiet, Apart
    <3>2. Told(m, d).engine.log = e.log \o d
      BY <1>5, <1>8, <2>2 DEF Moves
    <3>3. Told(Relog(k, m), d) = Relog(k, Told(m, d))
      BY <2>2 DEF Moves
    <3> HIDE DEF d
    <3> QED BY <1>4, <3>1, <3>2, <3>3 DEF RunsAlike, k, e
  <2> QED BY <1>10, <1>15, <2>3, <2>4
<1>20. CASE ~(b.tick < T)
  <2> DEFINE ev == Ending(b)
  <2>1. d = Append(ext, ev)
    BY <1>16, <1>20 DEF Last1
  <2>e. ev = Ending(f) /\ ev.kind = "ScenarioCompleted"
    BY <1>18
  <2> HIDE DEF k, d, ev
  <2>2. Finishes(k, m, Told(m, d), Told(Relog(k, m), d), ev)
    BY <1>7, <1>8, <1>17, <2>1, <2>e, ToldLast
  <2> DEFINE s == Told(m, d)
  <2>3. PICK n : Moves(k, m, n, Relog(k, n)) /\ s = Rebridged(Heard(n.bridge, ev), n)
                 /\ Told(Relog(k, m), d) = Relog(k, s)
    BY <2>2 DEF Finishes
  <2> HIDE DEF s
  <2>4. IsRun(n) /\ n.engine = f /\ Telling(r.bridge, n.bridge, f.tick)
    BY <1>8, <2>3 DEF Moves
  <2>5. s = [engine |-> f, bridge |-> Heard(n.bridge, ev), jobs |-> n.jobs]
    BY <2>3, <2>4, BridgeReplaced
  <2>6. IsBridge(Heard(n.bridge, ev))
    <3> DEFINE data == [finalTick |-> ev.data.finalTick, scoreTotal |-> Total(ev.data.finalScore),
                        claimCount |-> Cardinality({c \in Claim : n.bridge.claims[c] # NoClaim}),
                        evidenceCount |-> Cardinality(Evidence(n.bridge))]
    <3>1. Heard(n.bridge, ev) = Tell(n.bridge, ev.tick, "RunCompleted", data)
      BY <2>e DEF Heard
    <3> HIDE DEF data
    <3>2. IsBridge(n.bridge)
      BY <2>4 DEF IsRun
    <3>3. Spoken(n.bridge, Tell(n.bridge, ev.tick, "RunCompleted", data), Event("RunCompleted", ev.tick, data))
      BY <3>2, Tells
    <3> QED BY <3>1, <3>3 DEF Spoken
  <2>7. IsRun(s) /\ s.engine = f /\ s.bridge = Heard(n.bridge, ev)
    BY <1>5, <2>5, <2>6 DEF IsRun
  <2>8. RanOn(r, s)
    BY <1>5, <1>20, <2>e, <2>4, <2>7 DEF RanOn, f
  <2>9. RunsAlike(l, r, s, Relog(k, s))
    <3>1. \A i \in DOMAIN d : d[i].kind # "CommandIssued"
      <4>1. PICK S : ext \in Seq(S)
        BY <1>16 DEF Quiet, IsSeq
      <4> DEFINE U == S \cup {ev}
                 N == Len(ext)
      <4>2. ext \in Seq(U) /\ ev \in U
        BY <4>1
      <4> HIDE DEF U
      <4>3. /\ N \in Nat /\ DOMAIN ext = 1 .. N /\ DOMAIN d = 1 .. N + 1
            /\ d[N + 1] = ev /\ \A i \in 1 .. N : d[i] = ext[i]
        BY <2>1, <4>2
      <4>4. \A i \in 1 .. N : ext[i].kind # "CommandIssued"
        BY <1>16, <4>3 DEF Quiet, Apart
      <4> HIDE DEF N
      <4>5. \A i \in 1 .. N + 1 : i \in 1 .. N \/ i = N + 1
        BY <4>3
      <4> QED BY <2>e, <4>3, <4>4, <4>5
    <3>2. s.engine.log = e.log \o d
      BY <1>5, <2>7
    <3> QED BY <1>4, <3>1, <3>2 DEF RunsAlike, k, e, d
  <2> QED BY <1>10, <1>15, <2>3, <2>8, <2>9 DEF s
<1> QED BY <1>19, <1>20

----------------------------------------------------------------------------
(* Two requests that the engine carries out alike. *)
Twins(c, d) ==
  /\ c.name \in CommandName /\ d.name = c.name
  /\ \A w : Execute(w, d) = Execute(w, c)
  /\ d.params.team = c.params.team
  /\ TargetOf(d.params) = TargetOf(c.params)

(* The event that issues command c.                                        *)
Asks(e, c, key) == Event("CommandIssued", e.tick, Asked(e, c, key))
(* The events a command adds after it was issued. *)
Decides(ext, tick, id, outcome) ==
  \E q, r, data : /\ Quiet(q, tick) /\ Quiet(r, tick) /\ data.id = id
                  /\ ext = Append(q, Event(outcome, tick, data)) \o r

(* Each with its log, an answer and its twin's. *)
AnswersAlike(e, l, c, d, key, a, b) ==
  \E x, z : /\ IsEngine(z) /\ z.log = x
            /\ a.engine = Onto(Append(e.log, Asks(e, c, key)), z)
            /\ b.engine = Onto(Append(l, Asks(e, d, key)), z)
            /\ z.tick = e.tick
            /\ Decides(x, e.tick, e.commands + 1, OutcomeOf(a))
            /\ a.accepted \in BOOLEAN /\ a.id = e.commands + 1
            /\ b.id = a.id /\ b.accepted = a.accepted /\ b.code = a.code /\ b.eta = a.eta

(* Twins are answered alike, over different logs.                          *)
LEMMA TwinsAnswered ==
  ASSUME NEW e, IsEngine(e), e.phase # "completed", NEW l, IsSeq(l), NEW c, NEW d, Twins(c, d), NEW key
  PROVE  AnswersAlike(e, l, c, d, key, Submit(e, c, key), Submit(Relogged(l, e), d, key))
<1> DEFINE id == e.commands + 1
           n == [e EXCEPT !.commands = id]
           bare == Relogged(<<>>, n)
           o == Relogged(l, e)
           evc == Asks(e, c, key)
           evd == Asks(e, d, key)
           p == Append(e.log, evc)
           q == Append(l, evd)
           D == Decided(bare, id, c, key)
           x == D.engine.log
<1>1. /\ IsEngine(o) /\ o.log = l /\ o.phase = e.phase /\ o.commands = e.commands /\ o.tick = e.tick
  BY DEF Relogged, IsEngine, EngineField
<1>2. IsEngine(n) /\ n.tick = e.tick /\ n.log = e.log
  BY DEF IsEngine, EngineField
<1>3. IsSeq(p) /\ IsSeq(q)
  BY SeqAppend DEF IsEngine
<1>4. Submit(e, c, key) = Decided(Emit([e EXCEPT !.commands = id], "CommandIssued", Asked(e, c, key)), id, c, key)
  BY Zenon DEF Submit, Decide, Asked
<1>5. Submit(o, d, key) = Decided(Emit([o EXCEPT !.commands = id], "CommandIssued", Asked(e, d, key)), id, d, key)
  <2> HIDE DEF o
  <2>1. Submit(o, d, key) = Decide(o, d, key)
    BY <1>1 DEF Submit
  <2>2. Decide(o, d, key) = Decided(Emit([o EXCEPT !.commands = o.commands + 1], "CommandIssued",
                                         [id |-> o.commands + 1, name |-> d.name, key |-> key, params |-> d.params]),
                                    o.commands + 1, d, key)
    BY Zenon DEF Decide
  <2> QED BY <1>1, <2>1, <2>2 DEF Asked
<1>6. Emit([e EXCEPT !.commands = id], "CommandIssued", Asked(e, c, key)) = Relogged(p, n)
  <2>1. Emit(n, "CommandIssued", Asked(e, c, key)) = [n EXCEPT !.log = Append(n.log, Event("CommandIssued", n.tick, Asked(e, c, key)))]
    <3> HIDE DEF n
    <3> QED BY DEF Emit, Event
  <2> HIDE DEF n
  <2>2. Emit(n, "CommandIssued", Asked(e, c, key)) = [n EXCEPT !.log = p]
    BY <1>2, <2>1 DEF Asks
  <2> QED BY <2>2 DEF Relogged, n
<1>7. Emit([o EXCEPT !.commands = id], "CommandIssued", Asked(e, d, key)) = Relogged(q, n)
  <2> DEFINE m == [o EXCEPT !.commands = id]
  <2>1. m.log = l /\ m.tick = e.tick
    BY DEF Relogged, IsEngine, EngineField
  <2>2. \A k : [m EXCEPT !.log = k] = [n EXCEPT !.log = k]
    BY DEF Relogged, IsEngine, EngineField
  <2> HIDE DEF m, n
  <2>3. Emit(m, "CommandIssued", Asked(e, d, key)) = [m EXCEPT !.log = Append(m.log, Event("CommandIssued", m.tick, Asked(e, d, key)))]
    BY DEF Emit, Event
  <2>4. Emit(m, "CommandIssued", Asked(e, d, key)) = [n EXCEPT !.log = q]
    BY <2>1, <2>2, <2>3 DEF Asks
  <2> QED BY <2>4 DEF Relogged, m
<1> HIDE DEF o, n, p, q, id
<1>8. /\ IsEngine(bare) /\ bare.log = <<>> /\ bare.tick = e.tick
      /\ Onto(p, bare) = Relogged(p, n) /\ Onto(q, bare) = Relogged(q, n)
  <2>1. IsEngine(bare) /\ bare.log = <<>> /\ bare.tick = n.tick /\ Onto(p, bare) = Relogged(p, n)
    BY <1>2, <1>3, Splits DEF EngineField
  <2>2. Onto(q, bare) = Relogged(q, n)
    BY <1>2, <1>3, Splits
  <2> QED BY <1>2, <2>1, <2>2
<1> HIDE DEF bare
<1>9. /\ SameDecision(p, D, Decided(Onto(p, bare), id, c, key)) /\ Responds(bare, id, D)
      /\ SameDecision(q, D, Decided(Onto(q, bare), id, c, key))
  BY <1>3, <1>8, DecidedAlike DEF Twins
<1>10. \A w : Decided(w, id, d, key) = Decided(w, id, c, key)
  <2> SUFFICES ASSUME NEW w PROVE Decided(w, id, d, key) = Decided(w, id, c, key)
    OBVIOUS
  <2>1. Execute(w, c) = Execute(w, d)
    BY DEF Twins
  <2> QED BY <2>1 DEF Decided
<1> DEFINE a == Submit(e, c, key)
           b == Submit(o, d, key)
<1>11. SameDecision(p, D, a) /\ SameDecision(q, D, b)
  <2>1. a = Decided(Onto(p, bare), id, c, key)
    BY <1>4, <1>6, <1>8 DEF n
  <2>2. b = Decided(Onto(q, bare), id, c, key)
    BY <1>5, <1>7, <1>8, <1>10
  <2> QED BY <1>9, <2>1, <2>2
<1> HIDE DEF a, b, D
<1>12. IsEngine(D.engine) /\ D.engine.tick = e.tick /\ D.id = id /\ D.accepted \in BOOLEAN
  BY <1>8, <1>9 DEF Responds
<1>13. Decides(x, e.tick, id, OutcomeOf(D))
  <2>1. PICK y, z, data : /\ Quiet(y, e.tick) /\ Quiet(z, e.tick) /\ data.id = id
                          /\ x = Append(<<>> \o y, Event(OutcomeOf(D), e.tick, data)) \o z
    BY <1>8, <1>9 DEF Responds
  <2>2. <<>> \o y = y
    <3>1. PICK S : y \in Seq(S)
      BY <2>1 DEF Quiet, IsSeq
    <3> QED BY <3>1
  <2> HIDE DEF x
  <2>3. x = Append(y, Event(OutcomeOf(D), e.tick, data)) \o z
    BY <2>1, <2>2
  <2> QED BY <2>1, <2>3 DEF Decides
<1>14. OutcomeOf(a) = OutcomeOf(D)
  BY <1>11 DEF OutcomeOf, SameDecision
<1>15. /\ a.engine = Onto(p, D.engine) /\ b.engine = Onto(q, D.engine)
       /\ a.accepted = D.accepted /\ a.id = id /\ b.id = a.id /\ b.accepted = a.accepted
       /\ b.code = a.code /\ b.eta = a.eta
  BY <1>11, <1>12 DEF SameDecision
<1> HIDE DEF evc, evd
<1>16. AnswersAlike(e, l, c, d, key, a, b)
  BY <1>12, <1>13, <1>14, <1>15 DEF AnswersAlike, p, q, id, evc, evd
<1> QED BY <1>16 DEF a, b, o

(* What follows an issued command is ordinary and issues no other.         *)
LEMMA DecidesOrdinary ==
  ASSUME NEW x, NEW tick, NEW id, NEW outcome, outcome \in Outcome, Decides(x, tick, id, outcome)
  PROVE  Ordinary(x, tick) /\ \A n \in DOMAIN x : x[n].kind # "CommandIssued"
<1>1. PICK q, r, data : /\ Quiet(q, tick) /\ Quiet(r, tick)
                        /\ x = Append(q, Event(outcome, tick, data)) \o r
  BY DEF Decides
<1> DEFINE ev == Event(outcome, tick, data)
           p == Append(q, ev)
           M == Len(q)
           N == Len(r)
<1>2. ev.kind \in Outcome /\ ev.tick = tick
  BY DEF Event
<1>3. PICK S : q \in Seq(S)
  BY <1>1 DEF Quiet, IsSeq
<1>4. PICK R : r \in Seq(R)
  BY <1>1 DEF Quiet, IsSeq
<1> HIDE DEF ev
<1> DEFINE U == S \cup R \cup {ev}
<1>5. q \in Seq(U) /\ r \in Seq(U) /\ ev \in U
  BY <1>3, <1>4
<1> HIDE DEF U
<1>6. /\ p \in Seq(U) /\ Len(p) = M + 1 /\ p[M + 1] = ev /\ \A n \in 1 .. M : p[n] = q[n]
      /\ M \in Nat /\ N \in Nat /\ DOMAIN q = 1 .. M /\ DOMAIN r = 1 .. N
  BY <1>5
<1>7. IsSeq(p) /\ IsSeq(r)
  BY <1>5, <1>6 DEF IsSeq
<1> HIDE DEF p
<1>8. /\ DOMAIN (p \o r) = 1 .. (M + 1) + N
      /\ \A n \in 1 .. M + 1 : (p \o r)[n] = p[n]
      /\ \A n \in 1 .. N : (p \o r)[(M + 1) + n] = r[n]
  <2> DEFINE pr == p \o r
  <2>1. Len(p) = M + 1 /\ Len(r) = N
    BY <1>6
  <2>2. /\ DOMAIN pr = 1 .. Len(p) + Len(r)
        /\ \A n \in 1 .. Len(p) : pr[n] = p[n]
        /\ \A n \in 1 .. Len(r) : pr[Len(p) + n] = r[n]
    BY <1>7, SeqParts
  <2> HIDE DEF M, N, pr
  <2>3. DOMAIN pr = 1 .. (M + 1) + N /\ \A n \in 1 .. M + 1 : pr[n] = p[n]
    BY <2>1, <2>2
  <2>4. \A n \in 1 .. N : pr[(M + 1) + n] = r[n]
    BY <2>1, <2>2
  <2> QED BY <2>3, <2>4 DEF pr
<1>9. x = p \o r /\ IsSeq(x)
  BY <1>1, <1>7, SeqAppend DEF p, ev
<1> HIDE DEF M, N
<1>10. ASSUME NEW n \in DOMAIN x
       PROVE  x[n].tick = tick /\ x[n].kind \notin {"ScenarioStarted", "ScenarioCompleted", "CommandIssued"}
  <2>1. CASE n \in 1 .. M
    <3>1. x[n] = q[n] /\ n \in DOMAIN q
      BY <1>6, <1>8, <1>9, <2>1
    <3> QED BY <1>1, <3>1 DEF Quiet, Apart
  <2>2. CASE n = M + 1
    <3>1. x[n] = ev
      BY <1>6, <1>8, <1>9, <2>2
    <3> QED BY <1>2, <3>1 DEF Outcome
  <2>3. CASE n \in (M + 1) + 1 .. (M + 1) + N
    <3>1. n - (M + 1) \in 1 .. N /\ (M + 1) + (n - (M + 1)) = n
      BY <1>6, <2>3
    <3>2. x[n] = r[n - (M + 1)] /\ n - (M + 1) \in DOMAIN r
      BY <1>6, <1>8, <1>9, <3>1
    <3> QED BY <1>1, <3>2 DEF Quiet, Apart
  <2> QED BY <1>6, <1>8, <1>9, <2>1, <2>2, <2>3
<1> QED BY <1>9, <1>10 DEF Ordinary

----------------------------------------------------------------------------
(* The elements of a concatenation, by its parts.                          *)
LEMMA SeqHead ==
  ASSUME NEW one, IsSeq(one), NEW x, IsSeq(x)
  PROVE  /\ Len(one \o x) = Len(one) + Len(x)
         /\ \A n \in 1 .. Len(one) : (one \o x)[n] = one[n]
         /\ \A n \in 1 .. Len(x) : (one \o x)[Len(one) + n] = x[n]
<1>1. /\ Len(one \o x) = Len(one) + Len(x)
      /\ \A n \in 1 .. Len(one) : (one \o x)[n] = one[n]
      /\ \A n \in 1 .. Len(x) : (one \o x)[Len(one) + n] = x[n]
  BY SeqParts
<1> QED BY <1>1

(* Events of a tick after the one that issued a command.                   *)
LEMMA Preceded ==
  ASSUME NEW w, IsSeq(w), NEW x, IsSeq(x), NEW u, NEW v
  PROVE  /\ Append(w, u) \o x = w \o (<<u>> \o x)
         /\ IsSeq(<<u>> \o x)
         /\ u.kind = "CommandIssued" /\ v.kind = "CommandIssued" => Echoes(<<u>> \o x, <<v>> \o x)
         /\ \A tick : Ordinary(x, tick) /\ u.tick = tick /\ u.kind = "CommandIssued"
              => Ordinary(<<u>> \o x, tick)
<1> DEFINE one == <<u>>
           two == <<v>>
           N == Len(x)
<1>1. IsSeq(one) /\ IsSeq(two) /\ Len(one) = 1 /\ Len(two) = 1 /\ one[1] = u /\ two[1] = v
  BY SeqShort
<1>2. Append(w, u) = w \o one
  BY SeqAppend
<1> HIDE DEF one, two
<1> DEFINE p == one \o x
           q == two \o x
<1>3. (w \o one) \o x = w \o p /\ IsSeq(p) /\ IsSeq(q)
  BY <1>1, SeqConcat
<1>p. /\ N \in Nat /\ Len(p) = Len(one) + N /\ DOMAIN x = 1 .. N /\ DOMAIN p = 1 .. Len(one) + N
      /\ \A n \in 1 .. Len(one) : p[n] = one[n]
      /\ \A n \in 1 .. N : p[Len(one) + n] = x[n]
  <2>1. /\ Len(x) \in Nat /\ DOMAIN x = 1 .. Len(x)
    BY DEF IsSeq
  <2>2. /\ Len(one \o x) = Len(one) + Len(x)
        /\ \A n \in 1 .. Len(one) : (one \o x)[n] = one[n]
        /\ \A n \in 1 .. Len(x) : (one \o x)[Len(one) + n] = x[n]
    BY <1>1, SeqHead
  <2>3. DOMAIN (one \o x) = 1 .. Len(one) + Len(x)
    <3>1. IsSeq(one \o x)
      BY <1>3
    <3>2. \A z : IsSeq(z) => DOMAIN z = 1 .. Len(z)
      BY DEF IsSeq
    <3> QED BY <2>2, <3>1, <3>2
  <2> QED BY <2>1, <2>2, <2>3
<1>q. /\ Len(q) = Len(two) + N
      /\ \A n \in 1 .. Len(two) : q[n] = two[n]
      /\ \A n \in 1 .. N : q[Len(two) + n] = x[n]
  BY <1>1, SeqParts
<1> HIDE DEF p, q, N
<1>4. /\ N \in Nat /\ Len(p) = 1 + N /\ Len(q) = 1 + N /\ DOMAIN p = 1 .. 1 + N
      /\ p[1] = u /\ q[1] = v
      /\ \A n \in 1 .. N : p[1 + n] = x[n] /\ q[1 + n] = x[n]
  BY <1>1, <1>p, <1>q
<1>5. \A n \in 1 .. 1 + N : n = 1 \/ (n - 1 \in 1 .. N /\ n = 1 + (n - 1))
  BY <1>4
<1>6. ASSUME u.kind = "CommandIssued", v.kind = "CommandIssued" PROVE Echoes(p, q)
  <2>1. ASSUME NEW n \in 1 .. Len(p)
        PROVE  p[n] = q[n] \/ (p[n].kind = "CommandIssued" /\ q[n].kind = "CommandIssued")
    <3>1. CASE n = 1
      BY <1>4, <1>6, <3>1
    <3>2. CASE n - 1 \in 1 .. N /\ n = 1 + (n - 1)
      BY <1>4, <3>2
    <3> QED BY <1>4, <1>5, <3>1, <3>2
  <2> QED BY <1>3, <1>4, <2>1 DEF Echoes
<1>7. ASSUME NEW tick, Ordinary(x, tick), u.tick = tick, u.kind = "CommandIssued" PROVE Ordinary(p, tick)
  <2>1. ASSUME NEW n \in DOMAIN p
        PROVE  p[n].kind \notin {"ScenarioStarted", "ScenarioCompleted"} /\ p[n].tick = tick
    <3>1. CASE n = 1
      BY <1>4, <1>7, <3>1
    <3>2. CASE n - 1 \in 1 .. N /\ n = 1 + (n - 1)
      <4>1. p[n] = x[n - 1] /\ n - 1 \in DOMAIN x
        BY <1>4, <1>p, <3>2
      <4> QED BY <1>7, <4>1 DEF Ordinary
    <3> QED BY <1>4, <1>5, <3>1, <3>2
  <2> QED BY <1>3, <2>1 DEF Ordinary
<1> QED BY <1>2, <1>3, <1>6, <1>7 DEF p, q, one, two

(* What a request for verification notes for its team, if the request      *)
(* names a claim.                                                          *)
Aimed(m, team, request, accepted) ==
  IF request = NoClaim THEN m ELSE Targeted(m, team, request, accepted)

(* It has no part in the engine and the bridge, and does not look at the   *)
(* engine's log.                                                           *)
LEMMA AimsAlike ==
  ASSUME NEW m, IsRun(m), NEW team, NEW request, NEW accepted, NEW k
  PROVE  LET s == Aimed(m, team, request, accepted)
         IN  /\ IsRun(s) /\ s.engine = m.engine /\ s.bridge = m.bridge
             /\ Aimed(Relog(k, m), team, request, accepted) = Relog(k, s)
<1> DEFINE e == m.engine
           g == Relogged(k, e)
           R == [engine |-> g, bridge |-> m.bridge, jobs |-> m.jobs]
           J == [m.jobs EXCEPT ![team] =
                   IF accepted THEN [claim |-> request, order |-> e.teams[team].order.id] ELSE NoJob]
           s == [engine |-> e, bridge |-> m.bridge, jobs |-> J]
<1>1. Relog(k, m) = R /\ \A f \in EngineField \ {"log"} : g[f] = e[f]
  BY RelogFields
<1>2. g.teams = e.teams /\ R.engine = g /\ R.jobs = m.jobs
  BY <1>1 DEF EngineField
<1>3. Targeted(m, team, request, accepted) = s
  <2>1. Targeted(m, team, request, accepted) = [m EXCEPT !.jobs = J]
    BY DEF Targeted, IsRun
  <2> HIDE DEF J
  <2> QED BY <2>1 DEF IsRun
<1>4. Targeted(R, team, request, accepted) = [engine |-> g, bridge |-> m.bridge, jobs |-> J]
  <2> HIDE DEF g
  <2>1. Targeted(R, team, request, accepted) = [R EXCEPT !.jobs = J]
    BY <1>2 DEF Targeted
  <2> HIDE DEF J
  <2> QED BY <2>1
<1> HIDE DEF J
<1>5. IsRun(s) /\ s.engine = e /\ s.bridge = m.bridge
  BY DEF IsRun
<1>6. Relog(k, s) = [engine |-> g, bridge |-> m.bridge, jobs |-> J]
  <2>1. Relog(k, s) = [s EXCEPT !.engine = Relogged(k, s.engine)]
    BY DEF Relog
  <2>2. s.engine = e
    OBVIOUS
  <2>3. Relog(k, s) = [s EXCEPT !.engine = g]
    BY <2>1, <2>2
  <2> HIDE DEF g
  <2> QED BY <2>3
<1> HIDE DEF s, R, g
<1> QED BY <1>1, <1>3, <1>4, <1>5, <1>6 DEF Aimed, e

(* A request was handled: the engine decided, players were told, and last  *)
(* of the result.                                                          *)
HandledOn(r, s, c, key) ==
  LET a == Submit(r.engine, c, key)
  IN  /\ IsRun(s) /\ s.engine = a.engine
      /\ \E b, data : /\ Telling(r.bridge, b, r.engine.tick)
                      /\ Spoken(b, s.bridge, Event("CommandResult", r.engine.tick, data))
                      /\ data.id = a.id /\ data.key = key /\ data.accepted = a.accepted

(* Two runs that were asked for twins. *)
TwinRuns(l, r, c, d, key, s, t) ==
  \E x : /\ IsSeq(x) /\ \A n \in DOMAIN x : x[n].kind # "CommandIssued"
         /\ s.engine.log = Append(r.engine.log, Asks(r.engine, c, key)) \o x
         /\ t = Relog(Append(l, Asks(r.engine, d, key)) \o x, s)

(* Handling a request does what HandledOn says, and twins are handled      *)
(* alike over different logs.                                              *)
LEMMA HandledAlike ==
  ASSUME NEW r, IsRun(r), r.engine.phase # "completed", NEW c, NEW d, Twins(c, d), NEW key, NEW request,
         NEW l, IsSeq(l)
  PROVE  /\ HandledOn(r, Handled(r, c, key, request), c, key)
         /\ TwinRuns(l, r, c, d, key, Handled(r, c, key, request), Handled(Relog(l, r), d, key, request))
<1> DEFINE e == r.engine
           R == Relog(l, r)
           g == Relogged(l, e)
           a == Submit(e, c, key)
           b == Submit(g, d, key)
           f == a.engine
           evc == Asks(e, c, key)
           evd == Asks(e, d, key)
           m == [r EXCEPT !.engine = f]
           s == Aimed(m, c.params.team, request, a.accepted)
           tick == e.tick
           data == [id |-> a.id, name |-> c.name, key |-> key, accepted |-> a.accepted,
                    code |-> a.code, eta |-> a.eta, target |-> TargetOf(c.params)]
           result(w) == Rebridged(Tell(w.bridge, tick, "CommandResult", data), w)
<1>1. IsEngine(e) /\ IsSeq(e.log)
  BY DEF IsRun, IsEngine
<1>2. R.engine = g /\ R.bridge = r.bridge /\ g.log = l
  <2>1. R = [engine |-> g, bridge |-> r.bridge, jobs |-> r.jobs] /\ g.log = l
    BY RelogFields
  <2> QED BY <2>1
<1>3. AnswersAlike(e, l, c, d, key, a, b)
  <2> HIDE DEF e
  <2> QED BY <1>1, TwinsAnswered DEF e
<1> HIDE DEF a, b
<1>4. PICK x, z :
         /\ IsEngine(z) /\ z.log = x
         /\ a.engine = Onto(Append(e.log, Asks(e, c, key)), z)
         /\ b.engine = Onto(Append(l, Asks(e, d, key)), z)
         /\ z.tick = e.tick
         /\ Decides(x, e.tick, e.commands + 1, OutcomeOf(a))
         /\ a.accepted \in BOOLEAN /\ a.id = e.commands + 1
         /\ b.id = a.id /\ b.accepted = a.accepted /\ b.code = a.code /\ b.eta = a.eta
  BY <1>3 DEF AnswersAlike
<1> DEFINE p == Append(e.log, evc)
           q == Append(l, evd)
           k == q \o x
           dc == <<evc>> \o x
           dd == <<evd>> \o x
<1>5. Ordinary(x, tick) /\ IsSeq(x) /\ \A n \in DOMAIN x : x[n].kind # "CommandIssued"
  <2>1. OutcomeOf(a) \in Outcome
    BY DEF OutcomeOf, Outcome
  <2>2. Ordinary(x, tick) /\ \A n \in DOMAIN x : x[n].kind # "CommandIssued"
    BY <1>4, <2>1, DecidesOrdinary
  <2> QED BY <2>2 DEF Ordinary
<1>6. evc.kind = "CommandIssued" /\ evd.kind = "CommandIssued" /\ evc.tick = tick /\ evd.tick = tick
  BY DEF Asks, Event
<1>e. f = Onto(p, z) /\ b.engine = Onto(q, z)
  BY <1>4
<1> HIDE DEF evc, evd, g, f
<1>7. /\ p \o x = e.log \o dc /\ k = l \o dd /\ IsSeq(dc) /\ IsSeq(dd)
      /\ Echoes(dc, dd) /\ Ordinary(dc, tick) /\ Ordinary(dd, tick)
  <2> DEFINE w == e.log
  <2>0. IsSeq(w)
    BY <1>1
  <2> HIDE DEF w, tick
  <2>1. /\ Append(w, evc) \o x = w \o dc /\ IsSeq(dc) /\ Ordinary(dc, tick) /\ Echoes(dc, dd)
    BY <1>5, <1>6, <2>0, Preceded
  <2>2. Append(l, evd) \o x = l \o dd /\ IsSeq(dd) /\ Ordinary(dd, tick)
    BY <1>5, <1>6, Preceded
  <2> QED BY <2>1, <2>2 DEF w
<1>8. IsSeq(p) /\ IsSeq(q)
  BY <1>1, SeqAppend
<1> HIDE DEF p, q, dc, dd
<1>9. IsEngine(f) /\ f.log = p \o x /\ f.tick = tick
  <2> DEFINE o == Onto(p, z)
  <2>1. IsEngine(o) /\ o.log = p \o z.log /\ \A y \in EngineField \ {"log"} : o[y] = z[y]
    BY <1>4, <1>8, OntoEngine
  <2> HIDE DEF o
  <2>2. o.tick = z.tick
    BY <2>1 DEF EngineField
  <2> QED BY <1>4, <1>e, <2>1, <2>2 DEF o
<1>10. b.engine = Relogged(k, f)
  <2>1. Relogged(q \o z.log, Onto(p, z)) = Onto(q, z)
    BY <1>4, OntoRelogged
  <2> QED BY <1>4, <1>e, <2>1
<1>11. IsRun(m) /\ m.engine = f /\ m.bridge = r.bridge /\ [R EXCEPT !.engine = Relogged(k, f)] = Relog(k, m)
  <2> HIDE DEF k
  <2>1. /\ m = [engine |-> f, bridge |-> r.bridge, jobs |-> r.jobs]
        /\ IsRun(m)
        /\ [Relog(l, r) EXCEPT !.engine = Relogged(k, f)] = Relog(k, m)
    BY <1>9, EngineReplaced
  <2> QED BY <2>1
<1>12. Handled(r, c, key, request) = result(Published(s, Len(e.log)))
  <2>1. Handled(r, c, key, request) = Concluded(r, c, key, request, a)
    BY DEF Handled, a
  <2>2. s = IF request = NoClaim THEN m ELSE Targeted(m, c.params.team, request, a.accepted)
    BY DEF Aimed
  <2> HIDE DEF s
  <2>3. Concluded(r, c, key, request, a) =
          [Published(s, Len(e.log)) EXCEPT !.bridge =
             Tell(@, a.engine.tick, "CommandResult",
              [id |-> a.id, name |-> c.name, key |-> key, accepted |-> a.accepted,
               code |-> a.code, eta |-> a.eta, target |-> TargetOf(c.params)])]
    BY <2>2, Zenon DEF Concluded, f
  <2> QED BY <1>9, <2>1, <2>3 DEF Rebridged, f
<1>13. Handled(R, d, key, request) = result(Published(Relog(k, s), Len(l)))
  <2>1. Handled(R, d, key, request) = Concluded(R, d, key, request, b)
    BY <1>2 DEF Handled, b, g
  <2> DEFINE h == Aimed(Relog(k, m), c.params.team, request, a.accepted)
             j == IF request = NoClaim THEN [R EXCEPT !.engine = b.engine]
                  ELSE Targeted([R EXCEPT !.engine = b.engine], d.params.team, request, b.accepted)
  <2>2. h = j
    <3>1. [R EXCEPT !.engine = b.engine] = Relog(k, m)
      BY <1>10, <1>11
    <3>2. d.params.team = c.params.team
      BY DEF Twins
    <3> QED BY <1>4, <3>1, <3>2 DEF Aimed
  <2>3. h = Relog(k, s)
    <3> HIDE DEF k, m
    <3> QED BY <1>11, AimsAlike
  <2>4. Concluded(R, d, key, request, b) =
          [Published(j, Len(R.engine.log)) EXCEPT !.bridge =
             Tell(@, b.engine.tick, "CommandResult",
              [id |-> b.id, name |-> d.name, key |-> key, accepted |-> b.accepted,
               code |-> b.code, eta |-> b.eta, target |-> TargetOf(d.params)])]
    BY Zenon DEF Concluded
  <2>5. b.engine.tick = tick
    <3>1. IsSeq(k)
      BY <1>5, <1>8, SeqAppend
    <3> HIDE DEF k
    <3>2. b.engine.tick = f.tick
      BY <1>9, <1>10 DEF Relogged, IsEngine, EngineField
    <3> QED BY <1>9, <3>2
  <2>6. [id |-> b.id, name |-> d.name, key |-> key, accepted |-> b.accepted,
         code |-> b.code, eta |-> b.eta, target |-> TargetOf(d.params)] = data
    BY <1>4 DEF Twins
  <2>7. R.engine.log = l
    BY <1>2
  <2> HIDE DEF data, j, h, s, R
  <2> QED BY <2>1, <2>2, <2>3, <2>4, <2>5, <2>6, <2>7 DEF Rebridged
<1>14. IsRun(s) /\ s.engine = f /\ s.bridge = r.bridge
  <2> HIDE DEF m
  <2> QED BY <1>11, AimsAlike
<1>15. Published(s, Len(e.log)) = Told(s, dc)
  <2> DEFINE w == e.log
  <2>0. IsSeq(w)
    BY <1>1
  <2>1. f.log = w \o dc
    BY <1>7, <1>9
  <2> HIDE DEF w
  <2>2. SubSeq(w \o dc, Len(w) + 1, Len(w \o dc)) = dc
    BY <1>7, <2>0, SeqTail
  <2> HIDE DEF s
  <2> QED BY <1>14, <2>1, <2>2 DEF Published, w
<1> HIDE DEF s, m
<1>16. Published(Relog(k, s), Len(l)) = Told(Relog(k, s), dd)
  <2>0. k = l \o dd
    BY <1>7
  <2> HIDE DEF k
  <2>1. Relog(k, s).engine.log = k
    <3>1. Relog(k, s) = [engine |-> Relogged(k, s.engine), bridge |-> s.bridge, jobs |-> s.jobs]
          /\ Relogged(k, s.engine).log = k
      BY <1>14, RelogFields
    <3> QED BY <3>1
  <2>2. SubSeq(l \o dd, Len(l) + 1, Len(l \o dd)) = dd
    BY <1>7, SeqTail
  <2> QED BY <2>0, <2>1, <2>2 DEF Published
<1>17. Told(Relog(k, s), dd) = Told(Relog(k, s), dc)
  BY <1>7, ToldEchoes
<1> HIDE DEF k
<1> DEFINE y == Told(s, dc)
<1>18. Moves(k, s, y, Told(Relog(k, s), dc))
  BY <1>7, <1>9, <1>14, ToldOrdinary
<1> HIDE DEF y
<1>19. IsRun(y) /\ y.engine = f /\ Telling(r.bridge, y.bridge, tick) /\ Told(Relog(k, s), dc) = Relog(k, y)
  BY <1>9, <1>14, <1>18 DEF Moves
<1> DEFINE v == Tell(y.bridge, tick, "CommandResult", data)
<1>d. data.id = a.id /\ data.key = key /\ data.accepted = a.accepted
  OBVIOUS
<1> HIDE DEF data
<1>20. Spoken(y.bridge, v, Event("CommandResult", tick, data))
  BY <1>19, Tells DEF IsRun
<1> DEFINE u == Rebridged(v, y)
<1>21. result(y) = u /\ result(Relog(k, y)) = Relog(k, u)
  <2>1. Relog(k, y).bridge = y.bridge
    <3>1. Relog(k, y) = [engine |-> Relogged(k, y.engine), bridge |-> y.bridge, jobs |-> y.jobs]
      BY <1>19, RelogFields
    <3> QED BY <3>1
  <2>2. Rebridged(v, Relog(k, y)) = Relog(k, Rebridged(v, y))
    <3> HIDE DEF v
    <3> QED BY <1>19, BridgeReplaced
  <2> QED BY <2>1, <2>2
<1>22. u = [engine |-> f, bridge |-> v, jobs |-> y.jobs]
  <2> HIDE DEF v
  <2> QED BY <1>19, BridgeReplaced
<1> HIDE DEF v
<1>23. IsRun(u) /\ u.engine = f /\ u.bridge = v
  BY <1>9, <1>20, <1>22 DEF IsRun, Spoken
<1> HIDE DEF u, result
<1>24. HandledOn(r, u, c, key)
  BY <1>d, <1>19, <1>20, <1>23 DEF HandledOn, f, a
<1>25. TwinRuns(l, r, c, d, key, u, Relog(k, u))
  BY <1>5, <1>9, <1>23 DEF TwinRuns, k, p, q, evc, evd
<1>26. Handled(r, c, key, request) = u /\ Handled(R, d, key, request) = Relog(k, u)
  BY <1>12, <1>13, <1>15, <1>16, <1>17, <1>19, <1>21 DEF y
<1> QED BY <1>24, <1>25, <1>26

----------------------------------------------------------------------------
(* The ticks of a run as a fold.                                           *)
Ticking == INSTANCE FoldLaws WITH Op <- LAMBDA p, r, k : Ticked(r)

(* The ticks of a run, one after the other. *)
LEMMA TicksMore ==
  ASSUME NEW r, NEW n \in Nat
  PROVE  Ticks(r, 0) = r /\ Ticks(r, n + 1) = Ticked(Ticks(r, n))
<1> DEFINE count(m) == [k \in 1 .. m |-> k]
<1>1. \A m : Ticks(r, m) = Ticking!Fold(0, r, count(m))
  BY DEF Ticks, Ticked, Ticking!Fold, Ticking!Highest, FoldLeft, MapThenFoldSet, Max
<1>2. count(n) \in Seq(Nat) /\ n + 1 \in Nat
  OBVIOUS
<1>3. count(n + 1) = Append(count(n), n + 1)
  OBVIOUS
<1>4. count(0) = <<>>
  OBVIOUS
<1> HIDE DEF count
<1>5. Ticking!Fold(0, r, Append(count(n), n + 1)) = Ticked(Ticking!Fold(0, r, count(n)))
  BY <1>2, Ticking!FoldAppend
<1>6. Ticking!Fold(0, r, <<>>) = r
  BY Ticking!FoldEmpty
<1> QED BY <1>1, <1>3, <1>4, <1>5, <1>6

(* Whatever the bridge hears, it stays a bridge. *)
LEMMA HeardIsBridge ==
  ASSUME NEW b, IsBridge(b), NEW ev
  PROVE  IsBridge(Heard(b, ev))
<1>1. CASE ev.kind \notin {"ScenarioStarted", "ScenarioCompleted"}
  BY <1>1, HearsQuietly DEF Telling
<1>2. CASE ev.kind = "ScenarioStarted"
  <2> DEFINE data == [scenario |-> ev.data.scenario, seed |-> ev.data.seed,
                      totalTicks |-> ev.data.totalTicks, teams |-> b.initial]
  <2>1. Heard(b, ev) = Tell(b, ev.tick, "SessionStarted", data)
    BY <1>2 DEF Heard
  <2> HIDE DEF data
  <2>2. Spoken(b, Tell(b, ev.tick, "SessionStarted", data), Event("SessionStarted", ev.tick, data))
    BY Tells
  <2> QED BY <2>1, <2>2 DEF Spoken
<1>3. CASE ev.kind = "ScenarioCompleted"
  <2> DEFINE data == [finalTick |-> ev.data.finalTick, scoreTotal |-> Total(ev.data.finalScore),
               claimCount |-> Cardinality({c \in Claim : b.claims[c] # NoClaim}),
               evidenceCount |-> Cardinality(Evidence(b))]
  <2>1. Heard(b, ev) = Tell(b, ev.tick, "RunCompleted", data)
    BY <1>3 DEF Heard
  <2> HIDE DEF data
  <2>2. Spoken(b, Tell(b, ev.tick, "RunCompleted", data), Event("RunCompleted", ev.tick, data))
    BY Tells
  <2> QED BY <2>1, <2>2 DEF Spoken
<1> QED BY <1>1, <1>2, <1>3

(* The same for a list of events.                                          *)
LEMMA HeardAllIsBridge ==
  ASSUME NEW b, IsBridge(b), NEW delta, IsSeq(delta)
  PROVE  IsBridge(FoldLeft(Heard, b, delta))
<1>1. PICK S : delta \in Seq(S)
  BY DEF IsSeq
<1>2. PICK g : Hearings!Through(0, b, delta, g) /\ Hearings!Fold(0, b, delta) = g[Len(delta)]
  BY <1>1, Hearings!FoldGoesThrough
<1> DEFINE T == {n \in Nat : IsBridge(g[n])}
<1>4. 0 \in T
  BY <1>2 DEF Hearings!Through
<1>5. Len(delta) \in Nat /\ DOMAIN delta = 1 .. Len(delta)
  BY <1>1
<1>6. ASSUME NEW n \in 0 .. Len(delta) - 1, n \in T PROVE n + 1 \in T
  <2>1. n + 1 \in 1 .. Len(delta) /\ (n + 1) - 1 = n /\ n + 1 \in Nat
    BY <1>5
  <2> DEFINE x == delta[n + 1]
  <2>2. g[n + 1] = Heard(g[n], x)
    BY <1>2, <2>1 DEF Hearings!Through
  <2> HIDE DEF x
  <2>3. IsBridge(g[n])
    BY <1>6
  <2>4. IsBridge(Heard(g[n], x))
    BY <2>3, HeardIsBridge
  <2> QED BY <2>1, <2>2, <2>4
<1>7. \A n \in 0 .. Len(delta) : n \in T
  <2> HIDE DEF T
  <2> QED BY <1>4, <1>5, <1>6, Hearings!UpTo
<1> QED BY <1>2, <1>5, <1>7, HearsIsFold

(* A session that is created or resumed. *)
LEMMA StartedIsRun ==
  ASSUME NEW e, IsEngine(e)
  PROVE  IsRun(Started(e)) /\ Started(e).engine = e
<1> DEFINE o == Opened(e)
           heard == FoldLeft(Heard, o.bridge, e.log)
           known == Table(Report, LAMBDA x : Unseen)
           seen == Table(Report, LAMBDA x : NoTick)
           claims == Table(Claim, LAMBDA x : NoClaim)
           since == Table(Claim, LAMBDA x : NoTick)
           jobs == Table(TeamName, LAMBDA t : NoJob)
           initial == OwnTeams(e)
           made == [known |-> known, seen |-> seen, claims |-> claims, since |-> since,
                    initial |-> initial, log |-> <<>>]
<1>1. o = [engine |-> e, bridge |-> made, jobs |-> jobs]
  BY Zenon DEF Opened
<1> HIDE DEF known, seen, claims, since, jobs, initial
<1>2. IsBridge(made)
  BY SeqShort DEF IsBridge, BridgeField
<1> HIDE DEF made
<1>3. o.engine = e /\ o.bridge = made /\ o.jobs = jobs
  BY <1>1
<1>4. Started(e) = Rebridged(heard, o)
  BY DEF Started, Rebridged
<1>5. IsBridge(heard)
  BY <1>2, <1>3, HeardAllIsBridge DEF IsEngine
<1> HIDE DEF o
<1>6. IsRun(o)
  BY <1>1, <1>2, <1>3 DEF IsRun
<1> HIDE DEF heard
<1>7. Rebridged(heard, o) = [engine |-> e, bridge |-> heard, jobs |-> jobs]
  BY <1>3, <1>6, BridgeReplaced
<1> QED BY <1>4, <1>5, <1>7 DEF IsRun

(* An assessment: the engine has no part in it. *)
LEMMA AssessedAlike ==
  ASSUME NEW r, IsRun(r), NEW x, NEW l
  PROVE  LET s == AssessedIn(r, x)
         IN  /\ IsRun(s) /\ s.engine = r.engine
             /\ Spoken(r.bridge, s.bridge, Event("AssessmentSubmitted", r.engine.tick, x))
             /\ AssessedIn(Relog(l, r), x) = Relog(l, s)
<1> DEFINE tick == r.engine.tick
           b == Tell(r.bridge, tick, "AssessmentSubmitted", x)
           R == Relog(l, r)
           s == Rebridged(b, r)
<1>1. AssessedIn(r, x) = s
  BY DEF AssessedIn, Rebridged
<1>2. R.engine.tick = tick /\ R.bridge = r.bridge
  <2> DEFINE g == Relogged(l, r.engine)
  <2>1. R = [engine |-> g, bridge |-> r.bridge, jobs |-> r.jobs]
        /\ \A f \in EngineField \ {"log"} : g[f] = r.engine[f]
    BY RelogFields
  <2> HIDE DEF g, R
  <2>2. g.tick = tick
    BY <2>1 DEF EngineField
  <2> QED BY <2>1, <2>2
<1>3. AssessedIn(R, x) = Rebridged(b, R)
  <2>1. AssessedIn(R, x) = Rebridged(Tell(R.bridge, R.engine.tick, "AssessmentSubmitted", x), R)
    BY DEF AssessedIn, Rebridged
  <2> HIDE DEF R
  <2> QED BY <1>2, <2>1
<1>4. IsBridge(r.bridge)
  BY DEF IsRun
<1>5. Spoken(r.bridge, b, Event("AssessmentSubmitted", tick, x))
  BY <1>4, Tells
<1> HIDE DEF b
<1>6. s = [engine |-> r.engine, bridge |-> b, jobs |-> r.jobs] /\ Rebridged(b, R) = Relog(l, s)
  BY BridgeReplaced
<1> HIDE DEF s, R
<1>7. s.engine = r.engine /\ s.bridge = b
  BY <1>6
<1>8. IsRun(s)
  BY <1>5, <1>6, <1>7 DEF IsRun, Spoken
<1> QED BY <1>1, <1>3, <1>5, <1>6, <1>7, <1>8 DEF R

----------------------------------------------------------------------------
(***************************************************************************)
(* Envelopes.                                                              *)
(***************************************************************************)
Linking == INSTANCE FoldLaws WITH Op <- LAMBDA p, events, ev : Linked(events, ev)

\* The envelope of an event, with its number and the hash before it.
Sealed(ev, seq, prev) ==
  [session |-> Session, seq |-> seq, tick |-> ev.tick, kind |-> ev.kind, data |-> ev.data,
   prev |-> prev,
   hash |-> Append(prev, [session |-> Session, seq |-> seq, tick |-> ev.tick, kind |-> ev.kind,
                          data |-> ev.data])]

(* The hash before envelope k: that of its predecessor, none for the       *)
(* first.                                                                  *)
PrevHash(c, k) == IF k = 1 THEN <<>> ELSE c[k - 1].hash

\* The first n events of a log as a chain.
ChainOf(c, log, n) ==
  /\ IsSeq(c) /\ Len(c) = n
  /\ \A k \in 1 .. n : c[k] = Sealed(log[k], k - 1, PrevHash(c, k)) /\ IsSeq(PrevHash(c, k))

(* What Linked appends.                                                    *)
LEMMA LinkedIs ==
  ASSUME NEW events, NEW ev
  PROVE  Linked(events, ev) =
           Append(events, Sealed(ev, Len(events), IF events = <<>> THEN <<>> ELSE Last(events).hash))
<1> DEFINE prev == IF events = <<>> THEN <<>> ELSE Last(events).hash
           next == [session |-> Session, seq |-> Len(events), tick |-> ev.tick, kind |-> ev.kind,
                    data |-> ev.data, prev |-> prev, hash |-> <<>>]
<1>1. Linked(events, ev) = Append(events, [next EXCEPT !.hash = EventHash(next)])
  BY DEF Linked
<1>2. [next EXCEPT !.hash = EventHash(next)] = Sealed(ev, Len(events), prev)
  <2> HIDE DEF prev
  <2>1. EventHash(next) = Append(prev, [session |-> Session, seq |-> Len(events), tick |-> ev.tick,
                                        kind |-> ev.kind, data |-> ev.data])
    BY DEF EventHash, Content
  <2> DEFINE hash == EventHash(next)
  <2> HIDE DEF hash
  <2>2. [next EXCEPT !.hash = hash] =
          [session |-> Session, seq |-> Len(events), tick |-> ev.tick, kind |-> ev.kind,
           data |-> ev.data, prev |-> prev, hash |-> hash]
    OBVIOUS
  <2> QED BY <2>1, <2>2 DEF Sealed, hash
<1> QED BY <1>1, <1>2

(* It continues the chain.                                                 *)
LEMMA ChainGrows ==
  ASSUME NEW c, NEW log, NEW n \in Nat, ChainOf(c, log, n)
  PROVE  ChainOf(Linked(c, log[n + 1]), log, n + 1)
<1> DEFINE prev == IF c = <<>> THEN <<>> ELSE Last(c).hash
           x == Sealed(log[n + 1], n, prev)
           d == Append(c, x)
<1>1. IsSeq(c) /\ Len(c) = n
  BY DEF ChainOf
<1>2. Linked(c, log[n + 1]) = d
  BY <1>1, LinkedIs
<1>3. PICK S : c \in Seq(S)
  BY <1>1 DEF IsSeq
<1>4. (c = <<>>) <=> (n = 0)
  BY <1>1, <1>3
<1>5. \A k \in 1 .. n : IsSeq(c[k].hash)
  <2> SUFFICES ASSUME NEW k \in 1 .. n PROVE IsSeq(c[k].hash)
    OBVIOUS
  <2> DEFINE p == PrevHash(c, k)
             y == [session |-> Session, seq |-> k - 1, tick |-> log[k].tick, kind |-> log[k].kind,
                   data |-> log[k].data]
  <2>1. c[k] = Sealed(log[k], k - 1, p) /\ IsSeq(p)
    BY DEF ChainOf
  <2>2. c[k].hash = Append(p, y)
    BY <2>1 DEF Sealed
  <2> HIDE DEF p, y
  <2>3. IsSeq(Append(p, y))
    BY <2>1, SeqShort, SeqAppend
  <2> QED BY <2>2, <2>3
<1>6. prev = PrevHash(d, n + 1) /\ IsSeq(prev)
  <2>1. CASE n = 0
    <3>1. prev = <<>>
      BY <1>4, <2>1
    <3> HIDE DEF prev, d
    <3>2. n + 1 = 1
      BY <2>1
    <3>3. IsSeq(<<>>)
      BY SeqShort
    <3> QED BY <3>1, <3>2, <3>3 DEF PrevHash
  <2>2. CASE n # 0
    <3>1. prev = c[n].hash /\ n \in 1 .. n
      BY <1>1, <1>4, <2>2 DEF Last
    <3> HIDE DEF prev, x
    <3>2. d[n] = c[n]
      BY <1>1, <1>3, <2>2, <3>1
    <3> HIDE DEF d
    <3>3. PrevHash(d, n + 1) = d[n].hash
      BY <2>2 DEF PrevHash
    <3> QED BY <1>5, <3>1, <3>2, <3>3
  <2> QED BY <2>1, <2>2
<1> HIDE DEF prev
<1>7. IsSeq(d) /\ Len(d) = n + 1 /\ d[n + 1] = x /\ \A k \in 1 .. n : d[k] = c[k]
  <2> HIDE DEF x
  <2> DEFINE U == S \cup {x}
  <2>1. c \in Seq(U) /\ x \in U
    BY <1>3
  <2> HIDE DEF U
  <2>2. d \in Seq(U) /\ Len(d) = n + 1 /\ d[n + 1] = x /\ \A k \in 1 .. n : d[k] = c[k]
    BY <1>1, <2>1
  <2> QED BY <2>2 DEF IsSeq
<1> HIDE DEF d
<1>8. ASSUME NEW k \in 1 .. n + 1
      PROVE  d[k] = Sealed(log[k], k - 1, PrevHash(d, k)) /\ IsSeq(PrevHash(d, k))
  <2>1. CASE k = n + 1
    BY <1>6, <1>7, <2>1
  <2>2. CASE k \in 1 .. n
    <3>1. PrevHash(d, k) = PrevHash(c, k)
      <4>1. k # 1 => k - 1 \in 1 .. n
        BY <2>2
      <4> QED BY <1>7, <4>1 DEF PrevHash
    <3> QED BY <1>7, <2>2, <3>1 DEF ChainOf
  <2> QED BY <2>1, <2>2
<1> QED BY <1>2, <1>7, <1>8 DEF ChainOf

(* Chaining a log makes every event of it an envelope, numbered from 0,    *)
(* each with the hash of the one before.                                   *)
LEMMA ChainedIs ==
  ASSUME NEW log, IsSeq(log)
  PROVE  ChainOf(Chained(log), log, Len(log))
<1>1. PICK S : log \in Seq(S)
  BY DEF IsSeq
<1>2. PICK g : Linking!Through(0, <<>>, log, g) /\ Linking!Fold(0, <<>>, log) = g[Len(log)]
  BY <1>1, Linking!FoldGoesThrough
<1>3. Chained(log) = Linking!Fold(0, <<>>, log)
  BY DEF Chained, Linking!Fold, Linking!Highest, FoldLeft, MapThenFoldSet, Max
<1> DEFINE T == {n \in Nat : ChainOf(g[n], log, n)}
<1>4. 0 \in T
  <2>1. g[0] = <<>>
    BY <1>2 DEF Linking!Through
  <2>2. IsSeq(<<>>) /\ Len(<<>>) = 0
    BY SeqShort
  <2> QED BY <2>1, <2>2 DEF ChainOf
<1>5. Len(log) \in Nat
  BY <1>1
<1>6. ASSUME NEW n \in 0 .. Len(log) - 1, n \in T PROVE n + 1 \in T
  <2>1. n + 1 \in 1 .. Len(log) /\ (n + 1) - 1 = n /\ n + 1 \in Nat /\ n \in Nat
    BY <1>5
  <2>2. g[n + 1] = Linked(g[n], log[n + 1])
    BY <1>2, <2>1 DEF Linking!Through
  <2>3. ChainOf(g[n], log, n)
    BY <1>6
  <2>4. ChainOf(Linked(g[n], log[n + 1]), log, n + 1)
    BY <2>1, <2>3, ChainGrows
  <2> QED BY <2>1, <2>2, <2>4
<1>7. \A n \in 0 .. Len(log) : n \in T
  <2> HIDE DEF T
  <2> QED BY <1>4, <1>5, <1>6, Linking!UpTo
<1> QED BY <1>2, <1>3, <1>5, <1>7

\* An envelope that stands at a place that is not its own, or was changed.
(* An envelope out of its place, or one whose hash is not that of its      *)
(* content.                                                                *)
Broken(events) ==
  \E m \in DOMAIN events :
    events[m].seq # m - 1 \/ events[m].hash # Append(events[m].prev, Content(events[m]))

(* No verifier of streams takes a broken one.                              *)
LEMMA BrokenIsRefused ==
  ASSUME NEW events, Broken(events), NEW session, NEW tip
  PROVE  events # <<>> /\ ~ValidStream(events, session, tip)
<1>1. PICK m \in DOMAIN events :
        events[m].seq # m - 1 \/ events[m].hash # Append(events[m].prev, Content(events[m]))
  BY DEF Broken
<1>2. events # <<>>
  BY <1>1
<1> QED BY <1>1, <1>2 DEF ValidStream, EventHash

(* A number tells the envelopes of a chain apart, wherever they are.       *)
LEMMA SealedFields ==
  ASSUME NEW ev, NEW seq, NEW prev
  PROVE  LET x == Sealed(ev, seq, prev)
         IN  /\ x.session = Session /\ x.seq = seq /\ x.tick = ev.tick /\ x.kind = ev.kind
             /\ x.data = ev.data /\ x.prev = prev
             /\ x.hash = Append(prev, Content(x))
<1> DEFINE d == [session |-> Session, seq |-> seq, tick |-> ev.tick, kind |-> ev.kind, data |-> ev.data]
<1>1. Content(Sealed(ev, seq, prev)) = d
  BY DEF Sealed, Content
<1> QED BY <1>1 DEF Sealed

(* An envelope dated later does not have the hash of its content.          *)
LEMMA LateIsBroken ==
  ASSUME NEW ev, NEW seq, NEW prev, IsSeq(prev), ev.tick \in Nat
  PROVE  LET x == Sealed(ev, seq, prev)
             y == [x EXCEPT !["tick"] = @ + 1]
         IN  y.hash # Append(y.prev, Content(y))
<1> DEFINE x == Sealed(ev, seq, prev)
           y == [x EXCEPT !["tick"] = @ + 1]
           h == Append(prev, [session |-> Session, seq |-> seq, tick |-> ev.tick, kind |-> ev.kind,
                              data |-> ev.data])
           d == [session |-> Session, seq |-> seq, tick |-> ev.tick, kind |-> ev.kind, data |-> ev.data]
           g == [session |-> Session, seq |-> seq, tick |-> ev.tick + 1, kind |-> ev.kind, data |-> ev.data]
<1>1. y = [session |-> Session, seq |-> seq, tick |-> ev.tick + 1, kind |-> ev.kind,
           data |-> ev.data, prev |-> prev, hash |-> h]
  <2> HIDE DEF h
  <2>1. x = [session |-> Session, seq |-> seq, tick |-> ev.tick, kind |-> ev.kind,
             data |-> ev.data, prev |-> prev, hash |-> h]
    BY DEF Sealed, h
  <2> QED BY <2>1
<1>2. y.hash = Append(prev, d) /\ y.prev = prev /\ Content(y) = g
  BY <1>1 DEF Content
<1>3. d # g
  <2>1. d.tick = ev.tick /\ g.tick = ev.tick + 1
    OBVIOUS
  <2>2. ev.tick # ev.tick + 1
    OBVIOUS
  <2> QED BY <2>1, <2>2
<1> HIDE DEF y, d, g
<1>4. PICK S : prev \in Seq(S)
  BY DEF IsSeq
<1> DEFINE U == S \cup {d, g}
<1>5. prev \in Seq(U) /\ d \in U /\ g \in U
  BY <1>4
<1> HIDE DEF U
<1>6. Append(prev, d) # Append(prev, g)
  BY <1>3, <1>5
<1> QED BY <1>2, <1>6 DEF y

(* Every edit but the loss of the last event breaks the chain.             *)
LEMMA EditBreaks ==
  ASSUME NEW log, IsSeq(log), NEW c, ChainOf(c, log, Len(log)),
         \A k \in DOMAIN log : log[k].tick \in Nat,
         NEW n \in DOMAIN c, NEW edit \in Edits(c, n)
  PROVE  (edit = "lost" /\ n = Len(c)) \/ Broken(Edited(c, edit, n, "tick"))
<1> DEFINE N == Len(c)
           x == Edited(c, edit, n, "tick")
<1> SUFFICES ASSUME ~(edit = "lost" /\ n = N) PROVE Broken(x)
  OBVIOUS
<1>1. PICK S : c \in Seq(S)
  BY DEF ChainOf, IsSeq
<1>2. DOMAIN c = 1 .. N /\ N \in Nat /\ N = Len(log) /\ DOMAIN log = 1 .. N
  <2>1. PICK R : log \in Seq(R)
    BY DEF IsSeq
  <2> QED BY <1>1, <2>1 DEF ChainOf
<1>3. ASSUME NEW k \in 1 .. N PROVE c[k].seq = k - 1
  <2> DEFINE p == PrevHash(c, k)
  <2>1. c[k] = Sealed(log[k], k - 1, p)
    BY <1>2 DEF ChainOf
  <2> HIDE DEF p
  <2> QED BY <2>1, SealedFields
<1>4. CASE edit = "lost" /\ n # N
  <2>1. x = SubSeq(c, 1, n - 1) \o SubSeq(c, n + 1, N)
    BY <1>4 DEF Edited, RemoveAt
  <2> DEFINE a == SubSeq(c, 1, n - 1)
             b == SubSeq(c, n + 1, N)
  <2>2. n \in 1 .. N /\ n + 1 \in 1 .. N
    BY <1>2, <1>4
  <2>3. a \in Seq(S) /\ Len(a) = n - 1 /\ b \in Seq(S) /\ Len(b) = N - n /\ b[1] = c[n + 1]
    BY <1>1, <2>2
  <2> HIDE DEF a, b
  <2>4. n \in DOMAIN (a \o b) /\ (a \o b)[n] = b[1]
    BY <1>2, <2>2, <2>3
  <2>5. c[n + 1].seq = n
    BY <1>2, <1>3, <2>2
  <2>6. n \in DOMAIN x /\ x[n] = c[n + 1]
    BY <2>1, <2>3, <2>4 DEF a, b
  <2>7. x[n].seq # n - 1
    <3> HIDE DEF x
    <3> QED BY <2>2, <2>5, <2>6
  <2> HIDE DEF x
  <2> QED BY <2>6, <2>7 DEF Broken
<1>5. CASE edit = "repeated"
  <2> DEFINE a == SubSeq(c, 1, n - 1)
             b == SubSeq(c, n, N)
  <2>1. x = (a \o <<c[n]>>) \o b
    BY <1>5 DEF Edited, InsertAt
  <2>2. n \in 1 .. N /\ c[n] \in S
    BY <1>1, <1>2
  <2>3. a \in Seq(S) /\ Len(a) = n - 1 /\ b \in Seq(S) /\ Len(b) = N - n + 1 /\ b[1] = c[n]
    BY <1>1, <2>2
  <2> DEFINE e == Append(a, c[n])
  <2>4. e = a \o <<c[n]>>
    <3> HIDE DEF a
    <3>1. IsSeq(a)
      BY <2>3 DEF IsSeq
    <3> QED BY <3>1, SeqAppend
  <2> HIDE DEF a, b
  <2>5. e \in Seq(S) /\ Len(e) = n
    BY <1>2, <2>2, <2>3
  <2> HIDE DEF e
  <2>6. n + 1 \in DOMAIN (e \o b) /\ (e \o b)[n + 1] = b[1]
    BY <1>2, <2>2, <2>3, <2>5
  <2>7. n + 1 \in DOMAIN x /\ x[n + 1] = c[n]
    BY <2>1, <2>3, <2>4, <2>6
  <2>8. c[n].seq = n - 1 /\ n - 1 # (n + 1) - 1
    BY <1>3, <2>2
  <2> HIDE DEF x
  <2> QED BY <2>7, <2>8 DEF Broken
<1>6. CASE edit = "swapped"
  <2>1. n + 1 \in 1 .. N /\ n \in 1 .. N
    BY <1>2, <1>6 DEF Edits
  <2>2. x = [c EXCEPT ![n] = c[n + 1], ![n + 1] = c[n]]
    BY <1>6 DEF Edited
  <2>3. n \in DOMAIN x /\ x[n] = c[n + 1]
    BY <1>2, <2>1, <2>2
  <2>4. c[n + 1].seq = n
    BY <1>2, <1>3, <2>1
  <2>5. n # n - 1
    BY <2>1
  <2> HIDE DEF x
  <2> QED BY <2>3, <2>4, <2>5 DEF Broken
<1>7. CASE edit = "late"
  <2>1. x = [c EXCEPT ![n]["tick"] = @ + 1]
    BY <1>7 DEF Edited
  <2> DEFINE p == PrevHash(c, n)
  <2>2. c[n] = Sealed(log[n], n - 1, p) /\ IsSeq(p) /\ log[n].tick \in Nat
    BY <1>2 DEF ChainOf
  <2> HIDE DEF p
  <2> DEFINE s == Sealed(log[n], n - 1, p)
             y == [s EXCEPT !["tick"] = @ + 1]
  <2>3. y.hash # Append(y.prev, Content(y))
    BY <2>2, LateIsBroken
  <2>4. n \in DOMAIN x /\ x[n] = y
    BY <2>1, <2>2
  <2> HIDE DEF x, y
  <2> QED BY <2>3, <2>4 DEF Broken
<1> HIDE DEF x
<1>8. edit \in Edit
  BY DEF Edits
<1> QED BY <1>4, <1>5, <1>6, <1>7, <1>8 DEF Edit, x

----------------------------------------------------------------------------
(***************************************************************************)
(* Snapshots.                                                              *)
(***************************************************************************)

(* Resuming takes back what the snapshot wrote.                            *)
LEMMA ResumedIsSaved ==
  ASSUME NEW e, IsEngine(e)
  PROVE  Resumed(Snapshot(e)) = e
<1>1. Resumed(Snapshot(e)) =
        [tick |-> e.tick, phase |-> e.phase, seed |-> e.seed, rng |-> e.rng,
         commands |-> e.commands, orders |-> e.orders, teams |-> e.teams,
         incidents |-> e.incidents, awaited |-> e.awaited, aloft |-> e.aloft,
         delivered |-> e.delivered, handled |-> e.handled, wasted |-> e.wasted, keys |-> e.keys,
         score |-> e.score, log |-> e.log]
  BY Zenon DEF Resumed, Snapshot
<1> DEFINE x == Resumed(Snapshot(e))
<1>2. DOMAIN x = EngineField /\ \A f \in EngineField : x[f] = e[f]
  BY <1>1 DEF EngineField
<1>3. x = [f \in EngineField |-> x[f]]
  BY <1>1 DEF EngineField
<1> HIDE DEF x
<1>4. [f \in EngineField |-> x[f]] = [f \in EngineField |-> e[f]]
  BY <1>2
<1>5. x = e
  BY <1>3, <1>4 DEF IsEngine
<1> QED BY <1>5 DEF x

(* The fields of a snapshot that binding and loading compare.              *)
PackedFields(s, p) ==
  /\ p.session = Session /\ p.scenario = Scenario.id /\ p.scenarioDigest = ScenarioDigest
  /\ p.version = Protocol /\ p.protocol = Protocol
  /\ p.tick = s.tick /\ p.worldTick = s.tick /\ p.seed = s.seed
  /\ p.sequence = s.sequence /\ p.events = Chained(s.events)

(* Packed writes them.                                                     *)
LEMMA PackedIs ==
  ASSUME NEW e
  PROVE  LET s == Snapshot(e)
             p == Packed(s)
         IN  /\ PackedFields(s, p)
             /\ p = [f \in DOMAIN p |-> p[f]] /\ {"events", "sequence"} \subseteq DOMAIN p
<1> DEFINE s == Snapshot(e)
           chain == Chained(s.events)
           bound == [session |-> Session, scenario |-> Scenario.id, scenarioDigest |-> ScenarioDigest,
                     version |-> Protocol, protocol |-> Protocol, worldTick |-> s.tick,
                     events |-> chain]
           B == {"session", "scenario", "scenarioDigest", "version", "protocol", "worldTick", "events"}
           F == DOMAIN s \cup DOMAIN bound
           p == [f \in F |-> IF f \in DOMAIN bound THEN bound[f] ELSE s[f]]
<1>1. Packed(s) = p
  BY DEF Packed
<1>2. {"tick", "seed", "sequence"} \subseteq DOMAIN s
  BY DEF Snapshot
<1> HIDE DEF s, chain
<1>3. DOMAIN bound = B
  OBVIOUS
<1>4. /\ bound.session = Session /\ bound.scenario = Scenario.id
      /\ bound.scenarioDigest = ScenarioDigest
      /\ bound.version = Protocol /\ bound.protocol = Protocol
      /\ bound.worldTick = s.tick /\ bound.events = chain
  OBVIOUS
<1> HIDE DEF bound
<1>5. \A f \in B : p[f] = bound[f] /\ f \in F
  BY <1>3
<1>6. \A f \in {"tick", "seed", "sequence"} : p[f] = s[f]
  BY <1>2, <1>3
<1>7. p = [f \in DOMAIN p |-> p[f]]
  OBVIOUS
<1> HIDE DEF p
<1>8. PackedFields(s, p)
  BY <1>4, <1>5, <1>6 DEF PackedFields, chain
<1>9. {"events", "sequence"} \subseteq DOMAIN p
  BY <1>2, <1>5 DEF p
<1> QED BY <1>1, <1>7, <1>8, <1>9 DEF s

(* The chain of a log whose ticks rise is a stream that verifiers take.    *)
LEMMA ChainIsValid ==
  ASSUME NEW log, NEW tick, Rising(log, tick), log # <<>>
  PROVE  ValidStream(Chained(log), Session, Tip(Chained(log))) /\ Len(Chained(log)) = Len(log)
<1> DEFINE c == Chained(log)
<1>1. IsSeq(log) /\ Rising(log, tick) /\ log # <<>>
  BY DEF Rising
<1>2. ChainOf(c, log, Len(log))
  BY <1>1, ChainedIs
<1> HIDE DEF c
<1>3. PICK S : log \in Seq(S)
  BY <1>1 DEF IsSeq
<1>4. PICK R : c \in Seq(R)
  BY <1>2 DEF ChainOf, IsSeq
<1>5. /\ Len(log) \in Nat /\ Len(log) > 0 /\ Len(c) = Len(log)
      /\ DOMAIN log = 1 .. Len(log) /\ DOMAIN c = 1 .. Len(log)
  BY <1>1, <1>2, <1>3, <1>4 DEF ChainOf
<1>6. c # <<>>
  BY <1>5
<1>7. ASSUME NEW n \in DOMAIN c
      PROVE  /\ c[n].session = Session
             /\ c[n].seq = n - 1
             /\ n > 1 => c[n].tick >= c[n - 1].tick
             /\ c[n].prev = (IF n = 1 THEN <<>> ELSE c[n - 1].hash)
             /\ c[n].hash = EventHash(c[n])
  <2>1. n \in 1 .. Len(log)
    BY <1>5
  <2>2. \A k \in 1 .. Len(log) : c[k].tick = log[k].tick
    <3> SUFFICES ASSUME NEW k \in 1 .. Len(log) PROVE c[k].tick = log[k].tick
      OBVIOUS
    <3> DEFINE p == PrevHash(c, k)
    <3>1. c[k] = Sealed(log[k], k - 1, p)
      BY <1>2 DEF ChainOf
    <3> HIDE DEF p
    <3> QED BY <3>1, SealedFields
  <2> DEFINE p == PrevHash(c, n)
             x == c[n]
  <2>3. x = Sealed(log[n], n - 1, p)
    BY <1>2, <2>1 DEF ChainOf
  <2>4. p = (IF n = 1 THEN <<>> ELSE c[n - 1].hash)
    BY DEF PrevHash
  <2> HIDE DEF p, x
  <2>5. x.session = Session /\ x.seq = n - 1 /\ x.prev = p /\ x.hash = Append(p, Content(x))
    BY <2>3, SealedFields
  <2>6. x.hash = EventHash(x)
    BY <2>5 DEF EventHash
  <2>7. n > 1 => c[n].tick >= c[n - 1].tick
    <3> SUFFICES ASSUME n > 1 PROVE c[n].tick >= c[n - 1].tick
      OBVIOUS
    <3>1. n - 1 \in 1 .. Len(log) /\ (n - 1) + 1 = n
      BY <1>5, <2>1
    <3>2. log[n - 1].tick <= log[n].tick /\ log[n].tick \in Nat /\ log[n - 1].tick \in Nat
      BY <1>1, <1>5, <2>1, <3>1 DEF Rising
    <3>3. c[n].tick = log[n].tick /\ c[n - 1].tick = log[n - 1].tick
      BY <2>1, <2>2, <3>1
    <3> QED BY <3>2, <3>3
  <2> QED BY <2>4, <2>5, <2>6, <2>7 DEF x
<1>8. ValidStream(c, Session, Tip(c))
  BY <1>6, <1>7 DEF ValidStream
<1> QED BY <1>5, <1>8 DEF c

(* The snapshot of an engine is taken back by the same session, from memory *)
(* and from a file.                                                        *)
LEMMA SavedIsTaken ==
  ASSUME NEW e, Traceable(e)
  PROVE  LET s == Packed(Snapshot(e))
         IN  Binds(s, Session, e.seed) /\ Loads(File(s))
<1> DEFINE w == Snapshot(e)
           s == Packed(w)
           log == e.log
           c == Chained(log)
<1>1. PackedFields(w, s)
  BY PackedIs
<1>2. w.tick = e.tick /\ w.seed = e.seed /\ w.events = log /\ w.sequence = Len(log)
  BY DEF Snapshot
<1>3. Rising(log, e.tick) /\ log # <<>>
  BY DEF Traceable, Framed
<1> HIDE DEF w, s, log
<1>4. ValidStream(c, Session, Tip(c)) /\ Len(c) = Len(log)
  BY <1>3, ChainIsValid
<1>5. s.events = c /\ s.sequence = Len(c) /\ s.session = Session /\ s.tick = s.worldTick
  BY <1>1, <1>2, <1>4 DEF PackedFields
<1>6. Chain(s)
  <2>1. c # <<>>
    BY <1>4 DEF ValidStream
  <2> QED BY <1>4, <1>5, <2>1 DEF Chain
<1> HIDE DEF c
<1>7. Binds(s, Session, e.seed)
  BY <1>1, <1>2, <1>5, <1>6 DEF Binds, PackedFields
<1>8. File(s).data = s /\ File(s).format = "null-city-snapshot" /\ File(s).version = Protocol
  BY DEF File
<1>9. Parsed(File(s))
  <2>1. s.version = Protocol /\ s.protocol = Protocol /\ s.scenarioDigest = ScenarioDigest
    BY <1>1 DEF PackedFields
  <2>2. s.scenarioDigest # ""
    BY <2>1, DigestAssumption
  <2> QED BY <1>8, <2>1, <2>2 DEF Parsed
<1>10. Validated(s)
  BY <1>5, <1>6 DEF Validated
<1>11. s.session = Session /\ s.seed = e.seed
  BY <1>1, <1>2 DEF PackedFields
<1>12. Loads(File(s))
  BY <1>7, <1>8, <1>9, <1>10, <1>11 DEF Loads
<1> QED BY <1>7, <1>12 DEF s, w

(* With an event lost, repeated, moved or dated later it is refused.       *)
LEMMA EditedIsRefused ==
  ASSUME NEW e, Traceable(e), NEW n, NEW edit, NEW session, NEW seed,
         n \in DOMAIN Packed(Snapshot(e)).events,
         edit \in Edits(Packed(Snapshot(e)).events, n)
  PROVE  LET s == Packed(Snapshot(e))
             events == Edited(s.events, edit, n, "tick")
         IN  \/ edit = "lost" /\ n = Len(s.events)
             \/ ~Binds([s EXCEPT !.events = events, !.sequence = Len(events)], session, seed)
<1> DEFINE w == Snapshot(e)
           s == Packed(w)
           log == e.log
           c == Chained(log)
<1>1. PackedFields(w, s) /\ s = [f \in DOMAIN s |-> s[f]] /\ {"events", "sequence"} \subseteq DOMAIN s
  BY PackedIs
<1>2. w.events = log
  BY DEF Snapshot
<1>3. IsSeq(log) /\ Rising(log, e.tick)
  BY DEF Traceable, IsEngine
<1> HIDE DEF log, w
<1>4. s.events = c
  BY <1>1, <1>2 DEF PackedFields
<1>5. n \in DOMAIN c /\ edit \in Edits(c, n)
  BY <1>4 DEF w
<1> HIDE DEF s
<1>6. ChainOf(c, log, Len(log))
  BY <1>3, ChainedIs
<1> HIDE DEF c
<1> DEFINE events == Edited(c, edit, n, "tick")
           t == [s EXCEPT !.events = events, !.sequence = Len(events)]
<1>7. (edit = "lost" /\ n = Len(c)) \/ Broken(events)
  <2>1. \A k \in DOMAIN log : log[k].tick \in Nat
    BY <1>3 DEF Rising
  <2> QED BY <1>3, <1>5, <1>6, <2>1, EditBreaks
<1> HIDE DEF events
<1>8. t.events = events
  BY <1>1
<1> HIDE DEF t
<1>9. Broken(events) => ~Binds(t, session, seed)
  BY <1>8, BrokenIsRefused DEF Binds, Chain
<1>10. (edit = "lost" /\ n = Len(c)) \/ ~Binds(t, session, seed)
  BY <1>7, <1>9
<1> QED BY <1>4, <1>10 DEF t, events, s, w

----------------------------------------------------------------------------
(***************************************************************************)
(* The engine of a session, and its snapshot.                              *)
(***************************************************************************)
SavedInv ==
  saved # NoSnapshot =>
    \E e : Traceable(e) /\ e.seed = run.engine.seed /\ saved = Snapshot(e)

(* The inductive invariant of a session's engine and of its snapshot.      *)
EngineInv == IsRun(run) /\ Traceable(run.engine) /\ SavedInv

(* A request is its own twin.                                              *)
LEMMA TwinsSelf ==
  ASSUME NEW c, c.name \in CommandName
  PROVE  Twins(c, c)
BY DEF Twins

\* What the handlers do to a running engine.
(* The engine after a tick.                                                *)
LEMMA EngineAfterTick ==
  ASSUME NEW r, IsRun(r), Traceable(r.engine), r.engine.phase = "running"
  PROVE  /\ IsRun(Ticked(r)) /\ Traceable(Ticked(r).engine)
         /\ Ticked(r).engine.seed = r.engine.seed
         /\ Ticked(r).engine.tick = r.engine.tick + 1
<1> DEFINE s == Ticked(r)
           l == <<>>
<1>1. IsSeq(l)
  BY SeqShort
<1> HIDE DEF l
<1>2. r.engine.phase # "completed"
  OBVIOUS
<1>3. RanOn(r, s)
  BY <1>1, <1>2, TickAlike
<1> HIDE DEF s
<1>4. IsRun(s) /\ s.engine = StepEngine(r.engine)
  BY <1>3 DEF RanOn
<1>5. Traceable(StepEngine(r.engine)) /\ Stepped(r.engine, StepEngine(r.engine))
  BY TraceableStep
<1> QED BY <1>4, <1>5 DEF Stepped, s

(* The engine after a request.                                             *)
LEMMA EngineAfterCommand ==
  ASSUME NEW r, IsRun(r), Traceable(r.engine), r.engine.phase = "running",
         NEW c, c.name \in CommandName, NEW key, NEW request
  PROVE  LET s == Handled(r, c, key, request)
         IN  /\ IsRun(s) /\ Traceable(s.engine)
             /\ s.engine.seed = r.engine.seed /\ s.engine.tick = r.engine.tick
<1> DEFINE s == Handled(r, c, key, request)
           l == <<>>
<1>1. IsSeq(l)
  BY SeqShort
<1> HIDE DEF l
<1>2. r.engine.phase # "completed"
  OBVIOUS
<1>3. Twins(c, c)
  BY TwinsSelf
<1>4. HandledOn(r, s, c, key)
  BY <1>1, <1>2, <1>3, HandledAlike
<1> HIDE DEF s
<1>5. IsRun(s) /\ s.engine = Submit(r.engine, c, key).engine
  BY <1>4 DEF HandledOn
<1> DEFINE e == Submit(r.engine, c, key).engine
<1>6. Traceable(e) /\ e.tick = r.engine.tick /\ e.seed = r.engine.seed
  BY TraceableSubmit
<1> QED BY <1>5, <1>6 DEF s

(* The engine after an assessment.                                         *)
LEMMA EngineAfterAssessment ==
  ASSUME NEW r, IsRun(r), NEW x
  PROVE  IsRun(AssessedIn(r, x)) /\ AssessedIn(r, x).engine = r.engine
<1> DEFINE l == <<>>
<1> HIDE DEF l
<1> QED BY AssessedAlike

\* A snapshot stays one of the session while the seed stays.
(* Steps that keep the snapshot and the seed keep what is said of them.    *)
LEMMA SavedStays ==
  ASSUME SavedInv, saved' = saved, run'.engine.seed = run.engine.seed
  PROVE  SavedInv'
BY DEF SavedInv

(* The session starts with it.                                             *)
LEMMA EngineInit == RecordInit => EngineInv
<1> SUFFICES ASSUME RecordInit PROVE EngineInv
  OBVIOUS
<1>1. PICK seed \in Seeds : run = Started(FreshEngine(seed))
  BY DEF RecordInit
<1>2. Traceable(FreshEngine(seed))
  BY TraceableFresh
<1>3. IsRun(Started(FreshEngine(seed))) /\ Started(FreshEngine(seed)).engine = FreshEngine(seed)
  BY <1>2, StartedIsRun DEF Traceable
<1>4. saved = NoSnapshot
  BY DEF RecordInit
<1> QED BY <1>1, <1>2, <1>3, <1>4 DEF EngineInv, SavedInv

(* Every step keeps it, a restart from the snapshot included.              *)
LEMMA EngineStep ==
  ASSUME EngineInv, [RecordNext]_recordVars
  PROVE  EngineInv'
<1>0. IsRun(run) /\ Traceable(run.engine) /\ SavedInv
  BY DEF EngineInv
<1>1. CASE Advance
  <2>1. run' = Ticks(run, 1) /\ saved' = saved /\ run.engine.phase = "running"
    BY <1>1 DEF Advance, Running
  <2>2. Ticks(run, 1) = Ticked(run)
    <3>1. 0 \in Nat /\ 0 + 1 = 1
      OBVIOUS
    <3>2. Ticks(run, 0) = run /\ Ticks(run, 0 + 1) = Ticked(Ticks(run, 0))
      BY <3>1, TicksMore
    <3> QED BY <3>1, <3>2
  <2>3. IsRun(run') /\ Traceable(run'.engine) /\ run'.engine.seed = run.engine.seed
    BY <1>0, <2>1, <2>2, EngineAfterTick
  <2>4. SavedInv'
    BY <1>0, <2>1, <2>3, SavedStays
  <2> QED BY <2>3, <2>4 DEF EngineInv
<1>2. ASSUME NEW r \in Requests, NEW key \in Keys, Command(r, key) PROVE EngineInv'
  <2>1. /\ run' = Handled(run, r, key, NoClaim) /\ saved' = saved
        /\ run.engine.phase = "running" /\ r.name \in CommandName
    BY <1>2, RecordAssumption DEF Command, Running
  <2>2. IsRun(run') /\ Traceable(run'.engine) /\ run'.engine.seed = run.engine.seed
    BY <1>0, <2>1, EngineAfterCommand
  <2>3. SavedInv'
    BY <1>0, <2>1, <2>2, SavedStays
  <2> QED BY <2>2, <2>3 DEF EngineInv
<1>3. ASSUME NEW r \in Requests, NEW key \in Keys, Verify(r, key) PROVE EngineInv'
  <2> DEFINE c == [name   |-> r.name,
                   params |-> Targeting(r.params.team, Where(r.params.claim), r.params.more)]
             claim == r.params.claim
  <2>1. /\ run' = Handled(run, c, key, claim) /\ saved' = saved
        /\ run.engine.phase = "running" /\ c.name \in CommandName
    BY <1>3, RecordAssumption DEF Verify, Running
  <2> HIDE DEF c, claim
  <2>2. IsRun(run') /\ Traceable(run'.engine) /\ run'.engine.seed = run.engine.seed
    BY <1>0, <2>1, EngineAfterCommand
  <2>3. SavedInv'
    BY <1>0, <2>1, <2>2, SavedStays
  <2> QED BY <2>2, <2>3 DEF EngineInv
<1>4. ASSUME NEW c \in Claim, NEW probability \in Beliefs, Assess(c, probability) PROVE EngineInv'
  <2> DEFINE x == [id |-> Len(run.bridge.log) + 1, claim |-> c, probability |-> probability,
                   at |-> run.engine.tick]
  <2>1. run' = AssessedIn(run, x) /\ saved' = saved
    BY <1>4 DEF Assess
  <2> HIDE DEF x
  <2>2. IsRun(run') /\ run'.engine = run.engine
    BY <1>0, <2>1, EngineAfterAssessment
  <2>3. SavedInv'
    BY <1>0, <2>1, <2>2, SavedStays
  <2> QED BY <1>0, <2>2, <2>3 DEF EngineInv
<1>5. CASE Save
  <2>1. run' = run /\ saved' = Snapshot(run.engine)
    BY <1>5 DEF Save
  <2> QED BY <1>0, <2>1 DEF EngineInv, SavedInv
<1>6. CASE Restart
  <2>1. run' = Started(Resumed(saved)) /\ saved' = NoSnapshot /\ saved # NoSnapshot
    BY <1>6 DEF Restart
  <2>2. PICK e : Traceable(e) /\ e.seed = run.engine.seed /\ saved = Snapshot(e)
    BY <1>0, <2>1 DEF SavedInv
  <2>3. Resumed(saved) = e /\ IsEngine(e)
    BY <2>2, ResumedIsSaved DEF Traceable
  <2>4. IsRun(Started(e)) /\ Started(e).engine = e
    BY <2>3, StartedIsRun
  <2> QED BY <2>1, <2>2, <2>3, <2>4 DEF EngineInv, SavedInv
<1>7. CASE UNCHANGED recordVars
  <2>1. run' = run /\ saved' = saved
    BY <1>7 DEF recordVars
  <2> QED BY <1>0, <2>1 DEF EngineInv, SavedInv
<1> QED BY <1>1, <1>2, <1>3, <1>4, <1>5, <1>6, <1>7 DEF RecordNext

(* At every moment of every session the engine is the one that its seed,   *)
(* the commands of its log and its clock determine, and so was the engine  *)
(* of the snapshot (engine.ts submitCommand and step, replay.ts).          *)
THEOREM EngineInvariant == RecordSpec => []EngineInv
<1>1. RecordInit => EngineInv
  BY EngineInit
<1>2. EngineInv /\ [RecordNext]_recordVars => EngineInv'
  BY EngineStep
<1> QED BY <1>1, <1>2, PTL DEF RecordSpec

(* The log of a completed engine, replayed from its seed, makes the engine.*)
LEMMA ReplayedIsEngine ==
  ASSUME NEW e, Traceable(e), e.phase = "completed"
  PROVE  TruthReplay(e.seed, e.log) = e /\ e.tick = Scenario.totalTicks
<1> DEFINE f == Rebuilt(e.seed, e.log)
           T == Scenario.totalTicks
<1>1. TruthReplay(e.seed, e.log) = Reach(f, T)
  BY DEF TruthReplay, RunToEnd, Rebuilt
<1>2. e.tick = T /\ T \in Nat
  <2> HIDE DEF T
  <2>1. e.tick \in Nat /\ e.tick <= T
    BY DEF Traceable, IsEngine, T
  <2>2. ~(e.tick < T)
    BY DEF Traceable, T
  <2>3. T \in Nat
    BY ScenarioAssumption DEF T
  <2> QED BY <2>1, <2>2, <2>3
<1>3. f.tick \in Nat /\ f.tick <= e.tick /\ e = Steps(f, e.tick - f.tick)
  BY DEF Traceable, Retraced
<1> HIDE DEF f, T
<1>4. CASE f.tick < T
  <2>1. Reach(f, T) = Steps(f, T - f.tick)
    BY <1>4 DEF Reach
  <2> QED BY <1>1, <1>2, <1>3, <2>1 DEF T
<1>5. CASE ~(f.tick < T)
  <2>1. f.tick = T /\ e.tick - f.tick = 0
    BY <1>2, <1>3, <1>5
  <2>2. Steps(f, 0) = f
    <3>1. 0 \in Nat
      OBVIOUS
    <3> QED BY <3>1, StepsMore
  <2>3. Reach(f, T) = f
    BY <1>5 DEF Reach
  <2> QED BY <1>1, <1>2, <1>3, <2>1, <2>2, <2>3 DEF T
<1> QED BY <1>4, <1>5

(* TruthRebuildsRun follows: the log of a traceable engine frames one run, *)
(* its commands retrace it, and an edit of its snapshot breaks the chain.  *)
LEMMA TruthIsRebuilt == EngineInv => TruthRebuildsRun
<1> SUFFICES ASSUME EngineInv PROVE TruthRebuildsRun
  OBVIOUS
<1>0. Traceable(run.engine) /\ SavedInv
  BY DEF EngineInv
<1>1. ASSUME Completed PROVE TruthReplay(run.engine.seed, run.engine.log) = run.engine
  BY <1>0, <1>1, ReplayedIsEngine DEF Completed
<1>2. ASSUME JustSaved
      PROVE  LET s == Packed(saved)
             IN  /\ Binds(s, Session, run.engine.seed) /\ Loads(File(s))
                 /\ \A n \in DOMAIN s.events : \A edit \in Edits(s.events, n) :
                      LET events == Edited(s.events, edit, n, "tick")
                      IN  \/ events = s.events
                          \/ edit = "lost" /\ n = Len(s.events)
                          \/ ~Binds(SavedWith(events), Session, run.engine.seed)
  <2>1. PICK e : Traceable(e) /\ e.seed = run.engine.seed /\ saved = Snapshot(e)
    BY <1>0, <1>2 DEF JustSaved, SavedInv
  <2>2. Binds(Packed(saved), Session, run.engine.seed) /\ Loads(File(Packed(saved)))
    BY <2>1, SavedIsTaken
  <2>3. ASSUME NEW n \in DOMAIN Packed(saved).events, NEW edit \in Edits(Packed(saved).events, n)
        PROVE  LET events == Edited(Packed(saved).events, edit, n, "tick")
               IN  \/ edit = "lost" /\ n = Len(Packed(saved).events)
                   \/ ~Binds(SavedWith(events), Session, run.engine.seed)
    BY <2>1, <2>3, EditedIsRefused DEF SavedWith
  <2> QED BY <2>2, <2>3
<1> QED BY <1>1, <1>2 DEF TruthRebuildsRun

(* The truth log of a completed run rebuilds the run, and a snapshot is    *)
(* taken back by its session as it was written and refused when an event   *)
(* in it was lost, repeated, moved or dated later (snapshot.ts, replay.ts).*)
THEOREM TruthRebuildsRunCorrect == RecordSpec => []TruthRebuildsRun
BY EngineInvariant, TruthIsRebuilt, PTL

----------------------------------------------------------------------------
(***************************************************************************)
(* The run that the ledger rebuilds.                                       *)
(***************************************************************************)
Applying == INSTANCE FoldLaws WITH Op <- LAMBDA p, r, action : Apply(r, action)

\* The run after the actions of a ledger.
Reapplied(seed, actions) == FoldLeft(Apply, Started(FreshEngine(seed)), actions)

(* It is a fold.                                                           *)
LEMMA ReappliedIsFold ==
  ASSUME NEW seed, NEW actions
  PROVE  Reapplied(seed, actions) = Applying!Fold(0, Started(FreshEngine(seed)), actions)
BY DEF Reapplied, Applying!Fold, Applying!Highest, FoldLeft, MapThenFoldSet, Max

(* The run after one action more.                                          *)
LEMMA ReappliedMore ==
  ASSUME NEW seed, NEW actions, IsSeq(actions), NEW action
  PROVE  /\ Reapplied(seed, <<>>) = Started(FreshEngine(seed))
         /\ Reapplied(seed, Append(actions, action)) = Apply(Reapplied(seed, actions), action)
<1>1. PICK S : actions \in Seq(S)
  BY DEF IsSeq
<1> DEFINE U == S \cup {action}
           start == Started(FreshEngine(seed))
<1>2. actions \in Seq(U) /\ action \in U
  BY <1>1
<1> HIDE DEF U
<1> HIDE DEF start
<1>3. Applying!Fold(0, start, Append(actions, action)) = Apply(Applying!Fold(0, start, actions), action)
  BY <1>2, Applying!FoldAppend
<1>4. Applying!Fold(0, start, <<>>) = start
  BY Applying!FoldEmpty
<1> QED BY <1>3, <1>4, ReappliedIsFold DEF start

(* The truth log with every verification as the ledger keeps it.           *)
PlainEvent(ev) ==
  IF ev.kind = "CommandIssued" /\ ev.data.name = "REQUEST_VERIFICATION" /\ ev.data.params.more # Nothing
  THEN Event(ev.kind, ev.tick,
             [id |-> ev.data.id, name |-> ev.data.name, key |-> ev.data.key,
              params |-> Targeting(ev.data.params.team, ev.data.params.target, Nothing)])
  ELSE ev
(* The log and the run with every verification as the ledger keeps it.     *)
PlainLog(log) == [n \in DOMAIN log |-> PlainEvent(log[n])]
PlainRun(r) == Relog(PlainLog(r.engine.log), r)

(* The plain log of a sequence is one.                                     *)
LEMMA PlainIsSeq ==
  ASSUME NEW log, IsSeq(log)
  PROVE  IsSeq(PlainLog(log)) /\ DOMAIN PlainLog(log) = DOMAIN log
<1>1. PICK S : log \in Seq(S)
  BY DEF IsSeq
<1> DEFINE U == {PlainEvent(ev) : ev \in S}
           p == PlainLog(log)
<1>2. DOMAIN log = 1 .. Len(log) /\ Len(log) \in Nat
  BY <1>1
<1>3. \A n \in 1 .. Len(log) : PlainEvent(log[n]) \in U
  BY <1>1
<1>4. p = [n \in 1 .. Len(log) |-> PlainEvent(log[n])]
  BY <1>2 DEF PlainLog
<1> HIDE DEF U, p
<1>5. p \in [1 .. Len(log) -> U]
  BY <1>3, <1>4
<1>6. p \in Seq(U)
  BY <1>2, <1>5
<1>7. DOMAIN p = DOMAIN log
  BY <1>2, <1>4
<1> QED BY <1>6, <1>7 DEF IsSeq, p

(* Events that are not commands stay as they are. *)
LEMMA PlainConcat ==
  ASSUME NEW log, NEW d, IsSeq(log), IsSeq(d), \A n \in DOMAIN d : d[n].kind # "CommandIssued"
  PROVE  PlainLog(log \o d) = PlainLog(log) \o d
<1> DEFINE p == PlainLog(log)
           a == log \o d
           b == p \o d
           N == Len(log)
           M == Len(d)
<1>1. IsSeq(p) /\ DOMAIN p = DOMAIN log
  BY PlainIsSeq
<1>2. /\ N \in Nat /\ M \in Nat /\ DOMAIN log = 1 .. N /\ DOMAIN d = 1 .. M
      /\ DOMAIN a = 1 .. N + M
      /\ \A n \in 1 .. N : a[n] = log[n]
      /\ \A n \in 1 .. M : a[N + n] = d[n]
  BY SeqParts
<1>3. \A n \in 1 .. N : p[n] = PlainEvent(log[n])
  BY <1>2 DEF PlainLog
<1> HIDE DEF p
<1>4. Len(p) = N
  <2>1. PICK S : p \in Seq(S)
    BY <1>1 DEF IsSeq
  <2> QED BY <1>1, <1>2, <2>1
<1>5. /\ DOMAIN b = 1 .. N + M
      /\ \A n \in 1 .. N : b[n] = p[n]
      /\ \A n \in 1 .. M : b[N + n] = d[n]
  <2>1. /\ DOMAIN b = 1 .. Len(p) + Len(d)
        /\ \A n \in 1 .. Len(p) : b[n] = p[n]
        /\ \A n \in 1 .. Len(d) : b[Len(p) + n] = d[n]
    BY <1>1, SeqParts
  <2> QED BY <1>4, <2>1
<1>6. b = [n \in 1 .. N + M |-> b[n]]
  <2>1. IsSeq(b)
    BY <1>1, SeqAppend
  <2>2. PICK S : b \in Seq(S)
    BY <2>1 DEF IsSeq
  <2> HIDE DEF b
  <2> QED BY <1>5, <2>2
<1> HIDE DEF a, b
<1>7. ASSUME NEW n \in 1 .. N + M PROVE PlainEvent(a[n]) = b[n]
  <2>1. CASE n \in 1 .. N
    BY <1>2, <1>3, <1>5, <2>1
  <2>2. CASE n \notin 1 .. N
    <3>1. n - N \in 1 .. M /\ N + (n - N) = n
      BY <1>2, <2>2
    <3>2. a[n] = d[n - N] /\ b[n] = d[n - N] /\ d[n - N].kind # "CommandIssued"
      BY <1>2, <1>5, <3>1
    <3> QED BY <3>2 DEF PlainEvent
  <2> QED BY <2>1, <2>2
<1>8. PlainLog(a) = [n \in 1 .. N + M |-> PlainEvent(a[n])]
  BY <1>2 DEF PlainLog
<1> QED BY <1>6, <1>7, <1>8 DEF a, b, p

(* The plain log of a longer log.                                          *)
LEMMA PlainAppend ==
  ASSUME NEW log, NEW ev, IsSeq(log)
  PROVE  PlainLog(Append(log, ev)) = Append(PlainLog(log), PlainEvent(ev))
<1> DEFINE p == PlainLog(log)
           a == Append(log, ev)
           b == Append(p, PlainEvent(ev))
           N == Len(log)
<1>1. PICK S : log \in Seq(S)
  BY DEF IsSeq
<1>2. IsSeq(p) /\ DOMAIN p = DOMAIN log
  BY PlainIsSeq
<1>3. PICK R : p \in Seq(R)
  BY <1>2 DEF IsSeq
<1>4. N \in Nat /\ DOMAIN log = 1 .. N /\ \A n \in 1 .. N : p[n] = PlainEvent(log[n])
  BY <1>1 DEF PlainLog
<1> HIDE DEF p
<1>5. DOMAIN a = 1 .. N + 1 /\ a[N + 1] = ev /\ \A n \in 1 .. N : a[n] = log[n]
  <2> DEFINE U == S \cup {ev}
  <2>1. log \in Seq(U) /\ ev \in U
    BY <1>1
  <2> HIDE DEF U
  <2> QED BY <2>1, <1>4
<1> DEFINE z == PlainEvent(ev)
<1> HIDE DEF z
<1>6. Len(p) = N
  BY <1>2, <1>3, <1>4
<1>7. b = [n \in 1 .. N + 1 |-> b[n]] /\ b[N + 1] = z /\ \A n \in 1 .. N : b[n] = p[n]
  <2> DEFINE U == R \cup {z}
             y == Append(p, z)
  <2>1. p \in Seq(U) /\ z \in U
    BY <1>3
  <2> HIDE DEF U
  <2>2. y \in Seq(U) /\ Len(y) = N + 1 /\ y[N + 1] = z /\ \A n \in 1 .. N : y[n] = p[n]
    BY <1>4, <1>6, <2>1
  <2>3. b = y
    BY DEF z
  <2> HIDE DEF y, b
  <2> QED BY <1>4, <2>2, <2>3
<1> HIDE DEF a, b
<1>8. ASSUME NEW n \in 1 .. N + 1 PROVE PlainEvent(a[n]) = b[n]
  <2>1. CASE n \in 1 .. N
    BY <1>4, <1>5, <1>7, <2>1
  <2>2. CASE n = N + 1
    BY <1>5, <1>7, <2>2 DEF z
  <2> QED BY <1>4, <2>1, <2>2
<1>9. PlainLog(a) = [n \in 1 .. N + 1 |-> PlainEvent(a[n])]
  BY <1>5 DEF PlainLog
<1> QED BY <1>7, <1>8, <1>9 DEF a, b, p

(* A log without a field beyond the contract is plain.                     *)
LEMMA PlainKeeps ==
  ASSUME NEW log, IsSeq(log),
         \A n \in DOMAIN log :
           log[n].kind = "CommandIssued" /\ log[n].data.name = "REQUEST_VERIFICATION"
             => log[n].data.params.more = Nothing
  PROVE  PlainLog(log) = log
<1>1. PICK S : log \in Seq(S)
  BY DEF IsSeq
<1>2. log = [n \in DOMAIN log |-> log[n]]
  BY <1>1
<1>3. \A n \in DOMAIN log : PlainEvent(log[n]) = log[n]
  BY DEF PlainEvent
<1>4. PlainLog(log) = [n \in DOMAIN log |-> log[n]]
  BY <1>3 DEF PlainLog
<1> QED BY <1>2, <1>4

(* A run with its own log is itself.                                       *)
LEMMA RelogSelf ==
  ASSUME NEW r, IsRun(r)
  PROVE  Relog(r.engine.log, r) = r
<1> DEFINE e == r.engine
           g == [e EXCEPT !.log = e.log]
<1>1. e = [f \in EngineField |-> e[f]]
  BY DEF IsRun, IsEngine
<1>2. g = e
  <2> HIDE DEF e
  <2> QED BY <1>1
<1>3. Relogged(e.log, e) = g
  BY DEF Relogged
<1>4. Relog(e.log, r) = [engine |-> Relogged(e.log, e), bridge |-> r.bridge, jobs |-> r.jobs]
  BY RelogFields
<1> HIDE DEF g
<1>5. Relog(e.log, r) = [engine |-> e, bridge |-> r.bridge, jobs |-> r.jobs]
  BY <1>2, <1>3, <1>4
<1> QED BY <1>5 DEF IsRun

(* The fields of a run with another log.                                   *)
LEMMA RelogEngine ==
  ASSUME NEW l, NEW r, IsRun(r)
  PROVE  /\ Relog(l, r).engine.log = l /\ Relog(l, r).engine.tick = r.engine.tick
         /\ Relog(l, r).bridge = r.bridge
<1>1. Relog(l, r) = [engine |-> Relogged(l, r.engine), bridge |-> r.bridge, jobs |-> r.jobs]
      /\ Relogged(l, r.engine).log = l
      /\ \A f \in EngineField \ {"log"} : Relogged(l, r.engine)[f] = r.engine[f]
  BY RelogFields
<1>2. Relogged(l, r.engine).tick = r.engine.tick
  BY <1>1 DEF EngineField
<1> QED BY <1>1, <1>2

(* The plain run has the clock and the player log of the run.              *)
LEMMA PlainIsRun ==
  ASSUME NEW r, IsRun(r)
  PROVE  /\ IsRun(PlainRun(r)) /\ PlainRun(r).engine.tick = r.engine.tick
         /\ PlainRun(r).bridge = r.bridge /\ PlainRun(r).engine.log = PlainLog(r.engine.log)
<1> DEFINE l == PlainLog(r.engine.log)
<1>1. IsSeq(r.engine.log)
  BY DEF IsRun, IsEngine
<1>2. IsSeq(l)
  BY <1>1, PlainIsSeq
<1>3. PlainRun(r) = Relog(l, r)
  BY DEF PlainRun
<1> HIDE DEF l
<1>4. IsRun(Relog(l, r))
  BY <1>2, RelogFields
<1>5. Relog(l, r).engine.tick = r.engine.tick /\ Relog(l, r).bridge = r.bridge /\ Relog(l, r).engine.log = l
  BY RelogEngine
<1> QED BY <1>3, <1>4, <1>5 DEF l

(* A fresh run is plain.                                                   *)
LEMMA PlainStart ==
  ASSUME NEW seed
  PROVE  LET r == Started(FreshEngine(seed)) IN IsRun(r) /\ PlainRun(r) = r /\ r.engine = FreshEngine(seed)
<1> DEFINE r == Started(FreshEngine(seed))
<1>1. Traceable(FreshEngine(seed)) /\ FreshEngine(seed).log = <<Genesis(seed)>>
  BY TraceableFresh
<1>2. IsRun(r) /\ r.engine = FreshEngine(seed)
  BY <1>1, StartedIsRun DEF Traceable
<1> HIDE DEF r
<1> DEFINE log == r.engine.log
<1>3. IsSeq(log)
  BY <1>2 DEF IsRun, IsEngine
<1>4. \A n \in DOMAIN log : log[n].kind # "CommandIssued"
  <2>1. log = <<Genesis(seed)>>
    BY <1>1, <1>2
  <2> HIDE DEF log
  <2> DEFINE g == Genesis(seed)
  <2>2. g.kind # "CommandIssued"
    BY DEF Genesis, Event
  <2> HIDE DEF g
  <2>3. DOMAIN log = {1} /\ log[1] = g
    BY <2>1 DEF g
  <2> QED BY <2>2, <2>3
<1>5. PlainLog(log) = log
  <2> HIDE DEF log
  <2> QED BY <1>3, <1>4, PlainKeeps
<1>6. Relog(log, r) = r
  BY <1>2, RelogSelf
<1> QED BY <1>2, <1>5, <1>6 DEF PlainRun, r

(* A tick does to the rebuilt run what it does to the run.                 *)
LEMMA PlainTick ==
  ASSUME NEW r, IsRun(r), r.engine.phase # "completed"
  PROVE  Ticked(PlainRun(r)) = PlainRun(Ticked(r))
<1> DEFINE l == PlainLog(r.engine.log)
           s == Ticked(r)
           t == Ticked(Relog(l, r))
           log == r.engine.log
<1>1. IsSeq(log)
  BY DEF IsRun, IsEngine
<1>2. IsSeq(l)
  <2> HIDE DEF log
  <2>1. IsSeq(PlainLog(log))
    BY <1>1, PlainIsSeq
  <2> QED BY <2>1 DEF log
<1> HIDE DEF l
<1>3. RunsAlike(l, r, s, t)
  BY <1>2, TickAlike
<1> HIDE DEF s, t
<1>4. PICK d : /\ IsSeq(d) /\ \A n \in DOMAIN d : d[n].kind # "CommandIssued"
               /\ s.engine.log = log \o d
               /\ t = Relog(l \o d, s)
  BY <1>3 DEF RunsAlike
<1> HIDE DEF log
<1>5. PlainLog(log \o d) = PlainLog(log) \o d
  BY <1>1, <1>4, PlainConcat
<1>6. PlainLog(s.engine.log) = l \o d
  BY <1>4, <1>5 DEF l, log
<1>7. t = PlainRun(s)
  BY <1>4, <1>6 DEF PlainRun
<1> QED BY <1>7 DEF s, t, l, PlainRun

(* A request does to the plain run what its twin, with the plain           *)
(* parameters, does to the run.                                            *)
LEMMA PlainHandled ==
  ASSUME NEW r, IsRun(r), r.engine.phase # "completed", NEW c, NEW d, Twins(c, d), NEW key, NEW request,
         PlainEvent(Asks(r.engine, c, key)) = Asks(r.engine, d, key)
  PROVE  Handled(PlainRun(r), d, key, request) = PlainRun(Handled(r, c, key, request))
<1> DEFINE l == PlainLog(r.engine.log)
           s == Handled(r, c, key, request)
           t == Handled(Relog(l, r), d, key, request)
           log == r.engine.log
           evc == Asks(r.engine, c, key)
           evd == Asks(r.engine, d, key)
<1>1. IsSeq(log)
  BY DEF IsRun, IsEngine
<1>2. IsSeq(l)
  <2> HIDE DEF log
  <2>1. IsSeq(PlainLog(log))
    BY <1>1, PlainIsSeq
  <2> QED BY <2>1 DEF log
<1> HIDE DEF l
<1>3. TwinRuns(l, r, c, d, key, s, t)
  BY <1>2, HandledAlike
<1> HIDE DEF s, t
<1>4. PICK x : /\ IsSeq(x) /\ \A n \in DOMAIN x : x[n].kind # "CommandIssued"
               /\ s.engine.log = Append(log, evc) \o x
               /\ t = Relog(Append(l, evd) \o x, s)
  BY <1>3 DEF TwinRuns
<1>5. PlainEvent(evc) = evd
  OBVIOUS
<1> HIDE DEF log, evc, evd
<1> DEFINE w == Append(log, evc)
<1>6. IsSeq(w)
  <2>1. IsSeq(<<>>)
    BY SeqShort
  <2> QED BY <1>1, <2>1, SeqAppend
<1>7. PlainLog(w) = Append(l, evd)
  BY <1>1, <1>5, PlainAppend DEF l, log
<1> HIDE DEF w
<1>8. PlainLog(w \o x) = PlainLog(w) \o x
  BY <1>4, <1>6, PlainConcat
<1>9. PlainLog(s.engine.log) = Append(l, evd) \o x
  BY <1>4, <1>7, <1>8 DEF w
<1>10. t = PlainRun(s)
  BY <1>4, <1>9 DEF PlainRun
<1> QED BY <1>10 DEF s, t, l, PlainRun

(* Advancing a tick further.                                               *)
LEMMA AdvancedMore ==
  ASSUME NEW p, NEW t \in Nat, p.engine.tick \in Nat, p.engine.tick <= t
  PROVE  /\ AdvancedTo(p, p.engine.tick) = p
         /\ AdvancedTo(p, t + 1) = Ticked(AdvancedTo(p, t))
<1> DEFINE n == t - p.engine.tick
<1>1. n \in Nat /\ (t + 1) - p.engine.tick = n + 1 /\ p.engine.tick < t + 1
  OBVIOUS
<1>2. Ticks(p, 0) = p /\ Ticks(p, n + 1) = Ticked(Ticks(p, n))
  <2> HIDE DEF n
  <2> QED BY <1>1, TicksMore
<1>3. AdvancedTo(p, t + 1) = Ticks(p, n + 1)
  BY <1>1 DEF AdvancedTo
<1>4. AdvancedTo(p, t) = Ticks(p, n)
  <2>1. CASE p.engine.tick < t
    BY <2>1 DEF AdvancedTo
  <2>2. CASE ~(p.engine.tick < t)
    <3>1. n = 0
      BY <2>2
    <3> HIDE DEF n
    <3> QED BY <1>2, <2>2, <3>1 DEF AdvancedTo
  <2> QED BY <2>1, <2>2
<1>5. AdvancedTo(p, p.engine.tick) = p
  BY DEF AdvancedTo
<1> QED BY <1>2, <1>3, <1>4, <1>5

----------------------------------------------------------------------------
(***************************************************************************)
(* The ledger rebuilds the run.                                            *)
(***************************************************************************)
Rebuilds(actions, r) ==
  LET p == Reapplied(r.engine.seed, actions)
  IN  /\ p.engine.tick \in Nat /\ p.engine.tick <= r.engine.tick
      /\ AdvancedTo(p, r.engine.tick) = PlainRun(r)

(* The inductive invariant of the ledger: of a session that was never      *)
(* restarted the ledger rebuilds the run at every moment, not only when it *)
(* is complete.                                                            *)
LedgerInv ==
  /\ IsSeq(ledger) /\ restarts \in Nat
  /\ Fresh => Rebuilds(ledger, run)

(* No action rebuilds a fresh run.                                         *)
LEMMA RebuildsStart ==
  ASSUME NEW seed
  PROVE  Rebuilds(<<>>, Started(FreshEngine(seed)))
<1> DEFINE r == Started(FreshEngine(seed))
           none == <<>>
<1>1. PlainRun(r) = r /\ r.engine = FreshEngine(seed)
  BY PlainStart
<1>2. r.engine.seed = seed /\ r.engine.tick = 0
  BY <1>1, TraceableFresh
<1>3. Reapplied(seed, none) = r
  BY SeqShort, ReappliedMore
<1> HIDE DEF r, none
<1>4. AdvancedTo(r, r.engine.tick) = r
  <2>1. 0 \in Nat /\ r.engine.tick \in Nat /\ r.engine.tick <= 0
    BY <1>2
  <2> QED BY <2>1, AdvancedMore
<1>5. Rebuilds(none, r)
  BY <1>1, <1>2, <1>3, <1>4 DEF Rebuilds
<1> QED BY <1>5 DEF r, none

(* What rebuilds a run rebuilds it a tick later.                           *)
LEMMA RebuildsTick ==
  ASSUME NEW actions, NEW r, IsRun(r), Traceable(r.engine), r.engine.phase = "running",
         Rebuilds(actions, r)
  PROVE  Rebuilds(actions, Ticked(r))
<1> DEFINE p == Reapplied(r.engine.seed, actions)
           s == Ticked(r)
           t == r.engine.tick
<1>1. p.engine.tick \in Nat /\ p.engine.tick <= t /\ AdvancedTo(p, t) = PlainRun(r)
  BY DEF Rebuilds
<1>2. s.engine.seed = r.engine.seed /\ s.engine.tick = t + 1
  BY EngineAfterTick
<1>3. r.engine.phase # "completed"
  OBVIOUS
<1>4. Ticked(PlainRun(r)) = PlainRun(s)
  BY <1>3, PlainTick
<1>5. Reapplied(s.engine.seed, actions) = p
  BY <1>2
<1>6. t \in Nat
  BY DEF IsRun, IsEngine
<1> HIDE DEF p, s, t
<1>7. AdvancedTo(p, t + 1) = Ticked(AdvancedTo(p, t))
  BY <1>1, <1>6, AdvancedMore
<1>8. p.engine.tick <= t + 1
  BY <1>1, <1>6
<1>9. Rebuilds(actions, s)
  BY <1>1, <1>2, <1>4, <1>5, <1>7, <1>8 DEF Rebuilds
<1> QED BY <1>9 DEF s

(* One action more, when it does to the rebuilt run what its handler did.  *)
LEMMA RebuildsAction ==
  ASSUME NEW actions, IsSeq(actions), NEW r, IsRun(r), Rebuilds(actions, r), NEW action,
         action.atTick = r.engine.tick, NEW s, IsRun(s), s.engine.seed = r.engine.seed,
         s.engine.tick = r.engine.tick, ApplyAt(PlainRun(r), action) = PlainRun(s)
  PROVE  Rebuilds(Append(actions, action), s)
<1> DEFINE p == Reapplied(r.engine.seed, actions)
           q == Reapplied(r.engine.seed, Append(actions, action))
           t == r.engine.tick
<1>1. p.engine.tick \in Nat /\ p.engine.tick <= t /\ AdvancedTo(p, t) = PlainRun(r)
  BY DEF Rebuilds
<1>2. q = Apply(p, action)
  BY ReappliedMore
<1>3. t \in Nat
  BY DEF IsRun, IsEngine
<1> HIDE DEF p, q
<1>4. q = PlainRun(s)
  BY <1>1, <1>2 DEF Apply
<1>5. q.engine.tick = t
  BY <1>4, PlainIsRun
<1>6. AdvancedTo(q, q.engine.tick) = q
  BY <1>3, <1>5, AdvancedMore
<1>7. q = Reapplied(s.engine.seed, Append(actions, action))
  BY DEF q
<1> DEFINE more == Append(actions, action)
<1> HIDE DEF t, more
<1>8. t <= t
  BY <1>3
<1>9. Rebuilds(more, s)
  BY <1>3, <1>4, <1>5, <1>6, <1>7, <1>8 DEF Rebuilds, t, more
<1> QED BY <1>9 DEF more

(* A command as it was asked for. *)
LEMMA CommandAgain ==
  ASSUME NEW r, IsRun(r), r.engine.phase = "running", NEW c, c.name \in CommandName,
         c.name # "REQUEST_VERIFICATION", NEW key, NEW action,
         action.kind = "command", action.name = c.name, action.params = c.params, action.key = key
  PROVE  ApplyAt(PlainRun(r), action) = PlainRun(Handled(r, c, key, NoClaim))
<1> DEFINE d == [name |-> c.name, params |-> c.params]
<1>1. d.name = c.name /\ d.params = c.params
  OBVIOUS
<1>2. ApplyAt(PlainRun(r), action) = Handled(PlainRun(r), d, key, NoClaim)
  BY DEF ApplyAt, ApplyCommand
<1> HIDE DEF d
<1>3. Twins(c, d)
  BY <1>1 DEF Twins, Execute
<1>4. Asks(r.engine, c, key) = Asks(r.engine, d, key)
  BY <1>1 DEF Asks, Asked
<1> DEFINE ev == Asks(r.engine, c, key)
<1>5. PlainEvent(ev) = ev
  <2>1. ev.data.name # "REQUEST_VERIFICATION"
    BY DEF Asks, Asked, Event
  <2> HIDE DEF ev
  <2> QED BY <2>1 DEF PlainEvent
<1>6. r.engine.phase # "completed"
  OBVIOUS
<1> HIDE DEF ev
<1>7. PlainEvent(Asks(r.engine, c, key)) = Asks(r.engine, d, key)
  BY <1>4, <1>5 DEF ev
<1> QED BY <1>2, <1>3, <1>6, <1>7, PlainHandled

(* A verification: what the caller added is not in the ledger. *)
LEMMA VerifyAgain ==
  ASSUME NEW r, IsRun(r), r.engine.phase = "running", NEW team, NEW target, NEW more, NEW claim,
         NEW key, NEW action,
         action.kind = "command", action.name = "REQUEST_VERIFICATION",
         action.params = [team |-> team, claim |-> claim, target |-> target], action.key = key
  PROVE  ApplyAt(PlainRun(r), action) =
           PlainRun(Handled(r, [name |-> "REQUEST_VERIFICATION", params |-> Targeting(team, target, more)],
                            key, claim))
<1> DEFINE c == [name |-> "REQUEST_VERIFICATION", params |-> Targeting(team, target, more)]
           d == [name |-> "REQUEST_VERIFICATION", params |-> Targeting(team, target, Nothing)]
           tc == Targeting(team, target, more)
           td == Targeting(team, target, Nothing)
<1>1. ApplyAt(PlainRun(r), action) = Handled(PlainRun(r), d, key, claim)
  <2>1. action.params.team = team /\ action.params.target = target /\ action.params.claim = claim
    OBVIOUS
  <2> QED BY <2>1 DEF ApplyAt, ApplyCommand
<1>2. /\ tc.team = team /\ tc.target = target /\ tc.more = more /\ DOMAIN tc = {"team", "target", "more"}
      /\ td.team = team /\ td.target = target /\ DOMAIN td = {"team", "target", "more"}
  BY DEF Targeting
<1>3. c.name = "REQUEST_VERIFICATION" /\ c.params = tc /\ d.name = "REQUEST_VERIFICATION" /\ d.params = td
  OBVIOUS
<1> HIDE DEF c, d, tc, td
<1>4. Twins(c, d)
  <2>1. "REQUEST_VERIFICATION" \in CommandName
    BY DEF CommandName
  <2>2. \A w : Execute(w, d) = Execute(w, c)
    BY <1>2, <1>3 DEF Execute
  <2>3. TargetOf(c.params) = TargetOf(d.params)
    BY <1>2, <1>3 DEF TargetOf
  <2> QED BY <1>2, <1>3, <2>1, <2>2, <2>3 DEF Twins
<1> DEFINE ev == Asks(r.engine, c, key)
           e == r.engine
           ic == Asked(e, c, key)
           id == Asked(e, d, key)
<1>5. PlainEvent(ev) = Asks(r.engine, d, key)
  <2>1. ic = [id |-> e.commands + 1, name |-> "REQUEST_VERIFICATION", key |-> key, params |-> tc]
        /\ id = [id |-> e.commands + 1, name |-> "REQUEST_VERIFICATION", key |-> key, params |-> td]
    BY <1>3 DEF Asked
  <2>2. ev = Event("CommandIssued", e.tick, ic) /\ Asks(r.engine, d, key) = Event("CommandIssued", e.tick, id)
    BY DEF Asks
  <2> HIDE DEF ic, id, ev, e
  <2>3. ev.kind = "CommandIssued" /\ ev.tick = e.tick /\ ev.data = ic
    BY <2>2 DEF Event
  <2>4. /\ ic.id = e.commands + 1 /\ ic.name = "REQUEST_VERIFICATION" /\ ic.key = key /\ ic.params = tc
    BY <2>1
  <2> DEFINE plain == [id |-> ic.id, name |-> ic.name, key |-> ic.key,
                       params |-> Targeting(ic.params.team, ic.params.target, Nothing)]
  <2>5. plain = id
    BY <1>2, <2>1, <2>4 DEF td
  <2>6. CASE more # Nothing
    <3>1. PlainEvent(ev) = Event(ev.kind, ev.tick, plain)
      BY <1>2, <2>3, <2>4, <2>6 DEF PlainEvent
    <3> HIDE DEF plain
    <3> QED BY <2>2, <2>3, <2>5, <3>1
  <2>7. CASE more = Nothing
    <3>1. PlainEvent(ev) = ev
      BY <1>2, <2>3, <2>4, <2>7 DEF PlainEvent
    <3>2. tc = td
      BY <2>7 DEF tc, td
    <3> QED BY <2>1, <2>2, <3>1, <3>2
  <2> QED BY <2>6, <2>7
<1>6. r.engine.phase # "completed"
  OBVIOUS
<1> HIDE DEF ev, e
<1>7. PlainEvent(Asks(r.engine, c, key)) = Asks(r.engine, d, key)
  BY <1>5 DEF ev
<1>8. Handled(PlainRun(r), d, key, claim) = PlainRun(Handled(r, c, key, claim))
  BY <1>4, <1>6, <1>7, PlainHandled
<1>9. c = [name |-> "REQUEST_VERIFICATION", params |-> Targeting(team, target, more)]
  BY DEF c, tc
<1>10. d = [name |-> "REQUEST_VERIFICATION", params |-> Targeting(team, target, Nothing)]
  BY DEF d, td
<1> QED BY <1>1, <1>8, <1>9, <1>10

(* An assessment as it was made.                                           *)
LEMMA AssessAgain ==
  ASSUME NEW r, IsRun(r), NEW action, action.kind = "assessment", action.atTick = r.engine.tick
  PROVE  ApplyAt(PlainRun(r), action) =
           PlainRun(AssessedIn(r, [id |-> action.id, claim |-> action.claim,
                                   probability |-> action.probability, at |-> r.engine.tick]))
<1> DEFINE x == [id |-> action.id, claim |-> action.claim,
                 probability |-> action.probability, at |-> r.engine.tick]
           l == PlainLog(r.engine.log)
           s == AssessedIn(r, x)
<1>1. ApplyAt(PlainRun(r), action) = AssessedIn(PlainRun(r), x)
  BY DEF ApplyAt
<1> HIDE DEF x
<1>2. s.engine = r.engine /\ AssessedIn(Relog(l, r), x) = Relog(l, s)
  <2> HIDE DEF l
  <2> QED BY AssessedAlike
<1> HIDE DEF s
<1>3. AssessedIn(PlainRun(r), x) = PlainRun(s)
  BY <1>2 DEF PlainRun
<1> QED BY <1>1, <1>3 DEF x, s

(* The session starts with it.                                             *)
LEMMA LedgerInit == RecordInit => LedgerInv
<1> SUFFICES ASSUME RecordInit PROVE LedgerInv
  OBVIOUS
<1>1. PICK seed \in Seeds : run = Started(FreshEngine(seed))
  BY DEF RecordInit
<1>2. ledger = <<>> /\ restarts = 0
  BY DEF RecordInit
<1>3. Rebuilds(<<>>, Started(FreshEngine(seed)))
  BY RebuildsStart
<1>4. Rebuilds(ledger, run)
  BY <1>1, <1>2, <1>3
<1>5. IsSeq(ledger)
  BY <1>2, SeqShort
<1>6. restarts \in Nat
  BY <1>2
<1> QED BY <1>4, <1>5, <1>6 DEF LedgerInv

\* A step that adds an action, or leaves the ledger and the run alone.
(* A step that enters one action keeps it when the action rebuilds the new *)
(* run.                                                                    *)
LEMMA LedgerGrows ==
  ASSUME LedgerInv, NEW action, ledger' = Append(ledger, action), restarts' = restarts,
         Rebuilds(ledger, run) => Rebuilds(Append(ledger, action), run')
  PROVE  LedgerInv'
<1>1. IsSeq(ledger) /\ IsSeq(<<>>)
  BY SeqShort DEF LedgerInv
<1>2. IsSeq(Append(ledger, action))
  BY <1>1, SeqAppend
<1> QED BY <1>2 DEF LedgerInv, Fresh

(* Every step keeps it.                                                    *)
LEMMA LedgerStep ==
  ASSUME EngineInv, LedgerInv, [RecordNext]_recordVars
  PROVE  LedgerInv'
<1>0. /\ IsRun(run) /\ Traceable(run.engine) /\ IsSeq(ledger) /\ restarts \in Nat
      /\ Fresh => Rebuilds(ledger, run)
  BY DEF EngineInv, LedgerInv
<1>1. CASE Advance
  <2>1. /\ run' = Ticks(run, 1) /\ ledger' = ledger /\ restarts' = restarts
        /\ run.engine.phase = "running"
    BY <1>1 DEF Advance, Running
  <2>2. Ticks(run, 1) = Ticked(run)
    <3>1. 0 \in Nat /\ 0 + 1 = 1
      OBVIOUS
    <3>2. Ticks(run, 0) = run /\ Ticks(run, 0 + 1) = Ticked(Ticks(run, 0))
      BY <3>1, TicksMore
    <3> QED BY <3>1, <3>2
  <2>3. Rebuilds(ledger, run) => Rebuilds(ledger, Ticked(run))
    BY <1>0, <2>1, RebuildsTick
  <2> QED BY <1>0, <2>1, <2>2, <2>3 DEF LedgerInv, Fresh
<1>2. ASSUME NEW r \in Requests, NEW key \in Keys, Command(r, key) PROVE LedgerInv'
  <2> DEFINE action == Action(r.name, r.params, key)
             s == Handled(run, r, key, NoClaim)
  <2>1. /\ run' = s /\ ledger' = Append(ledger, action) /\ restarts' = restarts
        /\ run.engine.phase = "running" /\ r.name \in CommandName /\ r.name # "REQUEST_VERIFICATION"
    BY <1>2, RecordAssumption DEF Command, Running
  <2>2. /\ action.kind = "command" /\ action.name = r.name /\ action.params = r.params
        /\ action.key = key /\ action.atTick = run.engine.tick
    BY DEF Action
  <2> HIDE DEF action
  <2>3. ApplyAt(PlainRun(run), action) = PlainRun(s)
    BY <1>0, <2>1, <2>2, CommandAgain
  <2>4. IsRun(s) /\ s.engine.seed = run.engine.seed /\ s.engine.tick = run.engine.tick
    BY <1>0, <2>1, EngineAfterCommand
  <2> HIDE DEF s
  <2>5. Rebuilds(ledger, run) => Rebuilds(Append(ledger, action), run')
    BY <1>0, <2>1, <2>2, <2>3, <2>4, RebuildsAction
  <2> QED BY <2>1, <2>5, LedgerGrows
<1>3. ASSUME NEW r \in Requests, NEW key \in Keys, Verify(r, key) PROVE LedgerInv'
  <2> DEFINE claim == r.params.claim
             team == r.params.team
             more == r.params.more
             target == Where(claim)
             params == [team |-> team, claim |-> claim, target |-> target]
             action == Action("REQUEST_VERIFICATION", params, key)
             c == [name |-> "REQUEST_VERIFICATION", params |-> Targeting(team, target, more)]
             s == Handled(run, c, key, claim)
  <2>1. /\ run' = s /\ ledger' = Append(ledger, action) /\ restarts' = restarts
        /\ run.engine.phase = "running"
    BY <1>3 DEF Verify, Running, Recorded
  <2>2. /\ action.kind = "command" /\ action.name = "REQUEST_VERIFICATION" /\ action.params = params
        /\ action.key = key /\ action.atTick = run.engine.tick
    BY DEF Action
  <2> HIDE DEF action, target, claim, team, more
  <2>3. ApplyAt(PlainRun(run), action) = PlainRun(s)
    BY <1>0, <2>1, <2>2, VerifyAgain
  <2>4. IsRun(s) /\ s.engine.seed = run.engine.seed /\ s.engine.tick = run.engine.tick
    <3>1. c.name \in CommandName
      BY DEF CommandName
    <3> HIDE DEF c
    <3> QED BY <1>0, <2>1, <3>1, EngineAfterCommand
  <2> HIDE DEF s
  <2>5. Rebuilds(ledger, run) => Rebuilds(Append(ledger, action), run')
    BY <1>0, <2>1, <2>2, <2>3, <2>4, RebuildsAction
  <2> QED BY <2>1, <2>5, LedgerGrows
<1>4. ASSUME NEW c \in Claim, NEW probability \in Beliefs, Assess(c, probability) PROVE LedgerInv'
  <2> DEFINE id == Len(run.bridge.log) + 1
             action == [kind |-> "assessment", atTick |-> run.engine.tick,
                        id |-> id, claim |-> c, probability |-> probability]
             x == [id |-> id, claim |-> c, probability |-> probability, at |-> run.engine.tick]
             s == AssessedIn(run, x)
  <2>1. run' = s /\ ledger' = Append(ledger, action) /\ restarts' = restarts
    BY <1>4 DEF Assess
  <2> HIDE DEF id
  <2>2. /\ action.kind = "assessment" /\ action.atTick = run.engine.tick /\ action.id = id
        /\ action.claim = c /\ action.probability = probability
    OBVIOUS
  <2> HIDE DEF action
  <2>3. ApplyAt(PlainRun(run), action) = PlainRun(s)
    BY <1>0, <2>2, AssessAgain
  <2>4. IsRun(s) /\ s.engine = run.engine
    <3> HIDE DEF x
    <3> QED BY <1>0, EngineAfterAssessment
  <2> HIDE DEF s
  <2>5. Rebuilds(ledger, run) => Rebuilds(Append(ledger, action), run')
    BY <1>0, <2>1, <2>2, <2>3, <2>4, RebuildsAction
  <2> QED BY <2>1, <2>5, LedgerGrows
<1>5. CASE Save
  BY <1>0, <1>5 DEF Save, LedgerInv, Fresh
<1>6. CASE Restart
  <2>1. ledger' = <<>> /\ restarts' = restarts + 1
    BY <1>6 DEF Restart
  <2>2. restarts' \in Nat /\ restarts' # 0
    BY <1>0, <2>1
  <2>3. IsSeq(ledger')
    BY <2>1, SeqShort
  <2> QED BY <2>2, <2>3 DEF LedgerInv, Fresh
<1>7. CASE UNCHANGED recordVars
  BY <1>0, <1>7 DEF recordVars, LedgerInv, Fresh
<1> QED BY <1>1, <1>2, <1>3, <1>4, <1>5, <1>6, <1>7 DEF RecordNext

(* At every moment of a session that was never restarted, replaying the    *)
(* ledger of public actions and advancing to the session's tick makes the  *)
(* session's run (public-replay.ts, public-actions.ts, hub.ts).            *)
THEOREM LedgerInvariant == RecordSpec => []LedgerInv
<1>1. RecordInit => LedgerInv
  BY LedgerInit
<1>2. EngineInv /\ LedgerInv /\ [RecordNext]_recordVars => LedgerInv'
  BY LedgerStep
<1> QED BY <1>1, <1>2, EngineInvariant, PTL DEF RecordSpec

(* The replay of the ledger of a completed session that was never          *)
(* restarted is its plain run.                                             *)
LEMMA LedgerIsReplayed ==
  ASSUME EngineInv, LedgerInv, Completed, Fresh
  PROVE  LedgerReplay(run.engine.seed, ledger) = PlainRun(run)
<1>1. IsRun(run) /\ Traceable(run.engine) /\ Rebuilds(ledger, run)
  BY DEF EngineInv, LedgerInv
<1>2. run.engine.tick = Scenario.totalTicks
  <2> DEFINE e == run.engine
             T == Scenario.totalTicks
  <2>1. e.phase = "completed"
    BY DEF Completed
  <2> HIDE DEF T
  <2>2. e.tick \in Nat /\ e.tick <= T
    BY <1>1 DEF Traceable, IsEngine, T
  <2>3. ~(e.tick < T)
    BY <1>1, <2>1 DEF Traceable, T
  <2>4. T \in Nat
    BY ScenarioAssumption DEF T
  <2> QED BY <2>2, <2>3, <2>4 DEF T
<1> QED BY <1>1, <1>2 DEF LedgerReplay, Rebuilds, Reapplied

(* LedgerRebuildsRun follows: a log within the contract is its own plain   *)
(* log.                                                                    *)
LEMMA LedgerIsRebuilt == EngineInv /\ LedgerInv => LedgerRebuildsRun
<1> SUFFICES ASSUME EngineInv, LedgerInv, Completed, Fresh
             PROVE  LET rebuilt == LedgerReplay(run.engine.seed, ledger)
                    IN  /\ rebuilt.bridge.log = run.bridge.log
                        /\ ByContract => rebuilt.engine.log = run.engine.log
  BY DEF LedgerRebuildsRun
<1>1. LedgerReplay(run.engine.seed, ledger) = PlainRun(run)
  BY LedgerIsReplayed
<1>2. IsRun(run) /\ IsSeq(run.engine.log)
  BY DEF EngineInv, IsRun, IsEngine
<1>3. PlainRun(run).bridge = run.bridge /\ PlainRun(run).engine.log = PlainLog(run.engine.log)
  BY <1>2, PlainIsRun
<1>4. ASSUME ByContract PROVE PlainLog(run.engine.log) = run.engine.log
  BY <1>2, <1>4, PlainKeeps DEF ByContract
<1> QED BY <1>1, <1>3, <1>4

(* Of a session within the contract that was never restarted the ledger    *)
(* rebuilds the completed run, its player log and its truth                *)
(* (public-replay.ts replayPublicActions).                                 *)
THEOREM LedgerRebuildsRunCorrect == RecordSpec => []LedgerRebuildsRun
BY EngineInvariant, LedgerInvariant, LedgerIsRebuilt, PTL
===============================================================================

-------------------------- MODULE RunArtifact_proofs --------------------------
(***************************************************************************)
(* Proofs about RunArtifact and the artifacts of SessionRecord, for every  *)
(* scenario, every course of the run and every damage.                     *)
(*                                                                         *)
(* Two hash chains with one tip are one chain, so an accepted artifact     *)
(* whose hash the verifier was given holds the logs of the run its ledger  *)
(* replays (AcceptedIsGenuine).  The converse, that the verifier accepts   *)
(* what the session exports, needs that every command result shown to the  *)
(* players is borne by the trace the verifier derives from the world's     *)
(* events; ShownInv says so in every state.  Each damage of EveryDamage    *)
(* then breaks one equation the verifier checks, or leaves a genuine       *)
(* artifact.  Together these are AcceptedIsARun.                           *)
(***************************************************************************)
EXTENDS SessionRecord_proofs, FiniteSetTheorems

----------------------------------------------------------------------------
(***************************************************************************)
(* Two hash chains with one tip are one chain.                             *)
(***************************************************************************)
EnvelopeField == {"session", "seq", "tick", "kind", "data", "prev", "hash"}
IsEnvelope(x) == x = [f \in EnvelopeField |-> x[f]]

(* Envelopes, each with the hash before it and the hash of its own content *)
(* (canonical.ts).                                                         *)
Woven(events) ==
  /\ IsSeq(events)
  /\ \A n \in 1 .. Len(events) :
       /\ IsEnvelope(events[n])
       /\ events[n].prev = PrevHash(events, n)
       /\ events[n].hash = Append(events[n].prev, Content(events[n]))

(* The hashes of a chain are sequences, each one longer than the one       *)
(* before it.                                                              *)
LEMMA HashIsSeq ==
  ASSUME NEW events, Woven(events)
  PROVE  \A n \in 1 .. Len(events) :
           IsSeq(events[n].prev) /\ IsSeq(events[n].hash) /\ Len(events[n].hash) = n
<1> DEFINE N == Len(events)
           Fine(n) == IsSeq(events[n].hash) /\ Len(events[n].hash) = n
           T == {n \in Nat : n >= 1 /\ n <= N => Fine(n)}
<1>1. N \in Nat
  <2>1. PICK S : events \in Seq(S)
    BY DEF Woven, IsSeq
  <2> QED BY <2>1
<1>2. 0 \in T
  OBVIOUS
<1>3. ASSUME NEW n \in 1 .. N, n > 1 => Fine(n - 1)
      PROVE  IsSeq(events[n].prev) /\ Fine(n)
  <2>1. events[n].prev = PrevHash(events, n) /\ events[n].hash = Append(events[n].prev, Content(events[n]))
    BY DEF Woven
  <2>2. IsSeq(PrevHash(events, n)) /\ Len(PrevHash(events, n)) = n - 1
    <3>1. CASE n = 1
      <4> DEFINE none == <<>>
      <4>1. Len(none) = 0 /\ n - 1 = 0
        BY <3>1
      <4>2. IsSeq(none)
        BY SeqShort
      <4>3. PrevHash(events, n) = none
        BY <3>1 DEF PrevHash
      <4> HIDE DEF none
      <4> QED BY <4>1, <4>2, <4>3
    <3>2. CASE n # 1
      BY <1>3, <3>2 DEF PrevHash
    <3> QED BY <3>1, <3>2
  <2> DEFINE p == events[n].prev
             c == Content(events[n])
  <2> HIDE DEF c
  <2>3. IsSeq(p) /\ Len(p) = n - 1
    BY <2>1, <2>2
  <2> HIDE DEF p
  <2>4. PICK S : p \in Seq(S)
    BY <2>3 DEF IsSeq
  <2>5. p \in Seq(S \cup {c}) /\ c \in S \cup {c}
    BY <2>4
  <2>6. Append(p, c) \in Seq(S \cup {c}) /\ Len(Append(p, c)) = Len(p) + 1
    BY <2>5
  <2>7. IsSeq(Append(p, c)) /\ Len(Append(p, c)) = n
    BY <2>3, <2>6 DEF IsSeq
  <2> QED BY <2>1, <2>3, <2>7 DEF c, p
<1>4. ASSUME NEW n \in 0 .. N - 1, n \in T PROVE n + 1 \in T
  <2>1. n + 1 \in 1 .. N /\ (n + 1) - 1 = n /\ n + 1 \in Nat
    BY <1>1
  <2>2. n + 1 > 1 => Fine(n)
    BY <1>4
  <2> HIDE DEF Fine
  <2>3. Fine(n + 1)
    BY <1>3, <2>1, <2>2
  <2> QED BY <2>1, <2>3
<1>5. \A n \in 0 .. N : n \in T
  <2> HIDE DEF T
  <2> QED BY <1>1, <1>2, <1>4, Linking!UpTo
<1>6. ASSUME NEW n \in 1 .. N PROVE IsSeq(events[n].prev) /\ Fine(n)
  <2>1. n > 1 => n - 1 \in 0 .. N /\ n - 1 >= 1 /\ n - 1 <= N
    BY <1>1
  <2> HIDE DEF Fine
  <2>2. n > 1 => Fine(n - 1)
    BY <1>5, <2>1
  <2> QED BY <1>3, <2>2
<1> QED BY <1>6

(* What is appended can be told from the result. *)
LEMMA AppendTells ==
  ASSUME NEW p, NEW q, NEW x, NEW y, IsSeq(p), IsSeq(q), Append(p, x) = Append(q, y)
  PROVE  p = q /\ x = y
<1>1. PICK S : p \in Seq(S)
  BY DEF IsSeq
<1>2. PICK U : q \in Seq(U)
  BY DEF IsSeq
<1> DEFINE V == S \cup U \cup {x, y}
<1>3. p \in Seq(V) /\ q \in Seq(V) /\ x \in V /\ y \in V
  BY <1>1, <1>2
<1> HIDE DEF V
<1>4. Len(p) = Len(q)
  <2>1. Len(Append(p, x)) = Len(p) + 1 /\ Len(Append(q, y)) = Len(q) + 1
    BY <1>3
  <2> QED BY <1>3, <2>1
<1>5. x = y
  <2>1. Append(p, x)[Len(p) + 1] = x /\ Append(q, y)[Len(q) + 1] = y
    BY <1>3
  <2> QED BY <1>4, <2>1
<1>6. \A n \in 1 .. Len(p) : p[n] = q[n]
  <2>1. \A n \in 1 .. Len(p) : Append(p, x)[n] = p[n]
    BY <1>3
  <2>2. \A n \in 1 .. Len(q) : Append(q, y)[n] = q[n]
    BY <1>3
  <2> QED BY <1>4, <2>1, <2>2
<1> QED BY <1>3, <1>4, <1>5, <1>6

(* An envelope is what its content and the hash before it make it. *)
LEMMA EnvelopeTells ==
  ASSUME NEW x, NEW y, IsEnvelope(x), IsEnvelope(y), x.hash = y.hash, IsSeq(x.prev), IsSeq(y.prev),
         x.hash = Append(x.prev, Content(x)), y.hash = Append(y.prev, Content(y))
  PROVE  x = y
<1>1. x.prev = y.prev /\ Content(x) = Content(y)
  <2> DEFINE c == Content(x)
             d == Content(y)
             p == x.prev
             q == y.prev
  <2> HIDE DEF c, d
  <2>1. Append(p, c) = Append(q, d)
    BY DEF c, d
  <2> HIDE DEF p, q
  <2>2. p = q /\ c = d
    BY <2>1, AppendTells DEF p, q
  <2> QED BY <2>2 DEF c, d, p, q
<1>2. /\ Content(x).session = Content(y).session /\ Content(x).seq = Content(y).seq
      /\ Content(x).tick = Content(y).tick /\ Content(x).kind = Content(y).kind
      /\ Content(x).data = Content(y).data
  BY <1>1
<1>3. /\ x.session = y.session /\ x.seq = y.seq /\ x.tick = y.tick /\ x.kind = y.kind
      /\ x.data = y.data
  BY <1>2 DEF Content
<1>4. \A f \in EnvelopeField : x[f] = y[f]
  BY <1>1, <1>3 DEF EnvelopeField
<1> QED BY <1>4 DEF IsEnvelope

(* Two chains with one tip are equal. *)
LEMMA TipTells ==
  ASSUME NEW a, NEW b, Woven(a), Woven(b), a # <<>>, b # <<>>, Tip(a) = Tip(b)
  PROVE  a = b
<1> DEFINE N == Len(a)
           T == {k \in Nat : k <= N - 1 => a[N - k] = b[N - k]}
<1>1. PICK S : a \in Seq(S)
  BY DEF Woven, IsSeq
<1>2. PICK U : b \in Seq(U)
  BY DEF Woven, IsSeq
<1>3. N \in Nat /\ N >= 1 /\ Len(b) = N
  <2>1. N \in Nat /\ N >= 1 /\ Len(b) \in Nat /\ Len(b) >= 1
    BY <1>1, <1>2
  <2>2. N \in 1 .. N /\ Len(b) \in 1 .. Len(b)
    BY <2>1
  <2>3. Len(a[N].hash) = N /\ Len(b[Len(b)].hash) = Len(b)
    BY <2>2, HashIsSeq
  <2>4. a[N].hash = b[Len(b)].hash
    BY DEF Tip, Last
  <2> QED BY <2>1, <2>3, <2>4
<1>4. ASSUME NEW n \in 1 .. N, a[n].hash = b[n].hash PROVE a[n] = b[n]
  <2>1. /\ IsEnvelope(a[n]) /\ a[n].hash = Append(a[n].prev, Content(a[n]))
        /\ IsEnvelope(b[n]) /\ b[n].hash = Append(b[n].prev, Content(b[n]))
    BY <1>3 DEF Woven
  <2>2. IsSeq(a[n].prev) /\ IsSeq(b[n].prev)
    BY <1>3, HashIsSeq
  <2> QED BY <1>4, <2>1, <2>2, EnvelopeTells
<1>5. 0 \in T
  <2>1. a[N].hash = b[N].hash
    BY <1>3 DEF Tip, Last
  <2>2. N \in 1 .. N /\ N - 0 = N
    BY <1>3
  <2>3. a[N] = b[N]
    BY <1>4, <2>1, <2>2
  <2> QED BY <2>2, <2>3
<1>6. ASSUME NEW k \in 0 .. N - 1, k \in T PROVE k + 1 \in T
  <2> SUFFICES ASSUME k + 1 <= N - 1 PROVE a[N - (k + 1)] = b[N - (k + 1)]
    OBVIOUS
  <2> DEFINE n == N - k
  <2>1. n \in 1 .. N /\ n # 1 /\ n - 1 = N - (k + 1) /\ n - 1 \in 1 .. N
    BY <1>3
  <2>2. a[n] = b[n]
    BY <1>3, <1>6
  <2> HIDE DEF n
  <2>3. a[n].prev = a[n - 1].hash /\ b[n].prev = b[n - 1].hash
    BY <1>3, <2>1 DEF Woven, PrevHash
  <2>4. a[n - 1] = b[n - 1]
    BY <1>4, <2>1, <2>2, <2>3
  <2> QED BY <2>1, <2>4
<1>7. \A k \in 0 .. N : k \in T
  <2> HIDE DEF T
  <2> QED BY <1>3, <1>5, <1>6, Linking!UpTo
<1>8. \A n \in 1 .. N : a[n] = b[n]
  <2> SUFFICES ASSUME NEW n \in 1 .. N PROVE a[n] = b[n]
    OBVIOUS
  <2>1. N - n \in 0 .. N /\ N - n <= N - 1 /\ N - (N - n) = n
    BY <1>3
  <2>2. N - n \in T
    BY <1>7, <2>1
  <2> QED BY <2>1, <2>2
<1> QED BY <1>1, <1>2, <1>3, <1>8

(* The fields of an envelope. *)
LEMMA SealedIsEnvelope ==
  ASSUME NEW ev, NEW seq, NEW prev
  PROVE  IsEnvelope(Sealed(ev, seq, prev))
BY DEF IsEnvelope, EnvelopeField, Sealed

(* The chain of a log is woven. *)
LEMMA ChainIsWoven ==
  ASSUME NEW log, IsSeq(log)
  PROVE  Woven(Chained(log)) /\ Len(Chained(log)) = Len(log)
<1> DEFINE c == Chained(log)
<1>1. ChainOf(c, log, Len(log))
  BY ChainedIs
<1> HIDE DEF c
<1>2. IsSeq(c) /\ Len(c) = Len(log)
  BY <1>1 DEF ChainOf
<1>3. ASSUME NEW n \in 1 .. Len(c)
      PROVE  /\ IsEnvelope(c[n]) /\ c[n].prev = PrevHash(c, n)
             /\ c[n].hash = Append(c[n].prev, Content(c[n]))
  <2> DEFINE p == PrevHash(c, n)
             x == Sealed(log[n], n - 1, p)
  <2>1. c[n] = x
    BY <1>1, <1>2 DEF ChainOf
  <2> HIDE DEF p
  <2>2. x.prev = p /\ x.hash = Append(p, Content(x)) /\ IsEnvelope(x)
    BY SealedFields, SealedIsEnvelope
  <2> HIDE DEF x
  <2> QED BY <2>1, <2>2 DEF p
<1> QED BY <1>2, <1>3 DEF Woven, c

(* So is every stream of envelopes that the verifiers of streams take. *)
LEMMA ValidIsWoven ==
  ASSUME NEW events, IsSeq(events), \A n \in 1 .. Len(events) : IsEnvelope(events[n]),
         NEW session, NEW tip, ValidStream(events, session, tip)
  PROVE  Woven(events) /\ Tip(events) = tip /\ events # <<>>
<1>1. DOMAIN events = 1 .. Len(events)
  BY SeqParts
<1>2. ASSUME NEW n \in 1 .. Len(events)
      PROVE  events[n].prev = PrevHash(events, n) /\ events[n].hash = Append(events[n].prev, Content(events[n]))
  BY <1>1 DEF ValidStream, PrevHash, EventHash
<1> QED BY <1>2 DEF Woven, ValidStream

----------------------------------------------------------------------------
(***************************************************************************)
(* What reads only tick, kind and payload of events reads the same in a    *)
(* log and in its envelopes.                                               *)
(***************************************************************************)
LEMMA ChainTellsLog ==
  ASSUME NEW log, IsSeq(log)
  PROVE  /\ IsSeq(Chained(log)) /\ Len(Chained(log)) = Len(log)
         /\ \A n \in 1 .. Len(log) :
              /\ Chained(log)[n].tick = log[n].tick /\ Chained(log)[n].kind = log[n].kind
              /\ Chained(log)[n].data = log[n].data /\ Chained(log)[n].seq = n - 1
              /\ Chained(log)[n].session = Session
<1> DEFINE c == Chained(log)
<1>1. ChainOf(c, log, Len(log))
  BY ChainedIs
<1> HIDE DEF c
<1>2. IsSeq(c) /\ Len(c) = Len(log)
  BY <1>1 DEF ChainOf
<1>3. ASSUME NEW n \in 1 .. Len(log)
      PROVE  /\ c[n].tick = log[n].tick /\ c[n].kind = log[n].kind
             /\ c[n].data = log[n].data /\ c[n].seq = n - 1 /\ c[n].session = Session
  <2>1. c[n] = Sealed(log[n], n - 1, PrevHash(c, n))
    BY <1>1 DEF ChainOf
  <2> QED BY <2>1, SealedFields
<1> QED BY <1>2, <1>3 DEF c

(* rebuildEngineFrom (replay.ts) finds in the envelopes the commands it    *)
(* finds in the log.                                                       *)
LEMMA ChainRebuilds ==
  ASSUME NEW log, IsSeq(log), NEW seed
  PROVE  Rebuilt(seed, Chained(log)) = Rebuilt(seed, log)
<1> DEFINE c == Chained(log)
<1>1. /\ IsSeq(c) /\ Len(c) = Len(log)
      /\ \A n \in 1 .. Len(log) :
           c[n].tick = log[n].tick /\ c[n].kind = log[n].kind /\ c[n].data = log[n].data
  BY ChainTellsLog
<1> HIDE DEF c
<1>2. \A n \in 1 .. Len(c) : \A e : Resubmit(e, c[n]) = Resubmit(e, log[n])
  BY <1>1 DEF Resubmit, ResubmitAt
<1>3. PICK S : log \in Seq(S)
  BY DEF IsSeq
<1>4. PICK U : c \in Seq(U)
  BY <1>1 DEF IsSeq
<1>5. \A base : Replays!Fold(0, base, c) = Replays!Fold(0, base, log)
  BY <1>1, <1>2, <1>3, <1>4, Replays!FoldSame
<1> QED BY <1>5, RebuiltIsFold DEF c

(* So do the incidents resolved in a run.                                  *)
LEMMA ChainResolves ==
  ASSUME NEW log, IsSeq(log)
  PROVE  Resolved(Chained(log)) = Resolved(log)
<1> DEFINE c == Chained(log)
           none == <<>>
           op(found, ev) == IF ev.kind = "IncidentResolved" THEN Append(found, ev.data.incident) ELSE found
<1>1. /\ IsSeq(c) /\ Len(c) = Len(log)
      /\ \A n \in 1 .. Len(log) : c[n].kind = log[n].kind /\ c[n].data = log[n].data
  BY ChainTellsLog
<1> HIDE DEF c
<1>2. \A n \in 1 .. Len(c) : \A found :
        (IF c[n].kind = "IncidentResolved" THEN Append(found, c[n].data.incident) ELSE found) =
        (IF log[n].kind = "IncidentResolved" THEN Append(found, log[n].data.incident) ELSE found)
  BY <1>1
<1>3. PICK S : log \in Seq(S)
  BY DEF IsSeq
<1>4. PICK U : c \in Seq(U)
  BY <1>1 DEF IsSeq
<1>5. Resolves!Fold(0, none, c) = Resolves!Fold(0, none, log)
  BY <1>1, <1>2, <1>3, <1>4, Resolves!FoldSame
<1>6. \A m : Resolved(m) = Resolves!Fold(0, none, m)
  BY DEF Resolved, Resolves!Fold, Resolves!Highest, FoldLeft, MapThenFoldSet, Max
<1> QED BY <1>5, <1>6 DEF c

----------------------------------------------------------------------------
(***************************************************************************)
(* The replay of any ledger is a run.                                      *)
(***************************************************************************)
(* A run that started from the seed, whatever its ledger.                  *)
Sprung(r, seed) == IsRun(r) /\ Traceable(r.engine) /\ r.engine.seed = seed

(* A completed engine does nothing at a tick. *)
LEMMA TickAfterEnd ==
  ASSUME NEW r, IsRun(r), r.engine.phase = "completed"
  PROVE  IsRun(Ticked(r)) /\ Ticked(r).engine = r.engine
<1> DEFINE none == <<>>
           e == r.engine
           s == [r EXCEPT !.engine = StepEngine(@)]
<1>1. s = r
  <2>1. StepEngine(r.engine) = r.engine
    BY DEF StepEngine
  <2> QED BY <2>1 DEF IsRun
<1>2. SubSeq(e.log, Len(e.log) + 1, Len(e.log)) = none
  <2>1. IsSeq(e.log)
    BY DEF IsRun, IsEngine
  <2> QED BY <2>1, SeqCuts
<1>3. Ticked(r) = Told(r, none)
  BY <1>1, <1>2 DEF Ticked, Published
<1>4. Ordinary(none, e.tick)
  <2>1. DOMAIN none = {}
    OBVIOUS
  <2>2. IsSeq(none)
    BY SeqShort
  <2> HIDE DEF none
  <2> QED BY <2>1, <2>2 DEF Ordinary
<1> HIDE DEF none
<1>5. Moves(<<>>, r, Told(r, none), Told(Relog(<<>>, r), none))
  BY <1>4, ToldOrdinary
<1> QED BY <1>3, <1>5 DEF Moves

(* What a request does to a completed run: players get the refusal.        *)
LEMMA HandledAfterEnd ==
  ASSUME NEW r, IsRun(r), r.engine.phase = "completed", NEW c, NEW key, NEW request
  PROVE  IsRun(Handled(r, c, key, request)) /\ Handled(r, c, key, request).engine = r.engine
<1> DEFINE none == <<>>
           e == r.engine
           a == Submit(e, c, key)
           m == [r EXCEPT !.engine = a.engine]
           s == Aimed(m, c.params.team, request, a.accepted)
           p == Published(s, Len(e.log))
           data == [id |-> a.id, name |-> c.name, key |-> key, accepted |-> a.accepted,
                    code |-> a.code, eta |-> a.eta, target |-> TargetOf(c.params)]
<1>1. a.engine = e
  BY DEF Submit
<1>2. Handled(r, c, key, request) = [p EXCEPT !.bridge = Tell(@, a.engine.tick, "CommandResult", data)]
  BY DEF Handled, Concluded, Aimed
<1> HIDE DEF a, data
<1>3. m = r
  BY <1>1 DEF IsRun
<1> HIDE DEF m
<1>4. IsRun(s) /\ s.engine = e
  BY <1>3, AimsAlike
<1> HIDE DEF s
<1>5. SubSeq(s.engine.log, Len(e.log) + 1, Len(s.engine.log)) = none
  <2>1. IsSeq(e.log)
    BY DEF IsRun, IsEngine
  <2> QED BY <1>4, <2>1, SeqCuts
<1>6. p = Told(s, none)
  BY <1>5 DEF Published
<1>7. Ordinary(none, s.engine.tick)
  <2>1. DOMAIN none = {}
    OBVIOUS
  <2>2. IsSeq(none)
    BY SeqShort
  <2> HIDE DEF none
  <2> QED BY <2>1, <2>2 DEF Ordinary
<1> HIDE DEF none
<1>8. Moves(<<>>, s, Told(s, none), Told(Relog(<<>>, s), none))
  BY <1>4, <1>7, ToldOrdinary
<1>9. IsRun(p) /\ p.engine = e
  BY <1>4, <1>6, <1>8 DEF Moves
<1> HIDE DEF p
<1> DEFINE b == Tell(p.bridge, a.engine.tick, "CommandResult", data)
<1>10. [p EXCEPT !.bridge = b] = [engine |-> p.engine, bridge |-> b, jobs |-> p.jobs]
  BY <1>9 DEF IsRun
<1>11. IsBridge(b)
  <2>1. IsBridge(p.bridge)
    BY <1>9 DEF IsRun
  <2>2. Spoken(p.bridge, b, Event("CommandResult", a.engine.tick, data))
    BY <2>1, Tells
  <2> HIDE DEF b
  <2> QED BY <2>2 DEF Spoken
<1> HIDE DEF b
<1> DEFINE t == [engine |-> p.engine, bridge |-> b, jobs |-> p.jobs]
<1>12. IsRun(t) /\ t.engine = e
  BY <1>9, <1>11 DEF IsRun
<1> HIDE DEF t
<1> QED BY <1>2, <1>10, <1>12 DEF b, t

(* A tick, running or not.                                                 *)
LEMMA TickSprings ==
  ASSUME NEW r, NEW seed, Sprung(r, seed)
  PROVE  /\ Sprung(Ticked(r), seed)
         /\ Ticked(r).engine.tick =
              IF r.engine.tick < Scenario.totalTicks THEN r.engine.tick + 1 ELSE r.engine.tick
<1>1. /\ IsRun(r) /\ Traceable(r.engine) /\ r.engine.seed = seed
      /\ r.engine.phase = IF r.engine.tick < Scenario.totalTicks THEN "running" ELSE "completed"
  BY DEF Sprung, Traceable
<1>2. CASE r.engine.tick < Scenario.totalTicks
  BY <1>1, <1>2, EngineAfterTick DEF Sprung
<1>3. CASE ~(r.engine.tick < Scenario.totalTicks)
  BY <1>1, <1>3, TickAfterEnd DEF Sprung
<1> QED BY <1>2, <1>3

(* Many ticks, and the tick they reach. *)
LEMMA TicksSpring ==
  ASSUME NEW r, NEW seed, Sprung(r, seed), NEW N \in Nat
  PROVE  /\ Sprung(Ticks(r, N), seed)
         /\ r.engine.tick + N >= Scenario.totalTicks => Ticks(r, N).engine.tick = Scenario.totalTicks
<1> DEFINE e(n) == Ticks(r, n).engine.tick
           M == Scenario.totalTicks
           t == r.engine.tick
           Fine(n) == /\ Sprung(Ticks(r, n), seed)
                      /\ e(n) = IF t + n < M THEN t + n ELSE M
           T == {n \in Nat : Fine(n)}
<1>1. M \in Nat /\ t \in Nat /\ t <= M
  BY ScenarioAssumption DEF Sprung, Traceable, IsEngine
<1>2. Ticks(r, 0) = r
  <2>1. 0 \in Nat
    OBVIOUS
  <2> QED BY <2>1, TicksMore
<1>3. 0 \in T
  <2>1. e(0) = t
    BY <1>2
  <2> HIDE DEF t, M
  <2>2. t + 0 = t
    BY <1>1
  <2>3. e(0) = IF t + 0 < M THEN t + 0 ELSE M
    BY <1>1, <2>1, <2>2
  <2> QED BY <1>2, <2>3
<1>4. ASSUME NEW n \in 0 .. N - 1, n \in T PROVE n + 1 \in T
  <2>1. n \in Nat /\ n + 1 \in Nat
    OBVIOUS
  <2>2. Fine(n)
    BY <1>4
  <2>3. Ticks(r, n + 1) = Ticked(Ticks(r, n))
    BY <2>1, TicksMore
  <2> DEFINE s == Ticks(r, n)
  <2>4. Sprung(s, seed) /\ s.engine.tick = IF t + n < M THEN t + n ELSE M
    BY <2>2
  <2> HIDE DEF s, M, t
  <2>5. /\ Sprung(Ticked(s), seed)
        /\ Ticked(s).engine.tick = IF s.engine.tick < M THEN s.engine.tick + 1 ELSE s.engine.tick
    BY <2>4, TickSprings DEF M
  <2>6. Ticked(s).engine.tick = IF t + (n + 1) < M THEN t + (n + 1) ELSE M
    BY <1>1, <2>1, <2>4, <2>5
  <2>7. Fine(n + 1)
    BY <2>3, <2>5, <2>6 DEF s
  <2> QED BY <2>1, <2>7
<1>5. \A n \in 0 .. N : n \in T
  <2> HIDE DEF T
  <2> QED BY <1>3, <1>4, Ticking!UpTo
<1>6. Fine(N)
  BY <1>5
<1> HIDE DEF t, M
<1>7. t + N >= M => ~(t + N < M)
  BY <1>1
<1> QED BY <1>6, <1>7 DEF t, M

(* The clock is moved on to a tick. *)
LEMMA AdvanceSprings ==
  ASSUME NEW r, NEW seed, Sprung(r, seed), NEW tick \in Nat
  PROVE  /\ Sprung(AdvancedTo(r, tick), seed)
         /\ tick = Scenario.totalTicks => AdvancedTo(r, tick).engine.tick = Scenario.totalTicks
<1> DEFINE t == r.engine.tick
           M == Scenario.totalTicks
           n == tick - t
<1>1. t \in Nat /\ M \in Nat /\ t <= M
  BY ScenarioAssumption DEF Sprung, Traceable, IsEngine
<1>2. CASE t < tick
  <2>1. AdvancedTo(r, tick) = Ticks(r, n)
    BY <1>2 DEF AdvancedTo
  <2> HIDE DEF t, M
  <2>2. n \in Nat /\ t + n = tick /\ (tick = M => t + n >= M)
    BY <1>1, <1>2
  <2> HIDE DEF n
  <2>3. Sprung(Ticks(r, n), seed) /\ (t + n >= M => Ticks(r, n).engine.tick = M)
    BY <2>2, TicksSpring DEF t, M
  <2> QED BY <2>1, <2>2, <2>3 DEF M
<1>3. CASE ~(t < tick)
  <2>1. AdvancedTo(r, tick) = r
    BY <1>3 DEF AdvancedTo
  <2> HIDE DEF M
  <2>2. tick = M => t = M
    BY <1>1, <1>3
  <2> QED BY <2>1, <2>2 DEF M
<1> QED BY <1>2, <1>3

(* An action of a ledger. *)
IsAction(action) ==
  action.atTick \in Nat /\ (action.kind = "command" => action.name \in CommandName)

(* It is applied to a run, running or not. *)
LEMMA ApplySprings ==
  ASSUME NEW r, NEW seed, Sprung(r, seed), NEW action, IsAction(action)
  PROVE  Sprung(Apply(r, action), seed)
<1> DEFINE s == AdvancedTo(r, action.atTick)
<1>1. Sprung(s, seed)
  BY AdvanceSprings DEF IsAction
<1>2. Apply(r, action) = ApplyAt(s, action)
  BY DEF Apply
<1> HIDE DEF s
<1>3. CASE action.kind = "command"
  <2> DEFINE asked == action.name = "REQUEST_VERIFICATION"
             params == IF asked THEN Targeting(action.params.team, action.params.target, Nothing)
                       ELSE action.params
             c == [name |-> action.name, params |-> params]
             request == IF asked THEN action.params.claim ELSE NoClaim
             h == Handled(s, c, action.key, request)
  <2>1. ApplyAt(s, action) = h
    BY <1>3 DEF ApplyAt, ApplyCommand
  <2> HIDE DEF params, request
  <2>2. c.name \in CommandName
    BY <1>3 DEF IsAction
  <2> HIDE DEF c
  <2>3. /\ IsRun(s) /\ Traceable(s.engine) /\ s.engine.seed = seed
        /\ s.engine.phase = "running" \/ s.engine.phase = "completed"
    BY <1>1 DEF Sprung, Traceable
  <2>4. CASE s.engine.phase = "running"
    <3>1. IsRun(h) /\ Traceable(h.engine) /\ h.engine.seed = s.engine.seed
      BY <2>2, <2>3, <2>4, EngineAfterCommand
    <3> QED BY <1>2, <2>1, <2>3, <3>1 DEF Sprung
  <2>5. CASE s.engine.phase = "completed"
    <3>1. IsRun(h) /\ h.engine = s.engine
      BY <2>3, <2>5, HandledAfterEnd
    <3> QED BY <1>2, <2>1, <2>3, <3>1 DEF Sprung
  <2> QED BY <2>3, <2>4, <2>5
<1>4. CASE action.kind # "command"
  <2> DEFINE x == [id |-> action.id, claim |-> action.claim, probability |-> action.probability,
                   at |-> action.atTick]
  <2>1. ApplyAt(s, action) = AssessedIn(s, x)
    BY <1>4 DEF ApplyAt
  <2> HIDE DEF x
  <2>2. IsRun(AssessedIn(s, x)) /\ AssessedIn(s, x).engine = s.engine
    BY <1>1, EngineAfterAssessment DEF Sprung
  <2> QED BY <1>1, <1>2, <2>1, <2>2 DEF Sprung
<1> QED BY <1>3, <1>4

(* So are all actions of a ledger, whatever they are: its replay is a      *)
(* completed run of the seed.                                              *)
LEMMA ReplaySprings ==
  ASSUME NEW seed, NEW actions, IsSeq(actions), \A n \in DOMAIN actions : IsAction(actions[n])
  PROVE  LET r == LedgerReplay(seed, actions)
         IN  Sprung(r, seed) /\ r.engine.tick = Scenario.totalTicks
<1> DEFINE base == Started(FreshEngine(seed))
           r == Reapplied(seed, actions)
           N == Len(actions)
<1>1. PICK S : actions \in Seq(S)
  BY DEF IsSeq
<1>2. N \in Nat /\ DOMAIN actions = 1 .. N
  BY <1>1
<1>3. Sprung(base, seed)
  <2>1. Traceable(FreshEngine(seed)) /\ FreshEngine(seed).seed = seed
    BY TraceableFresh
  <2>2. IsRun(base) /\ base.engine = FreshEngine(seed)
    BY <2>1, StartedIsRun DEF Traceable
  <2> HIDE DEF base
  <2> QED BY <2>1, <2>2 DEF Sprung
<1>4. Sprung(r, seed)
  <2>1. PICK g : Applying!Through(0, base, actions, g) /\ Applying!Fold(0, base, actions) = g[N]
    BY <1>1, Applying!FoldGoesThrough
  <2> DEFINE T == {n \in Nat : Sprung(g[n], seed)}
  <2> HIDE DEF base, N
  <2>2. 0 \in T
    BY <1>3, <2>1 DEF Applying!Through
  <2>3. ASSUME NEW n \in 0 .. N - 1, n \in T PROVE n + 1 \in T
    <3>1. n + 1 \in 1 .. N /\ (n + 1) - 1 = n /\ n + 1 \in Nat
      BY <1>2
    <3>2. g[n + 1] = Apply(g[n], actions[n + 1])
      BY <2>1, <3>1 DEF Applying!Through, N
    <3>3. Sprung(g[n], seed) /\ IsAction(actions[n + 1])
      BY <1>2, <2>3, <3>1
    <3>4. Sprung(g[n + 1], seed)
      BY <3>2, <3>3, ApplySprings
    <3> QED BY <3>1, <3>4
  <2>4. \A n \in 0 .. N : n \in T
    <3> HIDE DEF T
    <3> QED BY <1>2, <2>2, <2>3, Applying!UpTo
  <2>5. Sprung(g[N], seed)
    BY <1>2, <2>4
  <2> QED BY <2>1, <2>5, ReappliedIsFold DEF base
<1>5. LedgerReplay(seed, actions) = AdvancedTo(r, Scenario.totalTicks)
  BY DEF LedgerReplay, Reapplied
<1> HIDE DEF r
<1>6. Scenario.totalTicks \in Nat
  BY ScenarioAssumption
<1> QED BY <1>4, <1>5, <1>6, AdvanceSprings

----------------------------------------------------------------------------
(***************************************************************************)
(* An accepted file is the artifact of a run.                              *)
(***************************************************************************)
IdentityField == {"session", "scenario", "scenarioDigest", "protocol", "seed", "totalTicks"}
ArtifactField ==
  {"identity", "finalTick", "eventCount", "playerEventCount", "truthLogHash", "playerLogHash",
   "stateDigest", "scoreDigest", "scoreTotal", "handled", "active", "commandTrace",
   "assessmentTrace", "ledger", "truth", "player", "artifactHash"}
IsStream(events) == IsSeq(events) /\ \A n \in 1 .. Len(events) : IsEnvelope(events[n])

(* A file with the fields of an artifact, envelopes in its streams and     *)
(* actions in its ledger, and whatever else in them.                       *)
IsArtifact(d) ==
  /\ d = [f \in ArtifactField |-> d[f]]
  /\ d.identity = [f \in IdentityField |-> d.identity[f]]
  /\ IsStream(d.truth) /\ IsStream(d.player)
  /\ IsSeq(d.ledger) /\ \A n \in DOMAIN d.ledger : IsAction(d.ledger[n])

(* What an artifact says of its run. *)
TellsRun(b, r, actions) ==
  /\ b = [f \in ArtifactField |-> b[f]]
  /\ b.identity = [session |-> Session, scenario |-> Scenario.id, scenarioDigest |-> ScenarioDigest,
                   protocol |-> Protocol, seed |-> r.engine.seed, totalTicks |-> Scenario.totalTicks]
  /\ b.truth = Chained(r.engine.log) /\ b.player = Chained(r.bridge.log) /\ b.ledger = actions
  /\ b.eventCount = Len(b.truth) /\ b.playerEventCount = Len(b.player)
  /\ b.truthLogHash = Tip(b.truth) /\ b.playerLogHash = Tip(b.player)
  /\ b.finalTick = r.engine.tick /\ b.stateDigest = StateDigest(r.engine)
  /\ b.scoreDigest = r.engine.score /\ b.scoreTotal = Total(r.engine.score)
  /\ b.handled = r.engine.handled
  /\ b.commandTrace = CommandTrace(b.truth) /\ b.assessmentTrace = AssessmentTrace(b.player)
  /\ b.artifactHash = Without(b, "artifactHash")

(* Hashing changes the hash alone. *)
LEMMA HashedFields ==
  ASSUME NEW b, b = [f \in ArtifactField |-> b[f]]
  PROVE  LET h == Hashed(b)
         IN  /\ h = [f \in ArtifactField |-> h[f]]
             /\ \A f \in ArtifactField \ {"artifactHash"} : h[f] = b[f]
             /\ h.artifactHash = Without(h, "artifactHash")
<1> DEFINE w == Without(b, "artifactHash")
           h == [b EXCEPT !.artifactHash = w]
<1>1. Hashed(b) = h
  BY DEF Hashed
<1>2. "artifactHash" \in ArtifactField /\ DOMAIN b = ArtifactField
  BY DEF ArtifactField
<1> HIDE DEF w
<1>3. /\ h = [f \in ArtifactField |-> h[f]]
      /\ \A f \in ArtifactField \ {"artifactHash"} : h[f] = b[f]
      /\ h.artifactHash = w
  BY <1>2
<1>4. DOMAIN h = ArtifactField
  BY <1>2
<1> HIDE DEF h
<1>5. Without(h, "artifactHash") = Without(b, "artifactHash")
  BY <1>2, <1>3, <1>4 DEF Without
<1> QED BY <1>1, <1>3, <1>5 DEF w

(* exportRunArtifact: the fields of the artifact of a run.                 *)
LEMMA ArtifactIs ==
  ASSUME NEW r, NEW actions
  PROVE  TellsRun(Artifact(r, actions), r, actions)
<1> DEFINE truth == Chained(r.engine.log)
           player == Chained(r.bridge.log)
           identity == [session |-> Session, scenario |-> Scenario.id,
                        scenarioDigest |-> ScenarioDigest, protocol |-> Protocol,
                        seed |-> r.engine.seed, totalTicks |-> Scenario.totalTicks]
           lt == Len(truth)
           lp == Len(player)
           tt == Tip(truth)
           tp == Tip(player)
           sd == StateDigest(r.engine)
           total == Total(r.engine.score)
           active == SelectSeq(Scenario.incidents, LAMBDA i : r.engine.incidents[i].active)
           ct == CommandTrace(truth)
           at == AssessmentTrace(player)
           body == [identity |-> identity,
                    finalTick |-> r.engine.tick, eventCount |-> lt, playerEventCount |-> lp,
                    truthLogHash |-> tt, playerLogHash |-> tp, stateDigest |-> sd,
                    scoreDigest |-> r.engine.score, scoreTotal |-> total,
                    handled |-> r.engine.handled, active |-> active,
                    commandTrace |-> ct, assessmentTrace |-> at,
                    ledger |-> actions, truth |-> truth, player |-> player, artifactHash |-> <<>>]
           b == Hashed(body)
<1>1. Artifact(r, actions) = b
  BY DEF Artifact
<1> HIDE DEF truth, player, identity, lt, lp, tt, tp, sd, total, active, ct, at
<1>2. body = [f \in ArtifactField |-> body[f]]
  BY DEF ArtifactField
<1>3. /\ body.identity = identity /\ body.finalTick = r.engine.tick
      /\ body.eventCount = lt /\ body.playerEventCount = lp
      /\ body.truthLogHash = tt /\ body.playerLogHash = tp /\ body.stateDigest = sd
      /\ body.scoreDigest = r.engine.score /\ body.scoreTotal = total
      /\ body.handled = r.engine.handled /\ body.commandTrace = ct /\ body.assessmentTrace = at
      /\ body.ledger = actions /\ body.truth = truth /\ body.player = player
  OBVIOUS
<1> HIDE DEF body
<1>4. /\ b = [f \in ArtifactField |-> b[f]]
      /\ \A f \in ArtifactField \ {"artifactHash"} : b[f] = body[f]
      /\ b.artifactHash = Without(b, "artifactHash")
  BY <1>2, HashedFields
<1> HIDE DEF b
<1>5. /\ b.identity = identity /\ b.finalTick = r.engine.tick
      /\ b.eventCount = lt /\ b.playerEventCount = lp
      /\ b.truthLogHash = tt /\ b.playerLogHash = tp /\ b.stateDigest = sd
      /\ b.scoreDigest = r.engine.score /\ b.scoreTotal = total
      /\ b.handled = r.engine.handled /\ b.commandTrace = ct /\ b.assessmentTrace = at
      /\ b.ledger = actions /\ b.truth = truth /\ b.player = player
  BY <1>3, <1>4 DEF ArtifactField
<1> QED
  BY <1>1, <1>4, <1>5 DEF TellsRun, truth, player, identity, lt, lp, tt, tp, sd, total, ct, at

(* An artifact the command line takes (verifyRunArtifact, with the         *)
(* scenario) is the artifact that the run of its seed and its ledger       *)
(* exports, whatever else is in the file: a chain with the right tip is    *)
(* the chain, and all other fields follow from the two logs.               *)
THEOREM AcceptedIsGenuine ==
  ASSUME NEW d, IsArtifact(d), VerifyRunArtifact(d)
  PROVE  SameRun(d, Artifact(LedgerReplay(d.identity.seed, d.ledger), d.ledger))
<1> DEFINE seed == d.identity.seed
           r == LedgerReplay(seed, d.ledger)
           e == r.engine
           b == Artifact(r, d.ledger)
<1>1. Integrity(d) /\ TruthReplayed(d) /\ LedgerReplayed(d)
      /\ d.identity.scenario = Scenario.id /\ d.identity.scenarioDigest = ScenarioDigest
  BY DEF VerifyRunArtifact
<1>2. /\ d = [f \in ArtifactField |-> d[f]]
      /\ d.identity = [f \in IdentityField |-> d.identity[f]]
      /\ IsStream(d.truth) /\ IsStream(d.player)
      /\ IsSeq(d.ledger) /\ \A n \in DOMAIN d.ledger : IsAction(d.ledger[n])
  BY DEF IsArtifact
<1>3. Sprung(r, seed) /\ e.tick = Scenario.totalTicks
  BY <1>2, ReplaySprings
<1>4. TellsRun(b, r, d.ledger)
  BY ArtifactIs
<1>5. LET x == r
      IN  Tip(Chained(x.bridge.log)) = d.playerLogHash /\ Tip(Chained(x.engine.log)) = d.truthLogHash
          /\ Len(x.bridge.log) = d.playerEventCount
  BY <1>1 DEF LedgerReplayed
<1> HIDE DEF r, b
<1>6. /\ IsRun(r) /\ Traceable(e) /\ e.seed = seed /\ e.phase = "completed"
      /\ IsSeq(e.log) /\ e.log # <<>> /\ IsSeq(r.bridge.log)
  <2>1. IsRun(r) /\ Traceable(e) /\ e.seed = seed
    BY <1>3 DEF Sprung
  <2>2. Scenario.totalTicks \in Nat
    BY ScenarioAssumption
  <2>3. ~(e.tick < Scenario.totalTicks)
    <3> DEFINE M == Scenario.totalTicks
    <3>1. e.tick = M /\ M \in Nat
      BY <1>3, <2>2
    <3> HIDE DEF M
    <3>2. ~(e.tick < M)
      BY <3>1
    <3> QED BY <3>2 DEF M
  <2>4. Framed(e.log, e.seed, End(e)) /\ e.phase = "completed"
    BY <2>1, <2>3 DEF Traceable
  <2> QED BY <2>1, <2>4 DEF Framed, IsRun, IsBridge
<1>7. WellHashed(d) /\ WellEnded(d) /\ WellIdentified(d) /\ d.identity.protocol = Protocol
      /\ WellCompleted(d) /\ WellTraced(d)
  BY <1>1 DEF Integrity
<1>8. /\ ValidStream(d.truth, d.identity.session, d.truthLogHash)
      /\ ValidStream(d.player, d.identity.session, d.playerLogHash)
      /\ d.eventCount = Len(d.truth) /\ d.playerEventCount = Len(d.player)
  BY <1>7 DEF WellHashed
<1>9. Woven(d.truth) /\ Tip(d.truth) = d.truthLogHash /\ d.truth # <<>>
  BY <1>2, <1>8, ValidIsWoven DEF IsStream
<1>10. Woven(d.player) /\ Tip(d.player) = d.playerLogHash /\ d.player # <<>>
  BY <1>2, <1>8, ValidIsWoven DEF IsStream
<1>11. d.truth = Chained(e.log)
  <2> DEFINE c == Chained(e.log)
  <2>1. Woven(c) /\ Len(c) = Len(e.log)
    BY <1>6, ChainIsWoven
  <2>2. Len(e.log) # 0
    <3>1. PICK S : e.log \in Seq(S)
      BY <1>6 DEF IsSeq
    <3> QED BY <1>6, <3>1
  <2>3. Tip(c) = Tip(d.truth)
    BY <1>5, <1>9
  <2> HIDE DEF c
  <2>4. c # <<>>
    BY <2>1, <2>2
  <2>5. d.truth = c
    BY <1>9, <2>1, <2>3, <2>4, TipTells
  <2> QED BY <2>5 DEF c
<1>12. d.player = Chained(r.bridge.log)
  <2> DEFINE c == Chained(r.bridge.log)
  <2>1. Woven(c) /\ Len(c) = Len(r.bridge.log)
    BY <1>6, ChainIsWoven
  <2>2. Len(d.player) # 0
    <3>1. PICK S : d.player \in Seq(S)
      BY <1>2 DEF IsStream, IsSeq
    <3> QED BY <1>10, <3>1
  <2>3. Tip(c) = Tip(d.player)
    BY <1>5, <1>10
  <2>4. Len(c) # 0
    BY <1>5, <1>8, <2>1, <2>2
  <2> HIDE DEF c
  <2>5. c # <<>>
    BY <2>4
  <2>6. d.player = c
    BY <1>10, <2>1, <2>3, <2>5, TipTells
  <2> QED BY <2>6 DEF c
<1>13. /\ b.truth = d.truth /\ b.player = d.player /\ b.ledger = d.ledger
       /\ b.eventCount = d.eventCount /\ b.playerEventCount = d.playerEventCount
       /\ b.truthLogHash = d.truthLogHash /\ b.playerLogHash = d.playerLogHash
  BY <1>4, <1>8, <1>9, <1>10, <1>11, <1>12 DEF TellsRun
<1>14. /\ StateDigest(e) = d.stateDigest /\ e.tick = d.finalTick
  <2>1. TruthReplay(seed, d.truth) = e
    <3>1. Rebuilt(seed, d.truth) = Rebuilt(seed, e.log)
      BY <1>6, <1>11, ChainRebuilds
    <3>2. TruthReplay(seed, d.truth) = TruthReplay(e.seed, e.log)
      BY <1>6, <3>1 DEF TruthReplay, Rebuilt
    <3> QED BY <1>6, <3>2, ReplayedIsEngine
  <2>2. LET x == TruthReplay(seed, d.truth)
        IN  StateDigest(x) = d.stateDigest /\ x.tick = d.finalTick
    BY <1>1 DEF TruthReplayed
  <2> HIDE DEF e
  <2> QED BY <2>1, <2>2
<1>15. e.score = d.scoreDigest /\ Total(e.score) = d.scoreTotal
  <2>1. Ended(e)
    BY <1>3, <1>6 DEF Traceable, Over
  <2>2. PICK log : IsSeq(log) /\ e.log = Append(log, Ending(e))
    BY <2>1 DEF Ended
  <2> DEFINE n == Len(e.log)
  <2>3. n \in 1 .. n /\ e.log[n] = Ending(e)
    <3> DEFINE x == Ending(e)
    <3> HIDE DEF x
    <3>1. PICK S : log \in Seq(S)
      BY <2>2 DEF IsSeq
    <3>2. log \in Seq(S \cup {x}) /\ x \in S \cup {x}
      BY <3>1
    <3>3. Len(Append(log, x)) = Len(log) + 1 /\ Append(log, x)[Len(log) + 1] = x /\ Len(log) \in Nat
      BY <3>2
    <3>4. n = Len(log) + 1 /\ e.log[Len(log) + 1] = x
      BY <2>2, <3>3 DEF x
    <3> QED BY <3>3, <3>4 DEF x
  <2>4. Last(d.truth).data = e.log[n].data
    <3>1. Len(d.truth) = n /\ d.truth[n].data = e.log[n].data
      BY <1>6, <1>11, <2>3, ChainTellsLog
    <3> QED BY <3>1 DEF Last
  <2>5. LET x == Last(d.truth).data
        IN  x.finalScore = d.scoreDigest /\ Total(x.finalScore) = d.scoreTotal
    BY <1>7 DEF WellCompleted
  <2>6. Ending(e).data.finalScore = e.score
    BY DEF Ending, Event
  <2> QED BY <2>3, <2>4, <2>5, <2>6
<1>16. /\ b.finalTick = d.finalTick /\ b.stateDigest = d.stateDigest
       /\ b.scoreDigest = d.scoreDigest /\ b.scoreTotal = d.scoreTotal
  BY <1>4, <1>14, <1>15 DEF TellsRun
<1>17. ToBag(d.handled) = ToBag(b.handled)
  <2>1. e.handled = Resolved(e.log)
    BY <1>6 DEF Traceable, Tally
  <2>2. Resolved(d.truth) = e.handled
    BY <1>6, <1>11, <2>1, ChainResolves
  <2>3. b.handled = e.handled
    BY <1>4 DEF TellsRun
  <2> QED BY <1>7, <2>2, <2>3 DEF WellTraced
<1>18. b.commandTrace = d.commandTrace /\ b.assessmentTrace = d.assessmentTrace
  <2>1. InOrder(Derivation(d.truth).trace) = d.commandTrace /\ AssessmentTrace(d.player) = d.assessmentTrace
    BY <1>7 DEF WellTraced
  <2> QED BY <1>4, <1>13, <2>1 DEF TellsRun, CommandTrace
<1>19. b.identity = d.identity
  <2>1. /\ b.identity.session = Session /\ b.identity.scenario = Scenario.id
        /\ b.identity.scenarioDigest = ScenarioDigest /\ b.identity.protocol = Protocol
        /\ b.identity.seed = e.seed /\ b.identity.totalTicks = Scenario.totalTicks
        /\ b.identity = [f \in IdentityField |-> b.identity[f]]
    BY <1>4 DEF TellsRun, IdentityField
  <2>2. d.identity.session = Session
    <3>1. 1 \in 1 .. Len(d.truth)
      <4>1. PICK S : d.truth \in Seq(S)
        BY <1>9 DEF Woven, IsSeq
      <4> QED BY <1>9, <4>1
    <3>2. DOMAIN d.truth = 1 .. Len(d.truth)
      BY <1>9, SeqParts DEF Woven
    <3>3. d.truth[1].session = d.identity.session
      BY <1>8, <3>1, <3>2 DEF ValidStream
    <3>4. Len(d.truth) = Len(e.log) /\ \A n \in 1 .. Len(e.log) : d.truth[n].session = Session
      BY <1>6, <1>11, ChainTellsLog
    <3> QED BY <3>1, <3>3, <3>4
  <2>3. d.identity.totalTicks = Scenario.totalTicks
    BY <1>3, <1>7, <1>14 DEF WellCompleted
  <2>4. \A f \in IdentityField : b.identity[f] = d.identity[f]
    BY <1>1, <1>6, <1>7, <2>1, <2>2, <2>3 DEF IdentityField
  <2> QED BY <1>2, <2>1, <2>4
<1>20. \A f \in ArtifactField \ {"handled", "active", "artifactHash"} : d[f] = b[f]
  BY <1>13, <1>16, <1>18, <1>19 DEF ArtifactField
<1>21. DOMAIN d = ArtifactField
  BY <1>2
<1> QED BY <1>17, <1>20, <1>21 DEF SameRun, r, b

----------------------------------------------------------------------------
(***************************************************************************)
(* Damaged files still have the shape of an artifact.                      *)
(***************************************************************************)
\* A file with another value in one field.
LEMMA FieldReplaced ==
  ASSUME NEW a, a = [f \in ArtifactField |-> a[f]], NEW g \in ArtifactField, NEW v
  PROVE  LET d == [a EXCEPT ![g] = v]
         IN  /\ d = [f \in ArtifactField |-> d[f]] /\ d[g] = v
             /\ \A f \in ArtifactField \ {g} : d[f] = a[f]
OBVIOUS

\* The parts of an artifact that have a shape of their own.
LEMMA FieldsKeepShape ==
  ASSUME NEW a, IsArtifact(a), NEW d, d = [f \in ArtifactField |-> d[f]],
         \A f \in {"identity", "truth", "player", "ledger"} : d[f] = a[f]
  PROVE  IsArtifact(d)
BY DEF IsArtifact

\* Hashing an artifact anew.
LEMMA HashedIsArtifact ==
  ASSUME NEW a, IsArtifact(a)
  PROVE  IsArtifact(Hashed(a))
<1> DEFINE h == Hashed(a)
<1>1. /\ h = [f \in ArtifactField |-> h[f]]
      /\ \A f \in ArtifactField \ {"artifactHash"} : h[f] = a[f]
  BY HashedFields DEF IsArtifact
<1> HIDE DEF h
<1>2. \A f \in {"identity", "truth", "player", "ledger"} : h[f] = a[f]
  BY <1>1 DEF ArtifactField
<1>3. IsArtifact(h)
  BY <1>1, <1>2, FieldsKeepShape
<1> QED BY <1>3 DEF h

\* Another value in a field without a shape of its own.
LEMMA PlainFieldReplaced ==
  ASSUME NEW a, IsArtifact(a), NEW g \in ArtifactField \ {"identity", "truth", "player", "ledger"}, NEW v
  PROVE  IsArtifact([a EXCEPT ![g] = v])
<1> DEFINE d == [a EXCEPT ![g] = v]
<1>1. d = [f \in ArtifactField |-> d[f]] /\ \A f \in ArtifactField \ {g} : d[f] = a[f]
  BY FieldReplaced DEF IsArtifact
<1> HIDE DEF d
<1>2. \A f \in {"identity", "truth", "player", "ledger"} : d[f] = a[f]
  BY <1>1 DEF ArtifactField
<1>3. IsArtifact(d)
  BY <1>1, <1>2, FieldsKeepShape
<1> QED BY <1>3 DEF d

\* Another value in the identity.
LEMMA IdentityReplaced ==
  ASSUME NEW a, IsArtifact(a), NEW g \in IdentityField, NEW v
  PROVE  IsArtifact([a EXCEPT !.identity[g] = v])
<1> DEFINE i == [a.identity EXCEPT ![g] = v]
           d == [a EXCEPT !.identity = i]
<1>1. [a EXCEPT !.identity[g] = v] = d
  OBVIOUS
<1>2. i = [f \in IdentityField |-> i[f]]
  BY DEF IsArtifact
<1> HIDE DEF i
<1>3. "identity" \in ArtifactField
  BY DEF ArtifactField
<1>4. a = [f \in ArtifactField |-> a[f]]
  BY DEF IsArtifact
<1>5. d = [f \in ArtifactField |-> d[f]] /\ d.identity = i /\ \A f \in ArtifactField \ {"identity"} : d[f] = a[f]
  BY <1>3, <1>4, FieldReplaced
<1> HIDE DEF d
<1>6. d.truth = a.truth /\ d.player = a.player /\ d.ledger = a.ledger
  BY <1>5 DEF ArtifactField
<1>7. IsArtifact(d)
  BY <1>2, <1>5, <1>6 DEF IsArtifact
<1> QED BY <1>1, <1>7 DEF d

(* What an edit leaves in a list: what was there, and for a late one the   *)
(* entry with its tick one later.                                          *)
LEMMA EditedKeeps ==
  ASSUME NEW list, IsSeq(list), NEW n \in DOMAIN list, NEW edit \in Edits(list, n), NEW tick, NEW S,
         \A k \in DOMAIN list : list[k] \in S, [list[n] EXCEPT ![tick] = @ + 1] \in S
  PROVE  Edited(list, edit, n, tick) \in Seq(S)
<1> DEFINE N == Len(list)
           x == Edited(list, edit, n, tick)
<1>1. N \in Nat /\ DOMAIN list = 1 .. N /\ list \in Seq(S)
  <2>1. PICK R : list \in Seq(R)
    BY DEF IsSeq
  <2> QED BY <2>1
<1>2. n \in 1 .. N /\ n \in Int
  BY <1>1
<1>3. CASE edit = "lost"
  <2>1. x = SubSeq(list, 1, n - 1) \o SubSeq(list, n + 1, N)
    BY <1>3 DEF Edited, RemoveAt
  <2>2. SubSeq(list, 1, n - 1) \in Seq(S) /\ SubSeq(list, n + 1, N) \in Seq(S)
    BY <1>1, <1>2
  <2> QED BY <2>1, <2>2
<1>4. CASE edit = "repeated"
  <2>1. x = (SubSeq(list, 1, n - 1) \o <<list[n]>>) \o SubSeq(list, n, N)
    BY <1>4 DEF Edited, InsertAt
  <2>2. SubSeq(list, 1, n - 1) \in Seq(S) /\ SubSeq(list, n, N) \in Seq(S) /\ <<list[n]>> \in Seq(S)
    BY <1>1, <1>2
  <2> QED BY <2>1, <2>2
<1>5. CASE edit = "swapped"
  <2>1. x = [list EXCEPT ![n] = list[n + 1], ![n + 1] = list[n]]
    BY <1>5 DEF Edited
  <2>2. n + 1 \in 1 .. N
    BY <1>1, <1>2, <1>5 DEF Edits
  <2> QED BY <1>1, <1>2, <2>1, <2>2
<1>6. CASE edit = "late"
  <2> DEFINE y == [list[n] EXCEPT ![tick] = @ + 1]
  <2>1. x = [list EXCEPT ![n] = y]
    BY <1>6 DEF Edited
  <2> HIDE DEF y
  <2>2. y \in S
    BY DEF y
  <2> QED BY <1>1, <1>2, <2>1, <2>2
<1>7. edit \in Edit
  BY DEF Edits
<1> QED BY <1>3, <1>4, <1>5, <1>6, <1>7 DEF Edit

\* A stream after an edit.
LEMMA EditedIsStream ==
  ASSUME NEW events, IsStream(events), NEW n \in DOMAIN events, NEW edit \in Edits(events, n)
  PROVE  IsStream(Edited(events, edit, n, "tick"))
<1> DEFINE y == [events[n] EXCEPT !["tick"] = @ + 1]
           S == {events[k] : k \in DOMAIN events} \cup {y}
           x == Edited(events, edit, n, "tick")
<1>1. IsSeq(events) /\ DOMAIN events = 1 .. Len(events)
  BY SeqParts DEF IsStream
<1>2. IsEnvelope(y)
  <2> DEFINE v == events[n].tick + 1
             z == events[n]
  <2>1. IsEnvelope(z)
    BY <1>1 DEF IsStream
  <2>2. y = [z EXCEPT !["tick"] = v]
    OBVIOUS
  <2> HIDE DEF v, z, y
  <2> QED BY <2>1, <2>2 DEF IsEnvelope, EnvelopeField
<1> HIDE DEF y
<1>3. \A s \in S : IsEnvelope(s)
  BY <1>1, <1>2 DEF IsStream
<1>4. (\A k \in DOMAIN events : events[k] \in S) /\ [events[n] EXCEPT !["tick"] = @ + 1] \in S
  BY DEF y
<1> HIDE DEF S
<1>5. x \in Seq(S)
  BY <1>1, <1>4, EditedKeeps
<1> HIDE DEF x
<1>6. \A k \in 1 .. Len(x) : x[k] \in S
  BY <1>5
<1>7. IsStream(x)
  BY <1>3, <1>5, <1>6 DEF IsStream, IsSeq
<1> QED BY <1>7 DEF x

\* A ledger after an edit.
LEMMA EditedIsLedger ==
  ASSUME NEW actions, IsSeq(actions), \A k \in DOMAIN actions : IsAction(actions[k]),
         NEW n \in DOMAIN actions, NEW edit \in Edits(actions, n)
  PROVE  LET x == Edited(actions, edit, n, "atTick")
         IN  IsSeq(x) /\ \A k \in DOMAIN x : IsAction(x[k])
<1> DEFINE y == [actions[n] EXCEPT !["atTick"] = @ + 1]
           S == {actions[k] : k \in DOMAIN actions} \cup {y}
           x == Edited(actions, edit, n, "atTick")
<1>1. IsAction(y)
  <2> DEFINE z == actions[n]
             v == z.atTick + 1
  <2>1. IsAction(z)
    OBVIOUS
  <2>2. y = [z EXCEPT !["atTick"] = v] /\ v \in Nat
    BY <2>1 DEF IsAction
  <2> HIDE DEF v, z, y
  <2>3. y.kind = z.kind /\ y.name = z.name
    BY <2>2
  <2>4. y.atTick \in Nat
    <3>1. CASE "atTick" \in DOMAIN z
      BY <2>2, <3>1
    <3>2. CASE "atTick" \notin DOMAIN z
      <4>1. y.atTick = z.atTick
        BY <2>2, <3>2
      <4> QED BY <2>1, <4>1 DEF IsAction
    <3> QED BY <3>1, <3>2
  <2> QED BY <2>1, <2>3, <2>4 DEF IsAction
<1> HIDE DEF y
<1>2. \A s \in S : IsAction(s)
  BY <1>1
<1>3. (\A k \in DOMAIN actions : actions[k] \in S) /\ [actions[n] EXCEPT !["atTick"] = @ + 1] \in S
  BY DEF y
<1> HIDE DEF S
<1>4. x \in Seq(S)
  BY <1>3, EditedKeeps
<1> HIDE DEF x
<1>5. \A k \in DOMAIN x : x[k] \in S
  BY <1>4
<1>6. IsSeq(x) /\ \A k \in DOMAIN x : IsAction(x[k])
  BY <1>2, <1>4, <1>5 DEF IsSeq
<1> QED BY <1>6 DEF x

\* Another stream in one of the two logs.
LEMMA StreamReplaced ==
  ASSUME NEW a, IsArtifact(a), NEW log \in {"truth", "player"}, NEW v, IsStream(v)
  PROVE  IsArtifact([a EXCEPT ![log] = v])
<1> DEFINE d == [a EXCEPT ![log] = v]
<1>1. log \in ArtifactField /\ a = [f \in ArtifactField |-> a[f]]
  BY DEF ArtifactField, IsArtifact
<1>2. d = [f \in ArtifactField |-> d[f]] /\ d[log] = v /\ \A f \in ArtifactField \ {log} : d[f] = a[f]
  BY <1>1, FieldReplaced
<1> HIDE DEF d
<1>3. /\ d.identity = a.identity /\ d.ledger = a.ledger
      /\ d.truth = IF log = "truth" THEN v ELSE a.truth
      /\ d.player = IF log = "player" THEN v ELSE a.player
  BY <1>2 DEF ArtifactField
<1>4. IsArtifact(d)
  BY <1>2, <1>3 DEF IsArtifact
<1> QED BY <1>4 DEF d

\* Another ledger.
LEMMA LedgerReplaced ==
  ASSUME NEW a, IsArtifact(a), NEW v, IsSeq(v), \A k \in DOMAIN v : IsAction(v[k])
  PROVE  IsArtifact([a EXCEPT !.ledger = v])
<1> DEFINE d == [a EXCEPT !.ledger = v]
<1>1. "ledger" \in ArtifactField /\ a = [f \in ArtifactField |-> a[f]]
  BY DEF ArtifactField, IsArtifact
<1>2. d = [f \in ArtifactField |-> d[f]] /\ d.ledger = v /\ \A f \in ArtifactField \ {"ledger"} : d[f] = a[f]
  BY <1>1, FieldReplaced
<1> HIDE DEF d
<1>3. d.identity = a.identity /\ d.truth = a.truth /\ d.player = a.player
  BY <1>2 DEF ArtifactField
<1>4. IsArtifact(d)
  BY <1>2, <1>3 DEF IsArtifact
<1> QED BY <1>4 DEF d

\* Another seed in the first event of a stream.
LEMMA SeedReplaced ==
  ASSUME NEW events, IsStream(events), NEW seed
  PROVE  IsStream([events EXCEPT ![1].data.seed = seed])
<1> DEFINE x == events[1]
           data == [x.data EXCEPT !.seed = seed]
           y == [x EXCEPT !.data = data]
           s == [events EXCEPT ![1] = y]
<1>1. [events EXCEPT ![1].data.seed = seed] = s
  OBVIOUS
<1>2. PICK S : events \in Seq(S)
  BY DEF IsStream, IsSeq
<1> HIDE DEF data
<1>3. 1 \in 1 .. Len(events) => IsEnvelope(y)
  <2> SUFFICES ASSUME 1 \in 1 .. Len(events) PROVE IsEnvelope(y)
    OBVIOUS
  <2>1. IsEnvelope(x)
    BY DEF IsStream
  <2> HIDE DEF x
  <2> QED BY <2>1 DEF IsEnvelope, EnvelopeField
<1> HIDE DEF y
<1> DEFINE U == S \cup {y}
<1>4. s \in Seq(U) /\ Len(s) = Len(events)
      /\ \A n \in 1 .. Len(events) : s[n] = IF n = 1 THEN y ELSE events[n]
  <2>1. events \in Seq(U) /\ y \in U /\ DOMAIN events = 1 .. Len(events)
    BY <1>2
  <2> HIDE DEF U
  <2> DEFINE N == Len(events)
             w == [n \in 1 .. N |-> IF n = 1 THEN y ELSE events[n]]
  <2>a. N \in Nat /\ \A n \in 1 .. N : events[n] \in U
    BY <2>1
  <2>b. s = w
    <3>1. events = [n \in 1 .. N |-> events[n]]
      BY <2>1
    <3> QED BY <3>1
  <2>c. w \in Seq(U) /\ Len(w) = N
    <3> HIDE DEF N
    <3> QED BY <2>1, <2>a
  <2>2. s \in Seq(U) /\ Len(s) = Len(events)
    BY <2>b, <2>c
  <2>3. \A n \in 1 .. Len(events) : s[n] = IF n = 1 THEN y ELSE events[n]
    BY <2>1
  <2> QED BY <2>2, <2>3
<1> HIDE DEF s
<1>5. IsStream(s)
  BY <1>3, <1>4 DEF IsStream, IsSeq
<1> QED BY <1>1, <1>5

\* Another seed wherever a file states its seed.
LEMMA ReseededIsArtifact ==
  ASSUME NEW a, IsArtifact(a), NEW seed
  PROVE  IsArtifact(Reseeded(a, seed))
<1> DEFINE t == [a.truth EXCEPT ![1].data.seed = seed]
           p == [a.player EXCEPT ![1].data.seed = seed]
           b == [a EXCEPT !.identity["seed"] = seed]
           c == [b EXCEPT !["truth"] = t]
           d == [c EXCEPT !["player"] = p]
<1>1. IsStream(t) /\ IsStream(p)
  BY SeedReplaced DEF IsArtifact
<1>2. Reseeded(a, seed) = d
  <2>1. a = [f \in ArtifactField |-> a[f]]
    BY DEF IsArtifact
  <2>2. b.truth = a.truth /\ b.player = a.player /\ c.player = a.player
    BY <2>1 DEF ArtifactField
  <2> QED BY <2>1, <2>2 DEF Reseeded
<1> HIDE DEF t, p
<1>3. IsArtifact(b)
  BY IdentityReplaced DEF IdentityField
<1> HIDE DEF b
<1>4. IsArtifact(c)
  BY <1>1, <1>3, StreamReplaced
<1> HIDE DEF c
<1>5. IsArtifact(d)
  BY <1>1, <1>4, StreamReplaced
<1> QED BY <1>2, <1>5

\* The chain of a log is a stream.
LEMMA ChainedIsStream ==
  ASSUME NEW log, IsSeq(log)
  PROVE  IsStream(Chained(log))
BY ChainIsWoven DEF Woven, IsStream

\* All hashes and derived fields made to fit again.
LEMMA ResealedIsArtifact ==
  ASSUME NEW a, IsArtifact(a)
  PROVE  IsArtifact(Resealed(a))
<1> DEFINE t == Chained(a.truth)
           p == Chained(a.player)
           lt == Len(t)
           lp == Len(p)
           tt == Tip(t)
           tp == Tip(p)
           ct == CommandTrace(t)
           at == AssessmentTrace(p)
           h == Resolved(t)
           d == [a EXCEPT !.truth = t, !.player = p, !.eventCount = lt, !.playerEventCount = lp,
                          !.truthLogHash = tt, !.playerLogHash = tp,
                          !.commandTrace = ct, !.assessmentTrace = at, !.handled = h]
<1>1. Resealed(a) = Hashed(d)
  BY DEF Resealed
<1>2. IsStream(t) /\ IsStream(p)
  BY ChainedIsStream DEF IsArtifact, IsStream
<1>3. a = [f \in ArtifactField |-> a[f]]
  BY DEF IsArtifact
<1> HIDE DEF t, p, lt, lp, tt, tp, ct, at, h
<1>4. d = [f \in ArtifactField |-> d[f]] /\ d.identity = a.identity /\ d.ledger = a.ledger
      /\ d.truth = t /\ d.player = p
  BY <1>3 DEF ArtifactField
<1> HIDE DEF d
<1>5. IsArtifact(d)
  BY <1>2, <1>4 DEF IsArtifact
<1> QED BY <1>1, <1>5, HashedIsArtifact

(* What damage leaves is a file of that shape.                             *)
LEMMA DamageLeavesArtifact ==
  ASSUME NEW a, IsArtifact(a)
  PROVE  EveryDamage(a, IsArtifact)
<1>1. ASSUME NEW f \in Scalar PROVE IsArtifact(Hashed([a EXCEPT ![f] = Damaged]))
  <2>1. f \in ArtifactField \ {"identity", "truth", "player", "ledger"}
    BY DEF Scalar, ArtifactField
  <2>2. IsArtifact([a EXCEPT ![f] = Damaged])
    BY <2>1, PlainFieldReplaced
  <2> QED BY <2>2, HashedIsArtifact
<1>2. ASSUME NEW f \in Listed PROVE IsArtifact(Hashed([a EXCEPT ![f] = Append(@, Damaged)]))
  <2> DEFINE v == Append(a[f], Damaged)
  <2>1. f \in ArtifactField \ {"identity", "truth", "player", "ledger"}
    BY DEF Listed, ArtifactField
  <2>2. [a EXCEPT ![f] = Append(@, Damaged)] = [a EXCEPT ![f] = v]
    OBVIOUS
  <2> HIDE DEF v
  <2>3. IsArtifact([a EXCEPT ![f] = v])
    BY <2>1, PlainFieldReplaced
  <2>4. IsArtifact(Hashed([a EXCEPT ![f] = v]))
    BY <2>3, HashedIsArtifact
  <2> QED BY <2>2, <2>4
<1>3. ASSUME NEW f \in DOMAIN a.identity PROVE IsArtifact(Hashed([a EXCEPT !.identity[f] = Damaged]))
  <2>1. f \in IdentityField
    BY DEF IsArtifact
  <2>2. IsArtifact([a EXCEPT !.identity[f] = Damaged])
    BY <2>1, IdentityReplaced
  <2> QED BY <2>2, HashedIsArtifact
<1>4. ASSUME NEW seed PROVE IsArtifact(Resealed(Reseeded(a, seed)))
  BY ReseededIsArtifact, ResealedIsArtifact
<1>5. ASSUME NEW n \in DOMAIN a.ledger, NEW edit \in Edits(a.ledger, n)
      PROVE  IsArtifact(Hashed([a EXCEPT !.ledger = Edited(@, edit, n, "atTick")]))
  <2> DEFINE v == Edited(a.ledger, edit, n, "atTick")
  <2>1. IsSeq(a.ledger) /\ \A k \in DOMAIN a.ledger : IsAction(a.ledger[k])
    BY DEF IsArtifact
  <2>2. IsSeq(v) /\ \A k \in DOMAIN v : IsAction(v[k])
    BY <2>1, EditedIsLedger
  <2>3. [a EXCEPT !.ledger = Edited(@, edit, n, "atTick")] = [a EXCEPT !.ledger = v]
    OBVIOUS
  <2> HIDE DEF v
  <2>4. IsArtifact([a EXCEPT !.ledger = v])
    BY <2>2, LedgerReplaced
  <2>5. IsArtifact(Hashed([a EXCEPT !.ledger = v]))
    BY <2>4, HashedIsArtifact
  <2> QED BY <2>3, <2>5
<1>6. ASSUME NEW log \in {"truth", "player"}, NEW n \in DOMAIN a[log], NEW edit \in Edits(a[log], n)
      PROVE  LET d == [a EXCEPT ![log] = Edited(@, edit, n, "tick")]
             IN  IsArtifact(Hashed(d)) /\ IsArtifact(Resealed(d))
  <2> DEFINE v == Edited(a[log], edit, n, "tick")
             d == [a EXCEPT ![log] = v]
  <2>1. IsStream(a[log])
    BY DEF IsArtifact
  <2>2. IsStream(v)
    BY <2>1, EditedIsStream
  <2>3. [a EXCEPT ![log] = Edited(@, edit, n, "tick")] = d
    OBVIOUS
  <2> HIDE DEF v
  <2>4. IsArtifact(d)
    BY <2>2, StreamReplaced
  <2> HIDE DEF d
  <2>5. IsArtifact(Hashed(d)) /\ IsArtifact(Resealed(d))
    BY <2>4, HashedIsArtifact, ResealedIsArtifact
  <2> QED BY <2>3, <2>5
<1>7. IsArtifact(Hashed([a EXCEPT !.identity.protocol = @ + 1]))
  <2> DEFINE v == a.identity["protocol"] + 1
  <2>1. [a EXCEPT !.identity.protocol = @ + 1] = [a EXCEPT !.identity["protocol"] = v]
    OBVIOUS
  <2> HIDE DEF v
  <2>2. IsArtifact([a EXCEPT !.identity["protocol"] = v])
    BY IdentityReplaced DEF IdentityField
  <2> QED BY <2>1, <2>2, HashedIsArtifact
<1> QED BY <1>1, <1>2, <1>3, <1>4, <1>5, <1>6, <1>7 DEF EveryDamage

(* The verifier takes none that is not the artifact of a run.              *)
LEMMA EveryDamageIsRefused ==
  ASSUME NEW a, IsArtifact(a)
  PROVE  RightlyAccepted(a) /\ EveryDamage(a, RightlyAccepted)
<1>1. \A d : IsArtifact(d) => RightlyAccepted(d)
  BY AcceptedIsGenuine DEF RightlyAccepted
<1>2. EveryDamage(a, IsArtifact)
  BY DamageLeavesArtifact
<1>3. EveryDamage(a, RightlyAccepted)
  BY <1>1, <1>2 DEF EveryDamage
<1> QED BY <1>1, <1>3

----------------------------------------------------------------------------
(***************************************************************************)
(* The player log of a run: it begins with the start of the session, and   *)
(* ends with its completion once the run is over.                          *)
(***************************************************************************)
OfPlayers(log, seed, end) ==
  /\ IsSeq(log) /\ log # <<>>
  /\ log[1].data.scenario = Scenario.id /\ log[1].data.seed = seed
  /\ log[1].data.totalTicks = Scenario.totalTicks
  /\ \A n \in DOMAIN log :
       /\ log[n].kind = "SessionStarted" <=> n = 1
       /\ log[n].kind = "RunCompleted" <=> n = end
(* What players are told at the end of engine e's run.                     *)
IsFarewell(ev, e) ==
  /\ ev.kind = "RunCompleted" /\ ev.tick = e.tick
  /\ ev.data.finalTick = e.tick /\ ev.data.scoreTotal = Total(e.score)
(* The log of bridge b is that of the players of engine e's run.           *)
Presented(b, e) ==
  /\ Rising(b.log, e.tick)
  /\ OfPlayers(b.log, e.seed, IF e.tick < Scenario.totalTicks THEN 0 ELSE Len(b.log))
  /\ ~(e.tick < Scenario.totalTicks) => IsFarewell(Last(b.log), e)

(* Quiet events keep the frame of a player log.                            *)
LEMMA PlayersQuiet ==
  ASSUME NEW log, NEW seed, NEW ext, NEW tick, OfPlayers(log, seed, 0), Quiet(ext, tick)
  PROVE  OfPlayers(log \o ext, seed, 0)
<1> DEFINE both == log \o ext
           M == Len(log)
           N == Len(ext)
<1>1. IsSeq(log) /\ IsSeq(ext)
  BY DEF OfPlayers, Quiet
<1>2. /\ M \in Nat /\ N \in Nat /\ DOMAIN log = 1 .. M /\ DOMAIN ext = 1 .. N
      /\ DOMAIN both = 1 .. M + N
      /\ \A n \in 1 .. M : both[n] = log[n]
      /\ \A n \in 1 .. N : both[M + n] = ext[n]
  BY <1>1, SeqParts
<1>3. IsSeq(both)
  BY <1>1, SeqAppend
<1>4. M > 0
  <2>1. PICK S : log \in Seq(S)
    BY <1>1 DEF IsSeq
  <2>2. log # <<>>
    BY DEF OfPlayers
  <2> QED BY <2>1, <2>2
<1> HIDE DEF both, M, N
<1>5. both # <<>> /\ both[1] = log[1]
  <2>1. 1 \in DOMAIN both /\ 1 \in 1 .. M
    BY <1>2, <1>4
  <2>2. DOMAIN <<>> = {}
    OBVIOUS
  <2> QED BY <1>2, <2>1, <2>2
<1>6. ASSUME NEW n \in DOMAIN both
      PROVE  both[n].kind # "RunCompleted" /\ (both[n].kind = "SessionStarted" <=> n = 1)
  <2>1. CASE n \in 1 .. M
    <3>1. n # 0 /\ n \in DOMAIN log /\ both[n] = log[n]
      BY <1>2, <2>1
    <3> QED BY <3>1 DEF OfPlayers
  <2>2. CASE n \in M + 1 .. M + N
    <3>1. n - M \in 1 .. N /\ M + (n - M) = n /\ n # 1
      BY <1>2, <1>4, <2>2
    <3>2. both[n] = ext[n - M] /\ n - M \in DOMAIN ext
      BY <1>2, <3>1
    <3> QED BY <3>1, <3>2 DEF Quiet, Apart
  <2> QED BY <1>2, <2>1, <2>2
<1>7. \A n \in DOMAIN both : n # 0
  BY <1>2
<1> QED BY <1>3, <1>5, <1>6, <1>7 DEF OfPlayers, both

(* So does any event but a start; the completion is the end.               *)
LEMMA PlayersAppend ==
  ASSUME NEW log, NEW seed, NEW ev, OfPlayers(log, seed, 0), ev.kind # "SessionStarted",
         NEW end, end = IF ev.kind = "RunCompleted" THEN Len(log) + 1 ELSE 0
  PROVE  /\ OfPlayers(Append(log, ev), seed, end)
         /\ Len(Append(log, ev)) = Len(log) + 1 /\ Last(Append(log, ev)) = ev
<1>1. PICK S : log \in Seq(S)
  BY DEF IsSeq, OfPlayers
<1> DEFINE U == S \cup {ev}
           longer == Append(log, ev)
           N == Len(log)
<1>2. log \in Seq(U) /\ ev \in U /\ log # <<>>
  BY <1>1 DEF OfPlayers
<1> HIDE DEF U
<1>3. /\ longer \in Seq(U) /\ N \in Nat /\ DOMAIN log = 1 .. N /\ DOMAIN longer = 1 .. N + 1
      /\ longer[N + 1] = ev /\ \A n \in 1 .. N : longer[n] = log[n]
      /\ N > 0 /\ Len(longer) = N + 1 /\ longer # <<>>
  BY <1>2
<1> HIDE DEF longer, N
<1>4. longer[1] = log[1]
  BY <1>3
<1>5. ASSUME NEW n \in DOMAIN longer
      PROVE  /\ longer[n].kind = "SessionStarted" <=> n = 1
             /\ longer[n].kind = "RunCompleted" <=> n = end
  <2>1. CASE n = N + 1
    <3>1. longer[n] = ev /\ n # 1 /\ n # 0
      BY <1>3, <2>1
    <3> QED BY <2>1, <3>1 DEF N
  <2>2. CASE n \in 1 .. N
    <3>1. n # 0 /\ n # N + 1 /\ n \in DOMAIN log /\ longer[n] = log[n]
      BY <1>3, <2>2
    <3> QED BY <3>1 DEF OfPlayers, N
  <2> QED BY <1>3, <2>1, <2>2
<1>6. Last(longer) = ev
  BY <1>3 DEF Last
<1> QED BY <1>2, <1>3, <1>4, <1>5, <1>6 DEF OfPlayers, IsSeq, longer, N

(* More told quietly, and then perhaps one thing more.                     *)
LEMMA PresentsTelling ==
  ASSUME NEW b, NEW r, NEW seed, NEW tick \in Nat, NEW old \in Nat, old <= tick,
         Rising(b.log, old), OfPlayers(b.log, seed, 0), Telling(b, r, tick)
  PROVE  Rising(r.log, tick) /\ OfPlayers(r.log, seed, 0)
<1>1. PICK ext : Quiet(ext, tick) /\ r.log = b.log \o ext
  BY DEF Telling
<1> DEFINE w == b.log
<1>2. Rising(w, old) /\ OfPlayers(w, seed, 0)
  OBVIOUS
<1> HIDE DEF w
<1>3. Rising(w \o ext, tick)
  BY <1>1, <1>2, RisingQuiet
<1>4. OfPlayers(w \o ext, seed, 0)
  BY <1>1, <1>2, PlayersQuiet
<1> QED BY <1>1, <1>3, <1>4 DEF w

(* A result or an assessment.                                              *)
LEMMA PresentsSpoken ==
  ASSUME NEW b, NEW r, NEW seed, NEW tick \in Nat, NEW ev, Spoken(b, r, ev),
         Rising(b.log, tick), OfPlayers(b.log, seed, 0), ev.tick = tick,
         ev.kind # "SessionStarted", ev.kind # "RunCompleted"
  PROVE  Rising(r.log, tick) /\ OfPlayers(r.log, seed, 0)
<1> DEFINE w == b.log
<1>1. r.log = Append(w, ev) /\ Rising(w, tick) /\ OfPlayers(w, seed, 0)
  BY DEF Spoken
<1> HIDE DEF w
<1>2. tick <= tick
  OBVIOUS
<1>3. Rising(Append(w, ev), tick)
  BY <1>1, <1>2, RisingAppend
<1>4. OfPlayers(Append(w, ev), seed, 0)
  BY <1>1, PlayersAppend
<1> QED BY <1>1, <1>3, <1>4

(* What a bridge hears of the completion.                                  *)
LEMMA HearsEnding ==
  ASSUME NEW b, IsBridge(b), NEW e
  PROVE  \E ev : Spoken(b, Heard(b, Ending(e)), ev) /\ IsFarewell(ev, e)
<1> DEFINE data == [finalTick |-> e.tick, scoreTotal |-> Total(e.score),
                    claimCount |-> Cardinality({c \in Claim : b.claims[c] # NoClaim}),
                    evidenceCount |-> Cardinality(Evidence(b))]
           ev == Event("RunCompleted", e.tick, data)
           x == Ending(e)
<1>1. x.kind = "ScenarioCompleted" /\ x.tick = e.tick /\ x.data.finalTick = e.tick
      /\ x.data.finalScore = e.score
  BY DEF Ending, Event
<1>2. Heard(b, x) = Tell(b, e.tick, "RunCompleted", data)
  <2> HIDE DEF x
  <2> QED BY <1>1 DEF Heard
<1>3. data.finalTick = e.tick /\ data.scoreTotal = Total(e.score)
  OBVIOUS
<1> HIDE DEF data, x
<1>4. Spoken(b, Tell(b, e.tick, "RunCompleted", data), ev)
  BY Tells
<1>5. IsFarewell(ev, e)
  BY <1>3 DEF IsFarewell, Event
<1> QED BY <1>2, <1>4, <1>5 DEF x

(* A fresh session presents its run: the start is all that was said.       *)
LEMMA PresentedStart ==
  ASSUME NEW seed
  PROVE  LET r == Started(FreshEngine(seed))
         IN  /\ Presented(r.bridge, r.engine)
             /\ \A n \in DOMAIN r.bridge.log : r.bridge.log[n].kind # "CommandResult"
<1> DEFINE e == FreshEngine(seed)
           b == Opened(e).bridge
           g == Genesis(seed)
           r == Started(e)
           data == [scenario |-> Scenario.id, seed |-> seed, totalTicks |-> Scenario.totalTicks,
                    teams |-> b.initial]
           ev == Event("SessionStarted", 0, data)
           h == Tell(b, 0, "SessionStarted", data)
<1>1. /\ Traceable(e) /\ e.log = <<g>> /\ e.tick = 0 /\ e.seed = seed
  BY TraceableFresh
<1>2. g.kind = "ScenarioStarted" /\ g.tick = 0 /\ g.data.scenario = Scenario.id
      /\ g.data.seed = seed /\ g.data.totalTicks = Scenario.totalTicks
  BY DEF Genesis, Event
<1> HIDE DEF g
<1>3. Heard(b, g) = h
  BY <1>2 DEF Heard
<1>4. data.scenario = Scenario.id /\ data.seed = seed /\ data.totalTicks = Scenario.totalTicks
  OBVIOUS
<1> HIDE DEF data
<1>5. r.bridge = FoldLeft(Heard, b, <<g>>)
  <2> DEFINE open == Opened(e)
             f == FoldLeft(Heard, open.bridge, e.log)
  <2>1. r = [open EXCEPT !.bridge = f]
    BY DEF Started
  <2>2. "bridge" \in DOMAIN open
    BY DEF Opened
  <2> HIDE DEF open, f
  <2>3. r.bridge = f
    BY <2>1, <2>2
  <2> QED BY <1>1, <2>3 DEF f, open
<1>6. r.bridge = h
  <2> HIDE DEF b, h, r
  <2> QED BY <1>3, <1>5, HearsOne
<1>7. r.engine = e
  BY <1>1, StartedIsRun DEF Traceable
<1> DEFINE none == <<>>
<1>8. IsBridge(b) /\ b.log = none
  BY SeqShort DEF Opened, IsBridge, BridgeField
<1> HIDE DEF b
<1>9. Spoken(b, h, ev)
  BY <1>8, Tells
<1>10. ev.kind = "SessionStarted" /\ ev.tick = 0 /\ ev.data = data
  BY DEF Event
<1> HIDE DEF ev, h
<1>11. h.log = <<ev>>
  BY <1>8, <1>9 DEF Spoken
<1> DEFINE log == <<ev>>
<1>12. IsSeq(log) /\ DOMAIN log = {1} /\ log[1] = ev /\ Len(log) = 1 /\ log # <<>>
  BY SeqShort
<1> HIDE DEF log
<1>13. Rising(log, 0)
  BY <1>10, <1>12 DEF Rising
<1>14. OfPlayers(log, seed, 0)
  BY <1>4, <1>10, <1>12 DEF OfPlayers
<1>15. 0 < Scenario.totalTicks
  BY ScenarioAssumption
<1>16. h.log = log
  BY <1>11 DEF log
<1>17. Presented(h, e)
  BY <1>1, <1>13, <1>14, <1>15, <1>16 DEF Presented
<1>18. \A n \in DOMAIN h.log : h.log[n].kind # "CommandResult"
  BY <1>10, <1>12, <1>16
<1> HIDE DEF e, r
<1> QED BY <1>6, <1>7, <1>17, <1>18 DEF r, e

(* After a tick.                                                           *)
LEMMA PresentedTick ==
  ASSUME NEW r, IsRun(r), Traceable(r.engine), r.engine.phase = "running", Presented(r.bridge, r.engine)
  PROVE  Presented(Ticked(r).bridge, Ticked(r).engine)
<1> DEFINE s == Ticked(r)
           e == r.engine
           f == s.engine
           M == Scenario.totalTicks
<1>1. RanOn(r, s)
  <2>1. IsSeq(<<>>)
    BY SeqShort
  <2> QED BY <2>1, TickAlike
<1>2. Traceable(f) /\ f.seed = e.seed /\ f.tick = e.tick + 1
  BY EngineAfterTick
<1> HIDE DEF s
<1>3. e.tick \in Nat /\ f.tick \in Nat /\ e.tick <= f.tick /\ e.tick < M /\ M \in Nat
  BY <1>2, ScenarioAssumption DEF IsRun, IsEngine, Traceable
<1>4. PICK b : /\ Telling(r.bridge, b, f.tick)
               /\ s.bridge = IF f.tick < M THEN b ELSE Heard(b, Ending(f))
  BY <1>1 DEF RanOn
<1> DEFINE p == r.bridge
           w == s.bridge
           seed == e.seed
           old == e.tick
           tick == f.tick
<1>5. Rising(p.log, old) /\ OfPlayers(p.log, seed, 0)
  BY <1>3 DEF Presented
<1>6. /\ old \in Nat /\ tick \in Nat /\ old <= tick /\ Telling(p, b, tick) /\ f.seed = seed
      /\ w = IF tick < M THEN b ELSE Heard(b, Ending(f))
  BY <1>2, <1>3, <1>4
<1> HIDE DEF p, w, seed, old, tick, f, M
<1>7. Rising(b.log, tick) /\ OfPlayers(b.log, seed, 0)
  BY <1>5, <1>6, PresentsTelling
<1>8. Presented(w, f)
  <2>1. CASE tick < M
    <3>1. w = b
      BY <1>6, <2>1
    <3> QED BY <1>6, <1>7, <2>1, <3>1 DEF Presented, seed, tick, M
  <2>2. CASE ~(tick < M)
    <3> DEFINE h == Heard(b, Ending(f))
    <3>1. w = h /\ IsBridge(b)
      BY <1>6, <2>2 DEF Telling
    <3>2. PICK ev : Spoken(b, h, ev) /\ IsFarewell(ev, f)
      BY <3>1, HearsEnding
    <3> HIDE DEF h
    <3> DEFINE t == b.log
               l == Append(t, ev)
    <3>3. h.log = l
      BY <3>2 DEF Spoken
    <3>4. ev.kind = "RunCompleted" /\ ev.tick = tick
      BY <3>2 DEF IsFarewell, tick
    <3>5. Rising(t, tick) /\ OfPlayers(t, seed, 0) /\ tick <= tick
      BY <1>6, <1>7
    <3> HIDE DEF t
    <3>6. Rising(l, tick)
      BY <1>6, <3>4, <3>5, RisingAppend
    <3>7. OfPlayers(l, seed, Len(l)) /\ Last(l) = ev
      BY <3>4, <3>5, PlayersAppend
    <3> HIDE DEF l
    <3> QED BY <1>6, <2>2, <3>1, <3>2, <3>3, <3>6, <3>7 DEF Presented, seed, tick, M
  <2> QED BY <2>1, <2>2
<1> QED BY <1>8 DEF w, f, s

(* After a command.                                                        *)
LEMMA PresentedHandled ==
  ASSUME NEW r, IsRun(r), Traceable(r.engine), r.engine.phase = "running", Presented(r.bridge, r.engine),
         NEW c, c.name \in CommandName, NEW key, NEW s, HandledOn(r, s, c, key)
  PROVE  Presented(s.bridge, s.engine)
<1> DEFINE e == r.engine
           a == Submit(e, c, key)
           M == Scenario.totalTicks
<1>1. s.engine = a.engine
  BY DEF HandledOn
<1>2. s.engine.tick = e.tick /\ s.engine.seed = e.seed
  BY <1>1, TraceableSubmit
<1>3. PICK b, data : /\ Telling(r.bridge, b, e.tick)
                     /\ Spoken(b, s.bridge, Event("CommandResult", e.tick, data))
  BY DEF HandledOn
<1> DEFINE ev == Event("CommandResult", e.tick, data)
<1>4. ev.kind = "CommandResult" /\ ev.tick = e.tick
  BY DEF Event
<1> HIDE DEF ev, a
<1>5. e.tick \in Nat /\ e.tick < M /\ M \in Nat /\ e.tick <= e.tick
  BY ScenarioAssumption DEF IsRun, IsEngine, Traceable
<1> DEFINE p == r.bridge
           w == s.bridge
           seed == e.seed
           tick == e.tick
<1>6. /\ Rising(p.log, tick) /\ OfPlayers(p.log, seed, 0) /\ Telling(p, b, tick) /\ Spoken(b, w, ev)
      /\ tick \in Nat /\ tick <= tick /\ ev.tick = tick
  BY <1>3, <1>4, <1>5 DEF Presented, ev
<1> HIDE DEF p, w, seed, tick
<1>7. Rising(b.log, tick) /\ OfPlayers(b.log, seed, 0)
  BY <1>6, PresentsTelling
<1>8. Rising(w.log, tick) /\ OfPlayers(w.log, seed, 0)
  BY <1>4, <1>6, <1>7, PresentsSpoken
<1> QED BY <1>2, <1>5, <1>8 DEF Presented, w, seed, tick

(* After an assessment.                                                    *)
LEMMA PresentedAssessed ==
  ASSUME NEW r, IsRun(r), Traceable(r.engine), r.engine.phase = "running", Presented(r.bridge, r.engine),
         NEW x
  PROVE  Presented(AssessedIn(r, x).bridge, AssessedIn(r, x).engine)
<1> DEFINE s == AssessedIn(r, x)
           e == r.engine
           M == Scenario.totalTicks
           ev == Event("AssessmentSubmitted", e.tick, x)
<1>1. s.engine = e /\ Spoken(r.bridge, s.bridge, ev)
  BY AssessedAlike
<1> HIDE DEF s
<1>2. ev.kind = "AssessmentSubmitted" /\ ev.tick = e.tick
  BY DEF Event
<1> HIDE DEF ev
<1>3. e.tick \in Nat /\ e.tick < M /\ M \in Nat
  BY ScenarioAssumption DEF IsRun, IsEngine, Traceable
<1> DEFINE p == r.bridge
           w == s.bridge
           seed == e.seed
           tick == e.tick
<1>4. /\ Rising(p.log, tick) /\ OfPlayers(p.log, seed, 0) /\ Spoken(p, w, ev)
      /\ tick \in Nat /\ ev.tick = tick
  BY <1>1, <1>2, <1>3 DEF Presented
<1> HIDE DEF p, w, seed, tick
<1>5. Rising(w.log, tick) /\ OfPlayers(w.log, seed, 0)
  BY <1>2, <1>4, PresentsSpoken
<1>6. Presented(s.bridge, s.engine)
  BY <1>1, <1>3, <1>5 DEF Presented, w, seed, tick
<1> QED BY <1>6 DEF s

----------------------------------------------------------------------------
(***************************************************************************)
(* The trace of commands that an artifact derives from the truth log.      *)
(***************************************************************************)
Tracing == INSTANCE FoldLaws WITH Op <- LAMBDA p, acc, ev : Traced(acc, ev)
NoTrace == [pending |-> <<>>, seen |-> {}, trace |-> <<>>, odd |-> FALSE]
Traces(log) == Derivation(Chained(log))

(* deriveCommandTraceDetailed goes through the events from the first to    *)
(* the last.                                                               *)
LEMMA DerivationIsFold ==
  ASSUME NEW events
  PROVE  Derivation(events) = Tracing!Fold(0, NoTrace, events)
BY DEF Derivation, NoTrace, Tracing!Fold, Tracing!Highest, FoldLeft, MapThenFoldSet, Max

(* One event more goes into the trace as its envelope.                     *)
LEMMA TracesAppend ==
  ASSUME NEW log, IsSeq(log), NEW ev
  PROVE  \E x : x.kind = ev.kind /\ x.data = ev.data /\ Traces(Append(log, ev)) = Traced(Traces(log), x)
<1> DEFINE c == Chained(log)
           none == <<>>
           longer == Append(log, ev)
<1>1. PICK S : log \in Seq(S)
  BY DEF IsSeq
<1> DEFINE U == S \cup {ev}
<1>2. log \in Seq(U) /\ ev \in U
  BY <1>1
<1> HIDE DEF U
<1>3. \A m : Chained(m) = Linking!Fold(0, none, m)
  BY DEF Chained, Linking!Fold, Linking!Highest, FoldLeft, MapThenFoldSet, Max
<1> HIDE DEF none
<1>4. Linking!Fold(0, none, Append(log, ev)) = Linked(Linking!Fold(0, none, log), ev)
  BY <1>2, Linking!FoldAppend
<1>5. Chained(longer) = Linked(c, ev)
  BY <1>3, <1>4
<1>6. IsSeq(c)
  BY ChainTellsLog
<1> HIDE DEF c, longer
<1> DEFINE prev == IF c = <<>> THEN <<>> ELSE Last(c).hash
           seq == Len(c)
           x == Sealed(ev, seq, prev)
<1>7. Linked(c, ev) = Append(c, x)
  BY LinkedIs
<1> HIDE DEF prev, seq
<1>8. x.kind = ev.kind /\ x.data = ev.data
  BY SealedFields
<1> HIDE DEF x
<1>9. PICK T : c \in Seq(T)
  BY <1>6 DEF IsSeq
<1> DEFINE V == T \cup {x}
<1>10. c \in Seq(V) /\ x \in V
  BY <1>9
<1> HIDE DEF V
<1>11. Tracing!Fold(0, NoTrace, Append(c, x)) = Traced(Tracing!Fold(0, NoTrace, c), x)
  BY <1>10, Tracing!FoldAppend
<1>12. Derivation(Append(c, x)) = Traced(Derivation(c), x)
  BY <1>11, DerivationIsFold
<1>13. Traces(longer) = Traced(Traces(log), x)
  BY <1>5, <1>7, <1>12 DEF Traces, c
<1> QED BY <1>8, <1>13 DEF longer

(* Events that are no commands and no outcomes leave the trace as it is.   *)
LEMMA TracesOther ==
  ASSUME NEW log, IsSeq(log), NEW ev, ev.kind # "CommandIssued", ev.kind \notin Outcome
  PROVE  Traces(Append(log, ev)) = Traces(log)
<1>1. PICK x : x.kind = ev.kind /\ x.data = ev.data /\ Traces(Append(log, ev)) = Traced(Traces(log), x)
  BY TracesAppend
<1>2. \A d : Traced(d, x) = d
  BY <1>1 DEF Traced
<1> QED BY <1>1, <1>2

(* Events that are neither an action nor an answer leave the trace as it   *)
(* is.                                                                     *)
LEMMA TracesQuiet ==
  ASSUME NEW log, IsSeq(log), NEW ext, NEW tick, Quiet(ext, tick)
  PROVE  Traces(log \o ext) = Traces(log)
<1> DEFINE N == Len(ext)
           Upto(n) == SubSeq(ext, 1, n)
           T == {n \in Nat : Traces(log \o Upto(n)) = Traces(log)}
<1>1. IsSeq(ext)
  BY DEF Quiet
<1>2. PICK S : ext \in Seq(S)
  BY <1>1 DEF IsSeq
<1>3. N \in Nat /\ DOMAIN ext = 1 .. N
  BY <1>2
<1>4. 0 \in T
  <2>1. Upto(0) = <<>>
    BY <1>2
  <2>2. log \o <<>> = log
    BY SeqAppend, SeqShort
  <2> QED BY <2>1, <2>2
<1>5. ASSUME NEW n \in 0 .. N - 1, n \in T PROVE n + 1 \in T
  <2> DEFINE m == SubSeq(ext, 1, n)
             x == ext[n + 1]
  <2>1. n \in Nat /\ n + 1 \in 1 .. N /\ n + 1 \in Nat
    BY <1>3
  <2>2. SubSeq(ext, 1, n + 1) = Append(m, x) /\ m \in Seq(S)
    BY <1>2, <2>1
  <2>3. IsSeq(m)
    BY <2>2 DEF IsSeq
  <2>4. x.kind \notin Apart
    BY <1>3, <2>1 DEF Quiet
  <2> HIDE DEF m, x
  <2> DEFINE j == log \o m
  <2>a. log \o Append(m, x) = Append(j, x)
    BY <2>3, SeqAppend
  <2>b. IsSeq(j)
    BY <2>3, SeqAppend
  <2>5. log \o Append(m, x) = Append(log \o m, x) /\ IsSeq(log \o m)
    BY <2>a, <2>b
  <2>6. Traces(Append(log \o m, x)) = Traces(log \o m)
    BY <2>4, <2>5, TracesOther DEF Apart, Outcome
  <2>7. Traces(log \o m) = Traces(log)
    BY <1>5 DEF m
  <2>8. Traces(log \o Upto(n + 1)) = Traces(log)
    BY <2>2, <2>5, <2>6, <2>7
  <2> QED BY <2>1, <2>8
<1>6. \A n \in 0 .. N : n \in T
  <2> HIDE DEF T
  <2> QED BY <1>3, <1>4, <1>5, Tracing!UpTo
<1>7. N \in T
  BY <1>3, <1>6
<1>8. Upto(N) = ext
  BY <1>2
<1> QED BY <1>7, <1>8

(* All of k commands are in the trace d with their outcomes. *)
AllAnswered(d, k) ==
  /\ d = [pending |-> d.pending, seen |-> d.seen, trace |-> d.trace, odd |-> FALSE]
  /\ DOMAIN d.pending = {} /\ d.seen \subseteq 1 .. k /\ IsSeq(d.trace)
  /\ \A m \in DOMAIN d.trace : d.trace[m].issued.id \in 1 .. k

(* A command under the next id and its outcome make one entry more.        *)
LEMMA AnsweredMore ==
  ASSUME NEW d, NEW k \in Nat, AllAnswered(d, k), NEW x, x.kind = "CommandIssued", x.data.id = k + 1,
         NEW y, y.kind \in Outcome, y.data.id = k + 1
  PROVE  LET e == Traced(Traced(d, x), y)
         IN  /\ AllAnswered(e, k + 1)
             /\ e.trace = Append(d.trace, [seq |-> x.seq, issued |-> x.data,
                                           outcome |-> y.kind, answer |-> y.data])
<1> DEFINE id == k + 1
           P == [i \in DOMAIN d.pending \cup {id} |-> IF i = id THEN x ELSE d.pending[i]]
           f == Traced(d, x)
           e == Traced(f, y)
           z == [seq |-> x.seq, issued |-> x.data, outcome |-> y.kind, answer |-> y.data]
           w == d.trace
           l == Append(w, z)
           seen == d.seen
<1>1. ~(id \in seen) /\ seen \cup {id} \subseteq 1 .. id /\ id \in Nat /\ id \in 1 .. id
  BY DEF AllAnswered
<1>2. d = [pending |-> d.pending, seen |-> seen, trace |-> w, odd |-> FALSE]
  BY DEF AllAnswered
<1>3. DOMAIN P = {id} /\ P[id] = x
  BY DEF AllAnswered
<1>4. IsSeq(w) /\ \A m \in DOMAIN w : w[m].issued.id \in 1 .. k
  BY DEF AllAnswered
<1> DEFINE pending == d.pending
           no == FALSE
           odd == d.odd \/ id \in seen
<1>5. odd = no /\ d = [pending |-> pending, seen |-> seen, trace |-> w, odd |-> no]
  <2>1. d.odd = FALSE
    BY <1>2
  <2> QED BY <1>1, <1>2, <2>1
<1>6. f = Await(d, x)
  BY DEF Traced, Outcome
<1>7. f = [pending |-> P, seen |-> seen \cup {id}, trace |-> w, odd |-> no]
  <2>1. f = [d EXCEPT !.odd = odd, !.seen = seen \cup {id}, !.pending = P]
    <3>1. x.data.id = id
      OBVIOUS
    <3> HIDE DEF id, f
    <3> QED BY <1>6, <3>1 DEF Await
  <2>2. f = [d EXCEPT !.odd = no, !.seen = seen \cup {id}, !.pending = P]
    BY <1>5, <2>1
  <2> HIDE DEF P, w, seen, no, pending, odd, f
  <2> QED BY <1>5, <2>2
<1> HIDE DEF P, w, seen, no, pending, odd
<1>8. f.pending = P /\ f.seen = seen \cup {id} /\ f.trace = w /\ f.odd = no
  BY <1>7
<1> HIDE DEF f
<1>9. e = [f EXCEPT !.pending = Without(@, id), !.trace = Append(@, z)]
  <2>1. y.data.id \in DOMAIN f.pending /\ f.pending[y.data.id] = x
    BY <1>3, <1>8
  <2>2. y.kind # "CommandIssued"
    BY DEF Outcome
  <2>3. e = Settle(f, y)
    BY <2>1, <2>2 DEF Traced
  <2> QED BY <2>1, <2>3 DEF Settle
<1> DEFINE none == Without(P, id)
<1>10. DOMAIN none = {}
  BY <1>3 DEF Without
<1> HIDE DEF none, z, e
<1>11. e = [pending |-> none, seen |-> seen \cup {id}, trace |-> Append(w, z), odd |-> no]
  BY <1>7, <1>9 DEF none
<1>12. e.pending = none /\ e.seen = seen \cup {id} /\ e.trace = Append(w, z) /\ e.odd = no
  BY <1>11
<1>13. z.issued.id = id
  BY DEF z
<1>14. IsSeq(Append(w, z))
  BY <1>4, SeqAppend
<1>15. \A m \in DOMAIN Append(w, z) : Append(w, z)[m].issued.id \in 1 .. id
  <2>1. PICK S : w \in Seq(S)
    BY <1>4 DEF IsSeq
  <2>2. /\ DOMAIN w = 1 .. Len(w) /\ Len(w) \in Nat /\ DOMAIN Append(w, z) = 1 .. Len(w) + 1
        /\ Append(w, z)[Len(w) + 1] = z /\ \A m \in 1 .. Len(w) : Append(w, z)[m] = w[m]
    BY <2>1
  <2>3. ASSUME NEW m \in 1 .. Len(w) + 1 PROVE Append(w, z)[m].issued.id \in 1 .. id
    <3>1. CASE m = Len(w) + 1
      BY <1>1, <1>13, <2>2, <3>1
    <3>2. CASE m \in 1 .. Len(w)
      <4>1. w[m].issued.id \in 1 .. k
        BY <1>4, <2>2, <3>2
      <4> QED BY <2>2, <3>2, <4>1
    <3> QED BY <2>2, <2>3, <3>1, <3>2
  <2> QED BY <2>2, <2>3
<1>16. AllAnswered(e, id)
  <2> HIDE DEF id
  <2> QED BY <1>1, <1>10, <1>11, <1>12, <1>14, <1>15 DEF AllAnswered, no
<1> QED BY <1>12, <1>16 DEF e, f, z, w

(* A command answered by an engine with none open is one entry more.       *)
LEMMA TracesCommand ==
  ASSUME NEW e, IsEngine(e), e.commands \in Nat, AllAnswered(Traces(e.log), e.commands),
         NEW c, NEW key, NEW a, Submitted(e, c, key, a)
  PROVE  /\ a.engine.commands = e.commands + 1
         /\ AllAnswered(Traces(a.engine.log), e.commands + 1)
         /\ \E z : /\ Traces(a.engine.log).trace = Append(Traces(e.log).trace, z)
                   /\ z.issued.id = e.commands + 1 /\ z.issued.key = key
                   /\ (z.outcome = "CommandAccepted") = a.accepted
<1> DEFINE k == e.commands
           id == k + 1
           i == Asking(e, c, key)
           data == Asked(e, c, key)
           ev == Event("CommandIssued", e.tick, data)
           l == e.log
           opened == Append(l, ev)
           d == Traces(l)
<1>1. i.log = opened /\ i.commands = id /\ Responds(i, id, a)
  BY DEF Submitted
<1>2. data.id = id /\ data.key = key
  BY DEF Asked
<1> HIDE DEF data
<1>3. ev.kind = "CommandIssued" /\ ev.data = data
  BY DEF Event
<1>4. IsSeq(l) /\ k \in Nat /\ AllAnswered(d, k)
  BY DEF IsEngine
<1> HIDE DEF ev, i, l, k
<1>5. IsSeq(opened)
  BY <1>4, SeqAppend
<1>6. PICK x : x.kind = "CommandIssued" /\ x.data = data /\ Traces(opened) = Traced(d, x)
  <2>1. PICK x : x.kind = ev.kind /\ x.data = ev.data /\ Traces(Append(l, ev)) = Traced(Traces(l), x)
    BY <1>4, TracesAppend
  <2> QED BY <1>3, <2>1
<1> HIDE DEF d, opened
<1>7. /\ a.engine.commands = id /\ a.accepted \in BOOLEAN
      /\ \E q, r, told : /\ Quiet(q, i.tick) /\ Quiet(r, i.tick) /\ told.id = id
                         /\ a.engine.log = Append(opened \o q, Event(OutcomeOf(a), i.tick, told)) \o r
  BY <1>1 DEF Responds
<1>8. PICK q, r, told : /\ Quiet(q, i.tick) /\ Quiet(r, i.tick) /\ told.id = id
                        /\ a.engine.log = Append(opened \o q, Event(OutcomeOf(a), i.tick, told)) \o r
  BY <1>7
<1> DEFINE out == Event(OutcomeOf(a), i.tick, told)
           before == opened \o q
           closed == Append(before, out)
<1>9. out.kind = OutcomeOf(a) /\ out.data = told
  BY DEF Event
<1> HIDE DEF out, id
<1>10. IsSeq(before) /\ IsSeq(closed)
  <2>1. IsSeq(q)
    BY <1>8 DEF Quiet
  <2>2. IsSeq(before)
    BY <1>5, <2>1, SeqAppend
  <2> HIDE DEF before
  <2> QED BY <2>2, SeqAppend
<1>11. Traces(before) = Traced(d, x)
  BY <1>5, <1>6, <1>8, TracesQuiet
<1> HIDE DEF before
<1>12. PICK y : y.kind = out.kind /\ y.data = out.data /\ Traces(closed) = Traced(Traces(before), y)
  BY <1>10, TracesAppend
<1> HIDE DEF closed
<1>13. a.engine.log = closed \o r
  BY <1>8 DEF closed, before, out
<1>14. Traces(closed \o r) = Traces(closed)
  BY <1>8, <1>10, TracesQuiet
<1> DEFINE f == Traced(Traced(d, x), y)
<1>15. Traces(a.engine.log) = f
  BY <1>11, <1>12, <1>13, <1>14
<1>16. y.kind \in Outcome /\ y.data.id = id /\ x.data.id = id
  BY <1>2, <1>6, <1>8, <1>9, <1>12 DEF OutcomeOf, Outcome
<1> DEFINE z == [seq |-> x.seq, issued |-> x.data, outcome |-> y.kind, answer |-> y.data]
<1>17. AllAnswered(f, id) /\ f.trace = Append(d.trace, z)
  <2>1. /\ k \in Nat /\ AllAnswered(d, k) /\ x.kind = "CommandIssued" /\ x.data.id = k + 1
        /\ y.kind \in Outcome /\ y.data.id = k + 1
    BY <1>4, <1>6, <1>16 DEF id
  <2> HIDE DEF z
  <2>2. AllAnswered(f, k + 1)
    BY <2>1, AnsweredMore
  <2>3. f.trace = Append(d.trace, z)
    BY <2>1, AnsweredMore DEF z
  <2> QED BY <2>2, <2>3 DEF id
<1>18. z.issued.id = id /\ z.issued.key = key /\ z.outcome = OutcomeOf(a)
  BY <1>2, <1>6, <1>9, <1>12
<1>19. (z.outcome = "CommandAccepted") = a.accepted
  <2>1. CASE a.accepted = TRUE
    BY <1>18, <2>1 DEF OutcomeOf
  <2>2. CASE a.accepted = FALSE
    BY <1>18, <2>2 DEF OutcomeOf
  <2> QED BY <1>7, <2>1, <2>2
<1> HIDE DEF z, f
<1> QED BY <1>7, <1>15, <1>17, <1>18, <1>19 DEF id, k, d, l

(* What players were told of a command is what the trace has of it. *)
Bears(trace, data) ==
  /\ \E m \in DOMAIN trace : trace[m].issued.id = data.id
  /\ \A m \in DOMAIN trace : trace[m].issued.id = data.id =>
       (trace[m].outcome = "CommandAccepted") = data.accepted /\ trace[m].issued.key = data.key
ToldRight(log, trace) ==
  \A n \in DOMAIN log : log[n].kind = "CommandResult" => Bears(trace, log[n].data)
Accounted(r) ==
  LET d == Traces(r.engine.log)
  IN  /\ r.engine.commands \in Nat /\ AllAnswered(d, r.engine.commands)
      /\ ToldRight(r.bridge.log, d.trace)

(* An entry under a new id does not disturb what is borne.                 *)
LEMMA BearsMore ==
  ASSUME NEW trace, IsSeq(trace), NEW k \in Nat, \A m \in DOMAIN trace : trace[m].issued.id \in 1 .. k,
         NEW z, z.issued.id = k + 1, NEW data
  PROVE  /\ Bears(trace, data) => Bears(Append(trace, z), data)
         /\ data.id = k + 1 /\ data.key = z.issued.key
              /\ (z.outcome = "CommandAccepted") = data.accepted => Bears(Append(trace, z), data)
<1> DEFINE w == Append(trace, z)
           N == Len(trace)
<1>1. PICK S : trace \in Seq(S)
  BY DEF IsSeq
<1>2. /\ DOMAIN trace = 1 .. N /\ N \in Nat /\ DOMAIN w = 1 .. N + 1
      /\ w[N + 1] = z /\ \A m \in 1 .. N : w[m] = trace[m]
  BY <1>1
<1> HIDE DEF w, N
<1>3. ~(k + 1 \in 1 .. k) /\ N + 1 \in 1 .. N + 1 /\ \A m \in 1 .. N : m \in 1 .. N + 1
  BY <1>2
<1>4. ASSUME Bears(trace, data) PROVE Bears(w, data)
  <2>1. PICK m \in DOMAIN trace : trace[m].issued.id = data.id
    BY <1>4 DEF Bears
  <2>2. m \in DOMAIN w /\ w[m].issued.id = data.id /\ data.id \in 1 .. k
    BY <1>2, <1>3, <2>1
  <2>3. ASSUME NEW n \in DOMAIN w, w[n].issued.id = data.id
        PROVE  (w[n].outcome = "CommandAccepted") = data.accepted /\ w[n].issued.key = data.key
    <3>1. n # N + 1
      BY <1>2, <1>3, <2>2, <2>3
    <3>2. n \in DOMAIN trace /\ w[n] = trace[n]
      BY <1>2, <3>1
    <3> QED BY <1>4, <2>3, <3>2 DEF Bears
  <2> QED BY <2>2, <2>3 DEF Bears
<1>5. ASSUME data.id = k + 1, data.key = z.issued.key, (z.outcome = "CommandAccepted") = data.accepted
      PROVE  Bears(w, data)
  <2>1. N + 1 \in DOMAIN w /\ w[N + 1].issued.id = data.id
    BY <1>2, <1>3, <1>5
  <2>2. ASSUME NEW n \in DOMAIN w, w[n].issued.id = data.id
        PROVE  (w[n].outcome = "CommandAccepted") = data.accepted /\ w[n].issued.key = data.key
    <3>1. CASE n = N + 1
      BY <1>2, <1>5, <3>1
    <3>2. CASE n \in 1 .. N
      BY <1>2, <1>3, <1>5, <2>2, <3>2
    <3> QED BY <1>2, <3>1, <3>2
  <2> QED BY <2>1, <2>2 DEF Bears
<1> QED BY <1>4, <1>5 DEF w

(* More told quietly, or one thing more.                                   *)
LEMMA ToldRightOn ==
  ASSUME NEW b, IsBridge(b), NEW r, NEW tick, Telling(b, r, tick), NEW trace, ToldRight(b.log, trace)
  PROVE  ToldRight(r.log, trace)
<1>1. PICK ext : Quiet(ext, tick) /\ r.log = b.log \o ext
  BY DEF Telling
<1> DEFINE w == b.log
           both == w \o ext
           M == Len(w)
           N == Len(ext)
<1>2. IsSeq(w) /\ IsSeq(ext) /\ r.log = both /\ ToldRight(w, trace)
  BY <1>1 DEF IsBridge, Quiet
<1> HIDE DEF w
<1>3. /\ M \in Nat /\ N \in Nat /\ DOMAIN w = 1 .. M /\ DOMAIN ext = 1 .. N
      /\ DOMAIN both = 1 .. M + N
      /\ \A n \in 1 .. M : both[n] = w[n]
      /\ \A n \in 1 .. N : both[M + n] = ext[n]
  BY <1>2, SeqParts
<1> HIDE DEF both, M, N
<1>4. ASSUME NEW n \in DOMAIN both, both[n].kind = "CommandResult" PROVE Bears(trace, both[n].data)
  <2>1. CASE n \in 1 .. M
    BY <1>2, <1>3, <1>4, <2>1 DEF ToldRight
  <2>2. CASE n \in M + 1 .. M + N
    <3>1. n - M \in 1 .. N /\ M + (n - M) = n
      BY <1>3, <2>2
    <3>2. both[n] = ext[n - M] /\ n - M \in DOMAIN ext
      BY <1>3, <3>1
    <3> QED BY <1>1, <1>4, <3>2 DEF Quiet, Apart
  <2> QED BY <1>3, <2>1, <2>2
<1>5. ToldRight(both, trace)
  BY <1>4 DEF ToldRight
<1> QED BY <1>2, <1>5

(* An event more on the players' log: it is told right when its result, if *)
(* it tells one, is borne by the trace.                                    *)
LEMMA ToldRightThen ==
  ASSUME NEW b, IsBridge(b), NEW r, NEW ev, Spoken(b, r, ev), NEW trace, ToldRight(b.log, trace),
         ev.kind = "CommandResult" => Bears(trace, ev.data)
  PROVE  ToldRight(r.log, trace)
<1> DEFINE w == b.log
           l == Append(w, ev)
           N == Len(w)
<1>1. IsSeq(w) /\ r.log = l /\ ToldRight(w, trace)
  BY DEF IsBridge, Spoken
<1> HIDE DEF w
<1>2. PICK S : w \in Seq(S)
  BY <1>1 DEF IsSeq
<1>3. /\ DOMAIN w = 1 .. N /\ N \in Nat /\ DOMAIN l = 1 .. N + 1
      /\ l[N + 1] = ev /\ \A m \in 1 .. N : l[m] = w[m]
  BY <1>2
<1> HIDE DEF l, N
<1>4. ASSUME NEW n \in DOMAIN l, l[n].kind = "CommandResult" PROVE Bears(trace, l[n].data)
  <2>1. CASE n \in 1 .. N
    BY <1>1, <1>3, <1>4, <2>1 DEF ToldRight
  <2>2. CASE n = N + 1
    BY <1>3, <1>4, <2>2
  <2> QED BY <1>3, <2>1, <2>2
<1>5. ToldRight(l, trace)
  BY <1>4 DEF ToldRight
<1> QED BY <1>1, <1>5

(* A fresh session.                                                        *)
LEMMA AccountedStart ==
  ASSUME NEW seed
  PROVE  Accounted(Started(FreshEngine(seed)))
<1> DEFINE e == FreshEngine(seed)
           r == Started(e)
           g == Genesis(seed)
           none == <<>>
           d == NoTrace
           log == <<g>>
<1>1. /\ Traceable(e) /\ e.log = log /\ e.commands = 0
  BY TraceableFresh
<1>2. r.engine = e
  BY <1>1, StartedIsRun DEF Traceable
<1>3. \A n \in DOMAIN r.bridge.log : r.bridge.log[n].kind # "CommandResult"
  BY PresentedStart
<1> HIDE DEF e, r
<1>4. g.kind = "ScenarioStarted"
  BY DEF Genesis, Event
<1> HIDE DEF g
<1>5. Chained(none) = none
  <2>1. Chained(none) = Linking!Fold(0, none, none)
    BY DEF Chained, Linking!Fold, Linking!Highest, FoldLeft, MapThenFoldSet, Max
  <2> QED BY <2>1, Linking!FoldEmpty
<1>6. Traces(none) = d
  <2>1. Derivation(none) = Tracing!Fold(0, NoTrace, none)
    BY DerivationIsFold
  <2>2. Tracing!Fold(0, NoTrace, none) = NoTrace
    BY Tracing!FoldEmpty
  <2> QED BY <1>5, <2>1, <2>2 DEF Traces
<1>7. IsSeq(none) /\ log = Append(none, g)
  <2>1. log = Append(none, g)
    OBVIOUS
  <2> QED BY <2>1, SeqShort
<1>8. Traces(log) = d
  BY <1>4, <1>6, <1>7, TracesOther DEF Outcome
<1>9. AllAnswered(d, 0)
  <2>1. d.pending = none /\ d.seen = {} /\ d.trace = none
    BY DEF NoTrace
  <2>2. d = [pending |-> d.pending, seen |-> d.seen, trace |-> d.trace, odd |-> FALSE]
    BY DEF NoTrace
  <2>3. DOMAIN none = {}
    OBVIOUS
  <2> HIDE DEF d, none
  <2> QED BY <1>7, <2>1, <2>2, <2>3 DEF AllAnswered
<1>10. 0 \in Nat /\ r.engine.commands = 0 /\ Traces(r.engine.log) = d
  BY <1>1, <1>2, <1>8
<1> HIDE DEF d
<1>11. ToldRight(r.bridge.log, d.trace)
  BY <1>3 DEF ToldRight
<1> QED BY <1>9, <1>10, <1>11 DEF Accounted, r, e

(* A tick adds no command and no outcome. *)
LEMMA AccountedTick ==
  ASSUME NEW r, IsRun(r), Traceable(r.engine), r.engine.phase = "running", Accounted(r)
  PROVE  Accounted(Ticked(r))
<1> DEFINE s == Ticked(r)
           e == r.engine
           f == s.engine
           l == e.log
           p == r.bridge
           w == s.bridge
           d == Traces(l)
           M == Scenario.totalTicks
<1>1. IsSeq(<<>>)
  BY SeqShort
<1>2. RanOn(r, s)
  BY <1>1, TickAlike
<1> HIDE DEF s
<1>3. f = StepEngine(e) /\ IsEngine(e) /\ e.phase # "completed" /\ IsSeq(l) /\ IsBridge(p)
  BY <1>2 DEF RanOn, IsRun, IsEngine
<1>4. Stepped(e, f)
  BY <1>1, <1>3, StepAlike
<1>5. PICK b : Telling(p, b, f.tick) /\ w = IF f.tick < M THEN b ELSE Heard(b, Ending(f))
  BY <1>2 DEF RanOn
<1>6. e.commands \in Nat /\ AllAnswered(d, e.commands) /\ ToldRight(p.log, d.trace)
  BY DEF Accounted
<1> HIDE DEF e, f, l, p, w, M
<1>7. f.commands = e.commands /\ \E ext : Quiet(ext, f.tick) /\ Last1(f, l \o ext)
  BY <1>4 DEF Stepped, l
<1>8. PICK ext : Quiet(ext, f.tick) /\ Last1(f, l \o ext)
  BY <1>7
<1> DEFINE both == l \o ext
           end == Ending(f)
<1>9. Traces(both) = d /\ IsSeq(both)
  <2>1. IsSeq(ext)
    BY <1>8 DEF Quiet
  <2> QED BY <1>3, <1>8, <2>1, TracesQuiet, SeqAppend
<1> HIDE DEF d, both
<1>10. end.kind = "ScenarioCompleted"
  BY DEF Ending, Event
<1> HIDE DEF end
<1>11. Traces(Append(both, end)) = Traces(both)
  BY <1>9, <1>10, TracesOther DEF Outcome
<1>12. Traces(f.log) = d
  BY <1>8, <1>9, <1>11 DEF Last1, both, end
<1>13. ToldRight(b.log, d.trace) /\ IsBridge(b)
  <2>1. IsBridge(b)
    BY <1>5 DEF Telling
  <2> QED BY <1>3, <1>5, <1>6, <2>1, ToldRightOn
<1>14. ToldRight(w.log, d.trace)
  <2>1. CASE f.tick < M
    BY <1>5, <1>13, <2>1
  <2>2. CASE ~(f.tick < M)
    <3> DEFINE h == Heard(b, Ending(f))
               t == d.trace
    <3>1. w = h
      BY <1>5, <2>2
    <3>2. PICK ev : Spoken(b, h, ev) /\ IsFarewell(ev, f)
      BY <1>13, HearsEnding
    <3>3. ev.kind # "CommandResult" /\ ToldRight(b.log, t)
      BY <1>13, <3>2 DEF IsFarewell
    <3> HIDE DEF h, t
    <3>4. ToldRight(h.log, t)
      BY <1>13, <3>2, <3>3, ToldRightThen
    <3> QED BY <3>1, <3>4 DEF t
  <2> QED BY <2>1, <2>2
<1>15. f = s.engine /\ w = s.bridge
  BY DEF f, w
<1> QED BY <1>6, <1>7, <1>12, <1>14, <1>15 DEF Accounted, s

(* A command adds its own. *)
LEMMA AccountedHandled ==
  ASSUME NEW r, IsRun(r), Traceable(r.engine), r.engine.phase = "running", Accounted(r),
         NEW c, c.name \in CommandName, NEW key, NEW s, HandledOn(r, s, c, key)
  PROVE  Accounted(s)
<1> DEFINE e == r.engine
           a == Submit(e, c, key)
           f == s.engine
           k == e.commands
           p == r.bridge
           w == s.bridge
           d == Traces(e.log)
           old == d.trace
           g == Traces(f.log)
           tick == e.tick
<1>1. IsSeq(<<>>)
  BY SeqShort
<1>2. IsEngine(e) /\ e.phase # "completed" /\ IsBridge(p)
  BY DEF IsRun
<1>3. Submitted(e, c, key, a)
  BY <1>1, <1>2, SubmitAlike
<1>4. f = a.engine
  BY DEF HandledOn
<1>5. PICK b, data : /\ Telling(p, b, tick) /\ Spoken(b, w, Event("CommandResult", tick, data))
                     /\ data.id = a.id /\ data.key = key /\ data.accepted = a.accepted
  BY DEF HandledOn
<1>6. k \in Nat /\ AllAnswered(d, k) /\ ToldRight(p.log, old)
  BY DEF Accounted
<1>7. a.id = k + 1
  BY <1>3 DEF Submitted, Responds
<1> HIDE DEF a
<1>8. /\ a.engine.commands = k + 1 /\ AllAnswered(Traces(a.engine.log), k + 1)
      /\ \E z : /\ Traces(a.engine.log).trace = Append(old, z)
                /\ z.issued.id = k + 1 /\ z.issued.key = key
                /\ (z.outcome = "CommandAccepted") = a.accepted
  BY <1>2, <1>3, <1>6, TracesCommand
<1>9. PICK z : /\ g.trace = Append(old, z)
               /\ z.issued.id = k + 1 /\ z.issued.key = key
               /\ (z.outcome = "CommandAccepted") = a.accepted
  BY <1>4, <1>8
<1>10. IsSeq(old) /\ \A m \in DOMAIN old : old[m].issued.id \in 1 .. k
  BY <1>6 DEF AllAnswered
<1>11. f.commands = k + 1 /\ AllAnswered(g, k + 1)
  BY <1>4, <1>8
<1> DEFINE ev == Event("CommandResult", tick, data)
           new == Append(old, z)
<1>12. ev.kind = "CommandResult" /\ ev.data = data /\ Spoken(b, w, ev) /\ IsBridge(b)
  <2>1. Spoken(b, w, ev) /\ IsBridge(b)
    BY <1>5 DEF Telling
  <2>2. ev.kind = "CommandResult" /\ ev.data = data
    BY DEF Event
  <2> QED BY <2>1, <2>2
<1> HIDE DEF ev, old, d, f, k, p, w, tick
<1>13. ToldRight(b.log, old)
  BY <1>2, <1>5, <1>6, ToldRightOn
<1>14. ToldRight(b.log, new)
  <2>1. ASSUME NEW n \in DOMAIN b.log, b.log[n].kind = "CommandResult"
        PROVE  Bears(new, b.log[n].data)
    <3> DEFINE x == b.log[n].data
    <3>1. Bears(old, x)
      BY <1>13, <2>1 DEF ToldRight
    <3> HIDE DEF x
    <3>2. Bears(new, x)
      BY <1>6, <1>9, <1>10, <3>1, BearsMore
    <3> QED BY <3>2 DEF x
  <2> HIDE DEF new
  <2> QED BY <2>1 DEF ToldRight
<1>15. Bears(new, data)
  <2>1. data.id = k + 1 /\ data.key = z.issued.key /\ (z.outcome = "CommandAccepted") = data.accepted
    BY <1>5, <1>7, <1>9
  <2> QED BY <1>6, <1>9, <1>10, <2>1, BearsMore
<1> HIDE DEF new
<1>16. ToldRight(w.log, new)
  BY <1>12, <1>14, <1>15, ToldRightThen
<1>17. g.trace = new
  BY <1>9 DEF new
<1> HIDE DEF g
<1>18. ToldRight(w.log, g.trace)
  BY <1>16, <1>17
<1>19. k + 1 \in Nat
  BY <1>6
<1> QED BY <1>11, <1>18, <1>19 DEF Accounted, w, f, g

(* An assessment has no part in it.                                        *)
LEMMA AccountedAssessed ==
  ASSUME NEW r, IsRun(r), Accounted(r), NEW x
  PROVE  Accounted(AssessedIn(r, x))
<1> DEFINE s == AssessedIn(r, x)
           e == r.engine
           ev == Event("AssessmentSubmitted", e.tick, x)
           p == r.bridge
           w == s.bridge
           t == Traces(e.log).trace
<1>1. s.engine = e /\ Spoken(p, w, ev)
  BY AssessedAlike
<1> HIDE DEF s
<1>2. ev.kind # "CommandResult"
  BY DEF Event
<1>3. IsBridge(p) /\ ToldRight(p.log, t)
  BY DEF IsRun, Accounted
<1> HIDE DEF ev, p, w, t
<1>4. ToldRight(w.log, t)
  BY <1>1, <1>2, <1>3, ToldRightThen
<1>5. Accounted(s)
  BY <1>1, <1>4 DEF Accounted, w, t
<1> QED BY <1>5 DEF s

----------------------------------------------------------------------------
(***************************************************************************)
(* What a verifier finds in the logs of a session that was never           *)
(* restarted.                                                              *)
(***************************************************************************)
AreActions(actions) == IsSeq(actions) /\ \A n \in DOMAIN actions : IsAction(actions[n])
ShownInv ==
  /\ AreActions(ledger)
  /\ Fresh => Presented(run.bridge, run.engine) /\ Accounted(run)

(* One action more.                                                        *)
LEMMA ActionsAppend ==
  ASSUME NEW actions, AreActions(actions), NEW action, IsAction(action)
  PROVE  AreActions(Append(actions, action))
<1> DEFINE N == Len(actions)
           l == Append(actions, action)
<1>1. PICK S : actions \in Seq(S)
  BY DEF AreActions, IsSeq
<1>2. /\ DOMAIN actions = 1 .. N /\ N \in Nat /\ DOMAIN l = 1 .. N + 1
      /\ l[N + 1] = action /\ \A m \in 1 .. N : l[m] = actions[m]
  BY <1>1
<1>3. IsSeq(l)
  <2>1. IsSeq(actions)
    BY DEF AreActions
  <2> QED BY <2>1, SeqAppend
<1> HIDE DEF l, N
<1>4. ASSUME NEW n \in DOMAIN l PROVE IsAction(l[n])
  <2>1. CASE n = N + 1
    BY <1>2, <2>1
  <2>2. CASE n \in 1 .. N
    BY <1>2, <2>2 DEF AreActions
  <2> QED BY <1>2, <2>1, <2>2
<1> QED BY <1>3, <1>4 DEF AreActions, l

(* The session starts with it.                                             *)
LEMMA ShownInit == RecordInit => ShownInv
<1> SUFFICES ASSUME RecordInit PROVE ShownInv
  OBVIOUS
<1>1. PICK seed \in Seeds : run = Started(FreshEngine(seed))
  BY DEF RecordInit
<1>2. ledger = <<>>
  BY DEF RecordInit
<1>3. AreActions(ledger)
  <2> DEFINE none == <<>>
  <2>1. IsSeq(none)
    BY SeqShort
  <2>2. DOMAIN none = {}
    OBVIOUS
  <2> QED BY <1>2, <2>1, <2>2 DEF AreActions
<1>4. LET r == Started(FreshEngine(seed)) IN Presented(r.bridge, r.engine)
  BY PresentedStart
<1>5. Accounted(Started(FreshEngine(seed)))
  BY AccountedStart
<1> QED BY <1>1, <1>3, <1>4, <1>5 DEF ShownInv

(* Handling a request keeps what is said of the logs.                      *)
LEMMA ShownHandled ==
  ASSUME NEW r, IsRun(r), Traceable(r.engine), r.engine.phase = "running",
         Presented(r.bridge, r.engine), Accounted(r),
         NEW c, c.name \in CommandName, NEW key, NEW request
  PROVE  LET s == Handled(r, c, key, request)
         IN  Presented(s.bridge, s.engine) /\ Accounted(s)
<1> DEFINE s == Handled(r, c, key, request)
           l == <<>>
<1>1. IsSeq(l)
  BY SeqShort
<1>2. Twins(c, c)
  BY TwinsSelf
<1>3. r.engine.phase # "completed"
  OBVIOUS
<1> HIDE DEF l
<1>4. HandledOn(r, s, c, key)
  BY <1>1, <1>2, <1>3, HandledAlike
<1> HIDE DEF s
<1>5. Presented(s.bridge, s.engine)
  BY <1>4, PresentedHandled
<1>6. Accounted(s)
  BY <1>4, AccountedHandled
<1> QED BY <1>5, <1>6 DEF s

(* Every step keeps it.                                                    *)
LEMMA ShownStep ==
  ASSUME EngineInv, LedgerInv, ShownInv, [RecordNext]_recordVars
  PROVE  ShownInv'
<1>0. /\ IsRun(run) /\ Traceable(run.engine) /\ restarts \in Nat /\ run.engine.tick \in Nat
      /\ AreActions(ledger)
      /\ Fresh => Presented(run.bridge, run.engine) /\ Accounted(run)
  BY DEF EngineInv, LedgerInv, ShownInv, Traceable, IsEngine
<1>1. CASE Advance
  <2>1. /\ run' = Ticks(run, 1) /\ ledger' = ledger /\ restarts' = restarts
        /\ run.engine.phase = "running"
    BY <1>1 DEF Advance, Running
  <2>2. Ticks(run, 1) = Ticked(run)
    <3>1. 0 \in Nat /\ 0 + 1 = 1
      OBVIOUS
    <3>2. Ticks(run, 0) = run /\ Ticks(run, 0 + 1) = Ticked(Ticks(run, 0))
      BY <3>1, TicksMore
    <3> QED BY <3>1, <3>2
  <2>3. ASSUME Fresh PROVE Presented(run'.bridge, run'.engine) /\ Accounted(run')
    <3>1. Presented(Ticked(run).bridge, Ticked(run).engine)
      BY <1>0, <2>1, <2>3, PresentedTick
    <3>2. Accounted(Ticked(run))
      BY <1>0, <2>1, <2>3, AccountedTick
    <3> QED BY <2>1, <2>2, <3>1, <3>2
  <2> QED BY <1>0, <2>1, <2>3 DEF ShownInv, Fresh
<1>2. ASSUME NEW r \in Requests, NEW key \in Keys, Command(r, key) PROVE ShownInv'
  <2> DEFINE action == Action(r.name, r.params, key)
             s == Handled(run, r, key, NoClaim)
  <2>1. /\ run' = s /\ ledger' = Append(ledger, action) /\ restarts' = restarts
        /\ run.engine.phase = "running" /\ r.name \in CommandName
    BY <1>2, RecordAssumption DEF Command, Running
  <2>2. IsAction(action)
    BY <1>0, <2>1 DEF Action, IsAction
  <2> HIDE DEF action
  <2>3. AreActions(ledger')
    BY <1>0, <2>1, <2>2, ActionsAppend
  <2>4. ASSUME Fresh PROVE Presented(s.bridge, s.engine) /\ Accounted(s)
    BY <1>0, <2>1, <2>4, ShownHandled
  <2> HIDE DEF s
  <2> QED BY <2>1, <2>3, <2>4 DEF ShownInv, Fresh
<1>3. ASSUME NEW r \in Requests, NEW key \in Keys, Verify(r, key) PROVE ShownInv'
  <2> DEFINE claim == r.params.claim
             c == [name |-> r.name,
                   params |-> Targeting(r.params.team, Where(claim), r.params.more)]
             action == Action(r.name, Recorded(r.params), key)
             s == Handled(run, c, key, claim)
  <2>1. /\ run' = s /\ ledger' = Append(ledger, action) /\ restarts' = restarts
        /\ run.engine.phase = "running" /\ r.name \in CommandName
    BY <1>3, RecordAssumption DEF Verify, Running
  <2>2. IsAction(action)
    BY <1>0, <2>1 DEF Action, IsAction
  <2> HIDE DEF action
  <2>3. AreActions(ledger')
    BY <1>0, <2>1, <2>2, ActionsAppend
  <2>4. c.name \in CommandName
    BY <2>1
  <2> HIDE DEF c, claim
  <2>5. ASSUME Fresh PROVE Presented(s.bridge, s.engine) /\ Accounted(s)
    BY <1>0, <2>1, <2>4, <2>5, ShownHandled
  <2> HIDE DEF s
  <2> QED BY <2>1, <2>3, <2>5 DEF ShownInv, Fresh
<1>4. ASSUME NEW c \in Claim, NEW probability \in Beliefs, Assess(c, probability) PROVE ShownInv'
  <2> DEFINE id == Len(run.bridge.log) + 1
             action == [kind |-> "assessment", atTick |-> run.engine.tick,
                        id |-> id, claim |-> c, probability |-> probability]
             x == [id |-> id, claim |-> c, probability |-> probability, at |-> run.engine.tick]
             s == AssessedIn(run, x)
  <2>1. run' = s /\ ledger' = Append(ledger, action) /\ restarts' = restarts
        /\ run.engine.phase = "running"
    BY <1>4 DEF Assess, Running
  <2> HIDE DEF id
  <2>2. IsAction(action)
    BY <1>0 DEF IsAction
  <2> HIDE DEF action, x
  <2>3. AreActions(ledger')
    BY <1>0, <2>1, <2>2, ActionsAppend
  <2>4. ASSUME Fresh PROVE Presented(s.bridge, s.engine) /\ Accounted(s)
    <3>1. Presented(s.bridge, s.engine)
      BY <1>0, <2>1, <2>4, PresentedAssessed
    <3>2. Accounted(s)
      BY <1>0, <2>4, AccountedAssessed
    <3> QED BY <3>1, <3>2
  <2> HIDE DEF s
  <2> QED BY <2>1, <2>3, <2>4 DEF ShownInv, Fresh
<1>5. CASE Save
  BY <1>0, <1>5 DEF Save, ShownInv, Fresh
<1>6. CASE Restart
  <2>1. ledger' = <<>> /\ restarts' = restarts + 1
    BY <1>6 DEF Restart
  <2>2. restarts' # 0
    BY <1>0, <2>1
  <2> DEFINE none == <<>>
  <2>3. IsSeq(none)
    BY SeqShort
  <2>4. DOMAIN none = {}
    OBVIOUS
  <2> QED BY <2>1, <2>2, <2>3, <2>4 DEF ShownInv, Fresh, AreActions
<1>7. CASE UNCHANGED recordVars
  BY <1>0, <1>7 DEF recordVars, ShownInv, Fresh
<1> QED BY <1>1, <1>2, <1>3, <1>4, <1>5, <1>6, <1>7 DEF RecordNext

(* At every moment of a session that was never restarted the player log    *)
(* begins with the start and ends, once the run is over, with what players *)
(* are told of its end; every command has its one outcome in the truth     *)
(* log, and every result that players were given is that outcome, under    *)
(* the key of the command (engine.ts submitCommand, bridge.ts).            *)
THEOREM ShownInvariant == RecordSpec => []ShownInv
<1>1. RecordInit => ShownInv
  BY ShownInit
<1>2. EngineInv /\ LedgerInv /\ ShownInv /\ [RecordNext]_recordVars => ShownInv'
  BY ShownStep
<1> QED BY <1>1, <1>2, EngineInvariant, LedgerInvariant, PTL DEF RecordSpec

----------------------------------------------------------------------------
(***************************************************************************)
(* Every check of the verifier passes for the artifact of such a session.  *)
(***************************************************************************)
(* Sorting by sequence number loses no entry and makes none up.            *)
LEMMA PlacedAdds ==
  ASSUME NEW S, NEW s \in Seq(S), NEW x \in S
  PROVE  Placed(s, x) \in Seq(S) /\ ToSet(Placed(s, x)) = ToSet(s) \cup {x}
<1> DEFINE N == Len(s)
           low == {n \in DOMAIN s : s[n].seq <= x.seq}
           k == Cardinality(low)
           i == k + 1
           front == SubSeq(s, 1, i - 1)
           back == SubSeq(s, i, N)
           new == front \o <<x>> \o back
<1>1. N \in Nat /\ DOMAIN s = 1 .. N
  OBVIOUS
<1>2. k \in 0 .. N
  <2>1. IsFiniteSet(1 .. N) /\ Cardinality(1 .. N) = N
    <3>1. 1 \in Int /\ N \in Int
      BY <1>1
    <3>2. IsFiniteSet(1 .. N) /\ Cardinality(1 .. N) = IF 1 > N THEN 0 ELSE N - 1 + 1
      BY <3>1, FS_Interval
    <3> QED BY <1>1, <3>2
  <2>2. low \in SUBSET (1 .. N)
    BY <1>1
  <2> HIDE DEF low
  <2>3. IsFiniteSet(low) /\ Cardinality(low) <= Cardinality(1 .. N)
    BY <2>1, <2>2, FS_Subset
  <2>4. Cardinality(low) \in Nat
    BY <2>3, FS_CardinalityType
  <2> QED BY <1>1, <2>1, <2>3, <2>4
<1>3. Placed(s, x) = new
  BY DEF Placed, InsertAt
<1> HIDE DEF k
<1>4. i - 1 = k /\ i \in 1 .. N + 1 /\ i \in Nat /\ k \in Nat /\ k <= N
  BY <1>1, <1>2
<1>5. /\ front \in Seq(S) /\ Len(front) = k /\ \A n \in 1 .. k : front[n] = s[n]
      /\ back \in Seq(S) /\ Len(back) = N - k /\ \A n \in 1 .. N - k : back[n] = s[k + n]
  <2>1. front = SubSeq(s, 1, k) /\ back = SubSeq(s, k + 1, N)
    BY <1>4
  <2> HIDE DEF front, back
  <2>2. front \in Seq(S) /\ Len(front) = k /\ \A n \in 1 .. k : front[n] = s[n]
    BY <1>1, <1>4, <2>1
  <2>3. back \in Seq(S) /\ Len(back) = N - k /\ \A n \in 1 .. N - k : back[n] = s[k + n]
    <3> DEFINE j == k + 1
    <3>1. j \in 1 .. N + 1 /\ N - j + 1 = N - k /\ back = SubSeq(s, j, N)
      BY <1>1, <1>4, <2>1
    <3> HIDE DEF j
    <3>2. /\ back \in Seq(S) /\ Len(back) = N - j + 1
          /\ \A n \in 1 .. N - j + 1 : back[n] = s[n + j - 1]
      BY <1>1, <3>1
    <3>3. \A n \in 1 .. N - k : n + j - 1 = k + n
      BY <1>4 DEF j
    <3> QED BY <3>1, <3>2, <3>3
  <2> QED BY <2>2, <2>3
<1> HIDE DEF front, back, i, N
<1> DEFINE head == front \o <<x>>
<1>6. /\ head \in Seq(S) /\ Len(head) = k + 1 /\ head[k + 1] = x
      /\ \A n \in 1 .. k : head[n] = s[n]
  BY <1>4, <1>5
<1> HIDE DEF head
<1>7. /\ new \in Seq(S) /\ DOMAIN new = 1 .. N + 1
      /\ new[k + 1] = x
      /\ \A n \in 1 .. k : new[n] = s[n]
      /\ \A n \in k + 2 .. N + 1 : new[n] = s[n - 1]
  <2>1. new = head \o back
    BY DEF head
  <2> HIDE DEF new
  <2>2. new \in Seq(S) /\ Len(new) = N + 1
    BY <1>1, <1>4, <1>5, <1>6, <2>1
  <2>3. \A n \in 1 .. k + 1 : new[n] = head[n]
    BY <1>1, <1>4, <1>5, <1>6, <2>1
  <2>4. ASSUME NEW n \in k + 2 .. N + 1 PROVE new[n] = s[n - 1]
    <3>1. n - (k + 1) \in 1 .. N - k /\ k + (n - (k + 1)) = n - 1
      BY <1>1, <1>4, <2>4
    <3>2. new[n] = back[n - (k + 1)]
      BY <1>1, <1>4, <1>5, <1>6, <2>1, <2>4
    <3> QED BY <1>5, <3>1, <3>2
  <2>5. k + 1 \in 1 .. k + 1 /\ \A n \in 1 .. k : n \in 1 .. k + 1
    BY <1>4
  <2> QED BY <1>6, <2>2, <2>3, <2>4, <2>5
<1> HIDE DEF new
<1>8. ASSUME NEW y \in ToSet(new) PROVE y \in ToSet(s) \cup {x}
  <2>1. PICK n \in 1 .. N + 1 : y = new[n]
    BY <1>7, <1>8 DEF ToSet
  <2>2. CASE n \in 1 .. k
    <3>1. n \in 1 .. N
      BY <1>1, <1>4, <2>2
    <3> QED BY <1>1, <1>7, <2>1, <2>2, <3>1 DEF ToSet
  <2>3. CASE n = k + 1
    BY <1>7, <2>1, <2>3
  <2>4. CASE n \in k + 2 .. N + 1
    <3>1. n - 1 \in 1 .. N
      BY <1>1, <1>4, <2>4
    <3> QED BY <1>1, <1>7, <2>1, <2>4, <3>1 DEF ToSet
  <2> QED BY <1>1, <1>4, <2>2, <2>3, <2>4
<1>9. ASSUME NEW y \in ToSet(s) PROVE y \in ToSet(new)
  <2>1. PICK n \in 1 .. N : y = s[n]
    BY <1>1, <1>9 DEF ToSet
  <2>2. CASE n \in 1 .. k
    <3>1. n \in 1 .. N + 1
      BY <1>1, <2>1
    <3> QED BY <1>7, <2>1, <2>2, <3>1 DEF ToSet
  <2>3. CASE n \in k + 1 .. N
    <3>1. n + 1 \in k + 2 .. N + 1 /\ n + 1 \in 1 .. N + 1 /\ (n + 1) - 1 = n
      BY <1>1, <1>4, <2>3
    <3>2. new[n + 1] = s[n]
      BY <1>7, <3>1
    <3> QED BY <1>7, <2>1, <3>1, <3>2 DEF ToSet
  <2> QED BY <1>1, <1>4, <2>1, <2>2, <2>3
<1>10. x \in ToSet(new)
  <2>1. k + 1 \in 1 .. N + 1
    BY <1>1, <1>4
  <2> QED BY <1>7, <2>1 DEF ToSet
<1>11. ToSet(new) = ToSet(s) \cup {x}
  BY <1>8, <1>9, <1>10
<1> QED BY <1>3, <1>7, <1>11

Sorting == INSTANCE FoldLaws WITH Op <- LAMBDA p, sorted, x : Placed(sorted, x)

(* The sorted trace holds what was gathered, nothing more.                 *)
LEMMA InOrderKeeps ==
  ASSUME NEW trace, IsSeq(trace)
  PROVE  IsSeq(InOrder(trace)) /\ ToSet(InOrder(trace)) = ToSet(trace)
<1> DEFINE N == Len(trace)
           none == <<>>
           seen(k) == {trace[n] : n \in 1 .. k}
           l == Sorting!Fold(0, none, trace)
<1>1. PICK S : trace \in Seq(S)
  BY DEF IsSeq
<1> DEFINE V == [k \in 0 .. N |-> {s \in Seq(S) : ToSet(s) = seen(k)}]
<1>2. InOrder(trace) = l
  BY DEF InOrder, Sorting!Fold, Sorting!Highest, FoldLeft, MapThenFoldSet, Max
<1>3. N \in Nat /\ DOMAIN trace = 1 .. N /\ \A k \in 1 .. N : trace[k] \in S
  BY <1>1
<1>4. none \in V[0]
  <2>1. ToSet(none) = {}
    BY DEF ToSet
  <2>2. seen(0) = {} /\ none \in Seq(S) /\ 0 \in 0 .. N
    BY <1>3
  <2> QED BY <2>1, <2>2
<1>5. ASSUME NEW k \in 1 .. N, NEW v \in V[k - 1] PROVE Placed(v, trace[k]) \in V[k]
  <2> DEFINE x == trace[k]
  <2>1. k - 1 \in 0 .. N /\ k \in 0 .. N /\ 1 .. k = (1 .. k - 1) \cup {k}
    BY <1>3
  <2>2. v \in Seq(S) /\ ToSet(v) = seen(k - 1) /\ x \in S
    BY <1>3, <1>5, <2>1
  <2>3. seen(k) = seen(k - 1) \cup {x}
    BY <2>1
  <2> HIDE DEF seen, x
  <2>4. Placed(v, x) \in Seq(S) /\ ToSet(Placed(v, x)) = ToSet(v) \cup {x}
    BY <2>2, PlacedAdds
  <2>5. Placed(v, x) \in V[k]
    BY <2>1, <2>2, <2>3, <2>4
  <2> QED BY <2>5 DEF x
<1>6. l \in V[N]
  <2> HIDE DEF V
  <2> QED BY <1>1, <1>4, <1>5, Sorting!FoldClimbs
<1> HIDE DEF l
<1>7. l \in Seq(S) /\ ToSet(l) = seen(N)
  BY <1>3, <1>6
<1>8. seen(N) = ToSet(trace)
  BY <1>3 DEF ToSet
<1> QED BY <1>2, <1>7, <1>8 DEF IsSeq

(* Where an event of a kind stands in a log it stands in its chain.        *)
LEMMA OnceInChain ==
  ASSUME NEW log, IsSeq(log), NEW kind, NEW position \in DOMAIN log,
         \A n \in DOMAIN log : log[n].kind = kind <=> n = position
  PROVE  OnceAt(Chained(log), kind, position)
<1> DEFINE c == Chained(log)
<1>1. /\ IsSeq(c) /\ Len(c) = Len(log)
      /\ \A n \in 1 .. Len(log) : c[n].kind = log[n].kind
  BY ChainTellsLog
<1> HIDE DEF c
<1>2. DOMAIN c = 1 .. Len(log) /\ DOMAIN log = 1 .. Len(log)
  BY <1>1, SeqParts
<1>3. \A n \in DOMAIN c : c[n].kind = kind <=> n = position
  BY <1>1, <1>2
<1>4. {n \in DOMAIN c : c[n].kind = kind} = {position}
  BY <1>2, <1>3
<1> QED BY <1>4 DEF OnceAt, c

(* The first and the last envelope are those of the first and last event. *)
LEMMA EndsOfChain ==
  ASSUME NEW log, IsSeq(log), log # <<>>
  PROVE  LET c == Chained(log)
         IN  /\ Len(c) = Len(log) /\ 1 \in DOMAIN log /\ Len(log) \in DOMAIN log
             /\ c[1].data = log[1].data /\ c[1].session = Session
             /\ Last(c).data = Last(log).data /\ Last(c).tick = Last(log).tick
<1> DEFINE c == Chained(log)
           N == Len(log)
<1>1. /\ IsSeq(c) /\ Len(c) = N
      /\ \A n \in 1 .. N : c[n].tick = log[n].tick /\ c[n].data = log[n].data /\ c[n].session = Session
  BY ChainTellsLog
<1> HIDE DEF c
<1>2. PICK S : log \in Seq(S)
  BY DEF IsSeq
<1>3. N \in Nat /\ N > 0 /\ DOMAIN log = 1 .. N /\ 1 \in 1 .. N /\ N \in 1 .. N
  BY <1>2
<1>4. Last(c) = c[N] /\ Last(log) = log[N]
  BY <1>1 DEF Last
<1> QED BY <1>1, <1>3, <1>4 DEF c

(* The truth log of a completed engine, as the verifier reads it.          *)
LEMMA CompletedTruth ==
  ASSUME NEW e, Traceable(e), e.phase = "completed"
  PROVE  LET t == Chained(e.log)
         IN  /\ e.tick = Scenario.totalTicks /\ IsSeq(e.log)
             /\ ValidStream(t, Session, Tip(t))
             /\ OnceAt(t, "ScenarioStarted", 1) /\ OnceAt(t, "ScenarioCompleted", Len(t))
             /\ t[1].data.scenario = Scenario.id /\ t[1].data.seed = e.seed
             /\ t[1].data.totalTicks = Scenario.totalTicks /\ t[1].session = Session
             /\ Last(t).data.finalScore = e.score /\ Last(t).data.finalTick = e.tick
             /\ Last(t).tick = e.tick
             /\ Resolved(t) = e.handled
<1> DEFINE l == e.log
           t == Chained(l)
           T == Scenario.totalTicks
           tick == e.tick
           g == Genesis(e.seed)
           end == Ending(e)
<1>1. tick = T
  BY ReplayedIsEngine
<1>2. ~(tick < T) /\ tick \in Nat
  <2>1. T \in Nat
    BY ScenarioAssumption
  <2> HIDE DEF T
  <2> QED BY <1>1, <2>1
<1>3. End(e) = Len(l) /\ Over(e)
  BY <1>1, <1>2 DEF End, Over
<1>4. Framed(l, e.seed, Len(l)) /\ Ended(e) /\ Rising(l, tick) /\ e.handled = Resolved(l)
  BY <1>3 DEF Traceable, Tally
<1>5. PICK log : IsSeq(log) /\ l = Append(log, end)
  BY <1>4 DEF Ended
<1>6. /\ end.data.finalScore = e.score /\ end.data.finalTick = tick /\ end.tick = tick
  BY DEF Ending, Event
<1>7. /\ g.kind = "ScenarioStarted" /\ g.data.scenario = Scenario.id /\ g.data.seed = e.seed
      /\ g.data.totalTicks = T
  BY DEF Genesis, Event
<1> HIDE DEF g, end, l
<1>8. /\ IsSeq(l) /\ l # <<>> /\ l[1] = g
      /\ \A n \in DOMAIN l : /\ n # 1 => l[n].kind # "ScenarioStarted"
                             /\ (l[n].kind = "ScenarioCompleted") <=> n = Len(l)
  BY <1>4 DEF Framed, g
<1>9. Last(l) = end
  <2>1. PICK S : log \in Seq(S)
    BY <1>5 DEF IsSeq
  <2> DEFINE U == S \cup {end}
             m == Append(log, end)
  <2>2. log \in Seq(U) /\ end \in U
    BY <2>1
  <2> HIDE DEF U
  <2>3. Len(m) = Len(log) + 1 /\ m[Len(log) + 1] = end
    BY <2>2
  <2> HIDE DEF m
  <2>4. Last(m) = end
    BY <2>3 DEF Last
  <2> QED BY <1>5, <2>4 DEF m
<1>10. /\ Len(t) = Len(l) /\ 1 \in DOMAIN l /\ Len(l) \in DOMAIN l
       /\ t[1].data = l[1].data /\ t[1].session = Session
       /\ Last(t).data = Last(l).data /\ Last(t).tick = Last(l).tick
  BY <1>8, EndsOfChain
<1>11. ValidStream(t, Session, Tip(t))
  BY <1>4, <1>8, ChainIsValid
<1>12. Resolved(t) = Resolved(l)
  BY <1>8, ChainResolves
<1> DEFINE one == 1
           N == Len(l)
<1>13. OnceAt(t, "ScenarioStarted", one)
  <2>1. one \in DOMAIN l /\ \A n \in DOMAIN l : l[n].kind = "ScenarioStarted" <=> n = one
    BY <1>7, <1>8, <1>10
  <2> HIDE DEF one
  <2> QED BY <1>8, <2>1, OnceInChain
<1>14. OnceAt(t, "ScenarioCompleted", N)
  <2>1. N \in DOMAIN l /\ \A n \in DOMAIN l : l[n].kind = "ScenarioCompleted" <=> n = N
    BY <1>8, <1>10
  <2> HIDE DEF N
  <2> QED BY <1>8, <2>1, OnceInChain
<1> HIDE DEF t
<1>15. /\ t[1].data.scenario = Scenario.id /\ t[1].data.seed = e.seed
       /\ t[1].data.totalTicks = T /\ t[1].session = Session
  BY <1>7, <1>8, <1>10
<1>16. /\ Last(t).data.finalScore = e.score /\ Last(t).data.finalTick = tick /\ Last(t).tick = tick
  BY <1>6, <1>9, <1>10
<1> QED BY <1>1, <1>4, <1>8, <1>10, <1>11, <1>12, <1>13, <1>14, <1>15, <1>16 DEF t, l

(* The player log of a completed run, as the verifier reads it.            *)
LEMMA CompletedPlayer ==
  ASSUME NEW b, NEW e, Presented(b, e), e.tick = Scenario.totalTicks
  PROVE  LET p == Chained(b.log)
         IN  /\ IsSeq(b.log)
             /\ ValidStream(p, Session, Tip(p))
             /\ OnceAt(p, "SessionStarted", 1) /\ OnceAt(p, "RunCompleted", Len(p))
             /\ p[1].data.scenario = Scenario.id /\ p[1].data.seed = e.seed
             /\ p[1].data.totalTicks = Scenario.totalTicks
             /\ Last(p).data.finalTick = e.tick /\ Last(p).data.scoreTotal = Total(e.score)
<1> DEFINE l == b.log
           p == Chained(l)
           T == Scenario.totalTicks
           tick == e.tick
<1>1. ~(tick < T)
  <2>1. T \in Nat /\ tick = T
    BY ScenarioAssumption
  <2> HIDE DEF T, tick
  <2> QED BY <2>1
<1>2. Rising(l, tick) /\ OfPlayers(l, e.seed, Len(l)) /\ IsFarewell(Last(l), e)
  BY <1>1 DEF Presented
<1> HIDE DEF l
<1>3. /\ IsSeq(l) /\ l # <<>>
      /\ l[1].data.scenario = Scenario.id /\ l[1].data.seed = e.seed /\ l[1].data.totalTicks = T
      /\ \A n \in DOMAIN l : /\ l[n].kind = "SessionStarted" <=> n = 1
                             /\ l[n].kind = "RunCompleted" <=> n = Len(l)
  BY <1>2 DEF OfPlayers
<1>4. /\ Len(p) = Len(l) /\ 1 \in DOMAIN l /\ Len(l) \in DOMAIN l
      /\ p[1].data = l[1].data
      /\ Last(p).data = Last(l).data /\ Last(p).tick = Last(l).tick
  BY <1>3, EndsOfChain
<1>5. ValidStream(p, Session, Tip(p))
  BY <1>2, <1>3, ChainIsValid
<1> DEFINE one == 1
           N == Len(l)
<1>6. OnceAt(p, "SessionStarted", one)
  <2>1. one \in DOMAIN l /\ \A n \in DOMAIN l : l[n].kind = "SessionStarted" <=> n = one
    BY <1>3, <1>4
  <2> HIDE DEF one
  <2> QED BY <1>3, <2>1, OnceInChain
<1>7. OnceAt(p, "RunCompleted", N)
  <2>1. N \in DOMAIN l /\ \A n \in DOMAIN l : l[n].kind = "RunCompleted" <=> n = N
    BY <1>3, <1>4
  <2> HIDE DEF N
  <2> QED BY <1>3, <2>1, OnceInChain
<1> HIDE DEF p
<1>8. Last(p).data.finalTick = tick /\ Last(p).data.scoreTotal = Total(e.score)
  BY <1>2, <1>4 DEF IsFarewell
<1> QED BY <1>3, <1>4, <1>5, <1>6, <1>7, <1>8 DEF p, l

(* What players were told of a command is its entry in the sorted trace.   *)
LEMMA ResultsAnswered ==
  ASSUME NEW log, IsSeq(log), NEW trace, IsSeq(trace), ToldRight(log, trace),
         NEW a, a.player = Chained(log), a.commandTrace = InOrder(trace)
  PROVE  WellAnswered(a)
<1> DEFINE p == Chained(log)
           w == InOrder(trace)
<1>1. /\ IsSeq(p) /\ Len(p) = Len(log)
      /\ \A n \in 1 .. Len(log) : p[n].kind = log[n].kind /\ p[n].data = log[n].data
  BY ChainTellsLog
<1>2. ToSet(w) = ToSet(trace)
  BY InOrderKeeps
<1> HIDE DEF p, w
<1>3. DOMAIN p = 1 .. Len(log) /\ DOMAIN log = 1 .. Len(log)
  BY <1>1, SeqParts
<1>4. ASSUME NEW n \in DOMAIN p, p[n].kind = "CommandResult"
      PROVE  LET result == p[n].data
                 entry  == {m \in DOMAIN w : w[m].issued.id = result.id}
             IN  /\ entry # {}
                 /\ \A m \in entry :
                      /\ (w[m].outcome = "CommandAccepted") = result.accepted
                      /\ w[m].issued.key = result.key
  <2> DEFINE x == p[n].data
  <2>1. Bears(trace, x)
    BY <1>1, <1>3, <1>4 DEF ToldRight
  <2> HIDE DEF x
  <2>2. PICK m \in DOMAIN trace : trace[m].issued.id = x.id
    BY <2>1 DEF Bears
  <2>3. PICK k \in DOMAIN w : w[k] = trace[m]
    <3>1. trace[m] \in ToSet(w)
      BY <1>2, <2>2 DEF ToSet
    <3> QED BY <3>1 DEF ToSet
  <2>4. ASSUME NEW k2 \in DOMAIN w, w[k2].issued.id = x.id
        PROVE  (w[k2].outcome = "CommandAccepted") = x.accepted /\ w[k2].issued.key = x.key
    <3>1. w[k2] \in ToSet(trace)
      BY <1>2, <2>4 DEF ToSet
    <3>2. PICK j \in DOMAIN trace : trace[j] = w[k2]
      BY <3>1 DEF ToSet
    <3> QED BY <2>1, <2>4, <3>2 DEF Bears
  <2>5. w[k].issued.id = x.id
    BY <2>2, <2>3
  <2> QED BY <2>3, <2>4, <2>5 DEF x
<1> QED BY <1>4 DEF WellAnswered, p, w

(* The command line takes the artifact of every completed session that was *)
(* never restarted and stayed within the contract.                         *)
LEMMA ArtifactIsAccepted ==
  ASSUME EngineInv, LedgerInv, ShownInv, Completed, Fresh, ByContract
  PROVE  VerifyRunArtifact(Artifact(run, ledger))
<1> DEFINE a == Artifact(run, ledger)
           e == run.engine
           b == run.bridge
           t == Chained(e.log)
           p == Chained(b.log)
           d == Derivation(t)
<1>1. IsRun(run) /\ Traceable(e) /\ e.phase = "completed"
  BY DEF EngineInv, Completed
<1>2. Presented(b, e) /\ Accounted(run)
  BY DEF ShownInv
<1>3. TellsRun(a, run, ledger)
  BY ArtifactIs
<1> HIDE DEF a
<1>4. /\ e.tick = Scenario.totalTicks /\ IsSeq(e.log)
      /\ ValidStream(t, Session, Tip(t))
      /\ OnceAt(t, "ScenarioStarted", 1) /\ OnceAt(t, "ScenarioCompleted", Len(t))
      /\ t[1].data.scenario = Scenario.id /\ t[1].data.seed = e.seed
      /\ t[1].data.totalTicks = Scenario.totalTicks /\ t[1].session = Session
      /\ Last(t).data.finalScore = e.score /\ Last(t).data.finalTick = e.tick
      /\ Last(t).tick = e.tick
      /\ Resolved(t) = e.handled
  BY <1>1, CompletedTruth
<1>5. /\ IsSeq(b.log)
      /\ ValidStream(p, Session, Tip(p))
      /\ OnceAt(p, "SessionStarted", 1) /\ OnceAt(p, "RunCompleted", Len(p))
      /\ p[1].data.scenario = Scenario.id /\ p[1].data.seed = e.seed
      /\ p[1].data.totalTicks = Scenario.totalTicks
      /\ Last(p).data.finalTick = e.tick /\ Last(p).data.scoreTotal = Total(e.score)
  BY <1>2, <1>4, CompletedPlayer
<1>6. /\ AllAnswered(d, e.commands) /\ ToldRight(b.log, d.trace)
  BY <1>2 DEF Accounted, Traces
<1>7. /\ a.identity = [session |-> Session, scenario |-> Scenario.id, scenarioDigest |-> ScenarioDigest,
                       protocol |-> Protocol, seed |-> e.seed, totalTicks |-> Scenario.totalTicks]
      /\ a.truth = t /\ a.player = p /\ a.ledger = ledger
      /\ a.eventCount = Len(t) /\ a.playerEventCount = Len(p)
      /\ a.truthLogHash = Tip(t) /\ a.playerLogHash = Tip(p)
      /\ a.finalTick = e.tick /\ a.stateDigest = StateDigest(e)
      /\ a.scoreDigest = e.score /\ a.scoreTotal = Total(e.score)
      /\ a.handled = e.handled
      /\ a.commandTrace = CommandTrace(t) /\ a.assessmentTrace = AssessmentTrace(p)
      /\ a.artifactHash = Without(a, "artifactHash")
  BY <1>3 DEF TellsRun
<1>8. /\ a.identity.session = Session /\ a.identity.scenario = Scenario.id
      /\ a.identity.scenarioDigest = ScenarioDigest /\ a.identity.protocol = Protocol
      /\ a.identity.seed = e.seed /\ a.identity.totalTicks = Scenario.totalTicks
  BY <1>7
<1>9. a.commandTrace = InOrder(d.trace)
  BY <1>7 DEF CommandTrace
<1> DEFINE lt == Len(t)
           lp == Len(p)
<1>10. TruthReplay(e.seed, t) = e
  <2>1. TruthReplay(e.seed, e.log) = e
    BY <1>1, ReplayedIsEngine
  <2>2. Rebuilt(e.seed, t) = Rebuilt(e.seed, e.log)
    BY <1>4, ChainRebuilds
  <2>3. \A log : TruthReplay(e.seed, log) = RunToEnd(Rebuilt(e.seed, log))
    BY DEF TruthReplay, Rebuilt
  <2> HIDE DEF t
  <2> QED BY <2>1, <2>2, <2>3
<1>11. /\ LedgerReplay(e.seed, ledger).bridge.log = b.log
       /\ LedgerReplay(e.seed, ledger).engine.log = e.log
  BY LedgerIsRebuilt DEF LedgerRebuildsRun
<1>12. Len(p) = Len(b.log) /\ Len(t) = Len(e.log)
  <2>1. Len(p) = Len(b.log)
    BY <1>5, ChainTellsLog
  <2>2. Len(t) = Len(e.log)
    BY <1>4, ChainTellsLog
  <2> QED BY <2>1, <2>2
<1> DEFINE tt == Tip(t)
           tp == Tip(p)
<1>13. LedgerReplayed(a)
  <2> DEFINE r == LedgerReplay(e.seed, ledger)
  <2>1. Tip(Chained(r.bridge.log)) = tp /\ Len(r.bridge.log) = lp /\ Tip(Chained(r.engine.log)) = tt
    BY <1>11, <1>12
  <2>2. LedgerReplay(a.identity.seed, a.ledger) = r
    BY <1>7, <1>8
  <2> HIDE DEF r, tt, tp, lp
  <2>3. a.playerLogHash = tp /\ a.playerEventCount = lp /\ a.truthLogHash = tt
    BY <1>7 DEF tp, lp, tt
  <2> QED BY <2>1, <2>2, <2>3 DEF LedgerReplayed
<1>14. TruthReplayed(a)
  <2>1. Tip(Chained(e.log)) = tt /\ Len(e.log) = lt
    BY <1>12
  <2>2. TruthReplay(a.identity.seed, a.truth) = e
    BY <1>7, <1>8, <1>10
  <2> HIDE DEF e, tt, lt
  <2>3. a.truthLogHash = tt /\ a.eventCount = lt /\ a.stateDigest = StateDigest(e)
        /\ a.scoreTotal = Total(e.score) /\ a.finalTick = e.tick
    BY <1>7 DEF tt, lt
  <2> QED BY <2>1, <2>2, <2>3 DEF TruthReplayed
<1> HIDE DEF t, p, e, b, d
<1>15. WellHashed(a)
  BY <1>4, <1>5, <1>7, <1>8 DEF WellHashed
<1>16. WellEnded(a)
  BY <1>4, <1>5, <1>7 DEF WellEnded
<1>17. WellIdentified(a)
  BY <1>4, <1>5, <1>7, <1>8 DEF WellIdentified, Says
<1>18. WellCompleted(a)
  BY <1>4, <1>5, <1>7, <1>8 DEF WellCompleted
<1>19. Last(a.truth).tick = a.finalTick
  BY <1>4, <1>7
<1>20. WellTraced(a)
  <2>1. DOMAIN d.pending = {} /\ ~d.odd
    <3>1. d.odd = FALSE
      BY <1>6 DEF AllAnswered
    <3> QED BY <1>6, <3>1 DEF AllAnswered
  <2>2. Derivation(a.truth) = d
    BY <1>7 DEF d
  <2>3. AssessmentTrace(a.player) = a.assessmentTrace
    BY <1>7
  <2>4. ToBag(Resolved(a.truth)) = ToBag(a.handled)
    BY <1>4, <1>7
  <2> QED BY <1>9, <2>1, <2>2, <2>3, <2>4 DEF WellTraced
<1>21. WellAnswered(a)
  <2> DEFINE l == b.log
             w == d.trace
  <2>1. IsSeq(l) /\ IsSeq(w) /\ ToldRight(l, w) /\ a.player = Chained(l) /\ a.commandTrace = InOrder(w)
    BY <1>5, <1>6, <1>7, <1>9 DEF AllAnswered, p
  <2> HIDE DEF l, w
  <2> QED BY <2>1, ResultsAnswered
<1>22. Integrity(a)
  BY <1>8, <1>15, <1>16, <1>17, <1>18, <1>19, <1>20, <1>21 DEF Integrity
<1>23. VerifyRunArtifact(a)
  BY <1>8, <1>13, <1>14, <1>22 DEF VerifyRunArtifact
<1> QED BY <1>23 DEF a

(* The artifact of a completed session has the shape of one.               *)
LEMMA ExportIsArtifact ==
  ASSUME EngineInv, ShownInv
  PROVE  IsArtifact(Artifact(run, ledger))
<1> DEFINE a == Artifact(run, ledger)
           l == run.engine.log
           m == run.bridge.log
           t == Chained(l)
           p == Chained(m)
<1>1. IsSeq(l) /\ IsSeq(m)
  BY DEF EngineInv, IsRun, IsEngine, IsBridge
<1>2. TellsRun(a, run, ledger)
  BY ArtifactIs
<1>3. /\ a = [f \in ArtifactField |-> a[f]]
      /\ a.truth = t /\ a.player = p /\ a.ledger = ledger
      /\ a.identity = [session |-> Session, scenario |-> Scenario.id, scenarioDigest |-> ScenarioDigest,
                       protocol |-> Protocol, seed |-> run.engine.seed,
                       totalTicks |-> Scenario.totalTicks]
  BY <1>2 DEF TellsRun
<1> HIDE DEF a, l, m
<1>4. IsStream(t) /\ IsStream(p)
  BY <1>1, ChainedIsStream
<1> HIDE DEF t, p
<1>5. a.identity = [f \in IdentityField |-> a.identity[f]]
  BY <1>3 DEF IdentityField
<1>6. IsSeq(ledger) /\ \A n \in DOMAIN ledger : IsAction(ledger[n])
  BY DEF ShownInv, AreActions
<1>7. IsArtifact(a)
  BY <1>3, <1>4, <1>5, <1>6 DEF IsArtifact
<1> QED BY <1>7 DEF a

(* What is known of the run, the ledger and what was shown makes every     *)
(* verdict of the verifier right.                                          *)
LEMMA AcceptedIsProved == EngineInv /\ LedgerInv /\ ShownInv => AcceptedIsARun
<1> SUFFICES ASSUME EngineInv, LedgerInv, ShownInv, Completed
             PROVE  LET a == Artifact(run, ledger)
                    IN  /\ Fresh /\ ByContract => VerifyRunArtifact(a)
                        /\ RightlyAccepted(a)
                        /\ Fresh /\ saved = NoSnapshot => EveryDamage(a, RightlyAccepted)
  BY DEF AcceptedIsARun
<1> DEFINE a == Artifact(run, ledger)
<1>1. Fresh /\ ByContract => VerifyRunArtifact(a)
  BY ArtifactIsAccepted
<1>2. IsArtifact(a)
  BY ExportIsArtifact
<1> HIDE DEF a
<1>3. RightlyAccepted(a) /\ EveryDamage(a, RightlyAccepted)
  BY <1>2, EveryDamageIsRefused
<1> QED BY <1>1, <1>3 DEF a

(* The command line accepts the artifact of every session that was never   *)
(* restarted and stayed within the contract, and of what a damaged file    *)
(* may be, resealed or not, it accepts only what the run of the file's own *)
(* seed and ledger exports (artifact.ts verifyRunArtifact).                *)
THEOREM AcceptedIsARunCorrect == RecordSpec => []AcceptedIsARun
BY EngineInvariant, LedgerInvariant, ShownInvariant, AcceptedIsProved, PTL

----------------------------------------------------------------------------
(***************************************************************************)
(* The three verifiers.                                                    *)
(***************************************************************************)
IssuedAt(events, n) == events[n].kind = "CommandIssued"
SettledAt(events, n) == events[n].kind \in Outcome

(* Each command is issued once and settled at most once, after that.       *)
Paired(events) ==
  /\ IsSeq(events)
  /\ \A m, n \in DOMAIN events :
       /\ IssuedAt(events, m) /\ IssuedAt(events, n) /\ events[m].data.id = events[n].data.id => m = n
       /\ SettledAt(events, m) /\ SettledAt(events, n) /\ events[m].data.id = events[n].data.id => m = n
  /\ \A n \in DOMAIN events : SettledAt(events, n) =>
       \E m \in DOMAIN events : m < n /\ IssuedAt(events, m) /\ events[m].data.id = events[n].data.id

(* What the derivation of a trace has found in the first k events.         *)
Entry(events, k, x) ==
  \E m, n \in 1 .. k :
    /\ IssuedAt(events, m) /\ SettledAt(events, n) /\ events[m].data.id = events[n].data.id
    /\ x.issued = events[m].data /\ x.outcome = events[n].kind
Found(events, k, d) ==
  /\ d = [pending |-> d.pending, seen |-> d.seen, trace |-> d.trace, odd |-> FALSE]
  /\ \A id : id \in d.seen <=> \E m \in 1 .. k : IssuedAt(events, m) /\ events[m].data.id = id
  /\ \A id : id \in DOMAIN d.pending <=>
       id \in d.seen /\ ~ \E n \in 1 .. k : SettledAt(events, n) /\ events[n].data.id = id
  /\ \A id \in DOMAIN d.pending : \E m \in 1 .. k :
       IssuedAt(events, m) /\ events[m].data.id = id /\ d.pending[id] = events[m]
  /\ IsSeq(d.trace)
  /\ \A x \in ToSet(d.trace) : Entry(events, k, x)
  /\ \A n \in 1 .. k : SettledAt(events, n) =>
       \E x \in ToSet(d.trace) : x.issued.id = events[n].data.id

(* A list with one element more at its end. *)
LEMMA AppendAdds ==
  ASSUME NEW s, IsSeq(s), NEW x
  PROVE  IsSeq(Append(s, x)) /\ ToSet(Append(s, x)) = ToSet(s) \cup {x}
<1> DEFINE l == Append(s, x)
           N == Len(s)
<1>1. PICK S : s \in Seq(S)
  BY DEF IsSeq
<1>2. /\ DOMAIN s = 1 .. N /\ N \in Nat /\ DOMAIN l = 1 .. N + 1
      /\ l[N + 1] = x /\ \A m \in 1 .. N : l[m] = s[m]
  BY <1>1
<1>3. IsSeq(l)
  BY SeqAppend
<1> HIDE DEF l, N
<1>4. 1 .. N + 1 = (1 .. N) \cup {N + 1}
  BY <1>2
<1>5. ToSet(l) = ToSet(s) \cup {x}
  BY <1>2, <1>4 DEF ToSet
<1> QED BY <1>3, <1>5 DEF l

(* An issued command is put among the pending ones. *)
LEMMA FindsIssued ==
  ASSUME NEW events, Paired(events), NEW k \in DOMAIN events, IssuedAt(events, k),
         NEW d, Found(events, k - 1, d)
  PROVE  Found(events, k, Traced(d, events[k]))
<1> DEFINE x == events[k]
           id == x.data.id
           e == Traced(d, x)
           P == [i \in DOMAIN d.pending \cup {id} |-> IF i = id THEN x ELSE d.pending[i]]
           pending == d.pending
           seen == d.seen
           trace == d.trace
           no == FALSE
           odd == d.odd \/ id \in seen
<1>1. /\ k \in Nat /\ k >= 1 /\ 1 .. k = (1 .. k - 1) \cup {k} /\ 1 .. k \subseteq DOMAIN events
      /\ \A m \in 1 .. k - 1 : m < k /\ m \in DOMAIN events
  <2>1. PICK S : events \in Seq(S)
    BY DEF Paired, IsSeq
  <2>2. DOMAIN events = 1 .. Len(events) /\ Len(events) \in Nat
    BY <2>1
  <2> QED BY <2>2
<1>2. x.kind = "CommandIssued" /\ x.kind \notin Outcome
  BY DEF IssuedAt, Outcome
<1>3. ~(id \in seen)
  <2>1. ASSUME NEW m \in 1 .. k - 1, IssuedAt(events, m), events[m].data.id = id PROVE FALSE
    BY <1>1, <2>1 DEF Paired
  <2> QED BY <2>1 DEF Found
<1>4. ASSUME NEW n \in 1 .. k, SettledAt(events, n) PROVE events[n].data.id # id /\ n \in 1 .. k - 1
  <2>1. n # k
    BY <1>2, <1>4 DEF SettledAt
  <2>2. n \in 1 .. k - 1
    BY <1>1, <2>1
  <2>3. PICK m \in DOMAIN events : m < n /\ IssuedAt(events, m) /\ events[m].data.id = events[n].data.id
    BY <1>1, <1>4 DEF Paired
  <2>4. m # k
    <3>1. m < n /\ n < k /\ m \in Int /\ n \in Int /\ k \in Int
      <4>1. m \in Int
        <5>1. PICK S : events \in Seq(S)
          BY DEF Paired, IsSeq
        <5> QED BY <5>1, <2>3
      <4> QED BY <1>1, <2>2, <2>3, <4>1
    <3> QED BY <3>1
  <2>5. events[m].data.id # id
    BY <2>3, <2>4 DEF Paired
  <2> QED BY <2>2, <2>3, <2>5
<1>5. d = [pending |-> pending, seen |-> seen, trace |-> trace, odd |-> no] /\ odd = no
  <2>1. d = [pending |-> pending, seen |-> seen, trace |-> trace, odd |-> FALSE]
    BY DEF Found
  <2>2. d.odd = FALSE
    BY <2>1
  <2> QED BY <1>3, <2>1, <2>2
<1>6. e = [d EXCEPT !.odd = odd, !.seen = seen \cup {id}, !.pending = P]
  <2>1. e = Await(d, x)
    BY <1>2 DEF Traced
  <2> HIDE DEF e
  <2> QED BY <2>1 DEF Await
<1>7. DOMAIN P = DOMAIN pending \cup {id} /\ P[id] = x /\ \A i \in DOMAIN pending \ {id} : P[i] = pending[i]
  OBVIOUS
<1>8. e = [pending |-> P, seen |-> seen \cup {id}, trace |-> trace, odd |-> no]
  <2> HIDE DEF e, P, pending, seen, trace, no, odd, id
  <2> QED BY <1>5, <1>6
<1>9. /\ e = [pending |-> e.pending, seen |-> e.seen, trace |-> e.trace, odd |-> FALSE]
      /\ e.pending = P /\ e.seen = seen \cup {id} /\ e.trace = trace
  BY <1>8
<1> HIDE DEF e, P
<1>10. /\ \A i : i \in seen <=> \E m \in 1 .. k - 1 : IssuedAt(events, m) /\ events[m].data.id = i
       /\ \A i : i \in DOMAIN pending <=>
            i \in seen /\ ~ \E n \in 1 .. k - 1 : SettledAt(events, n) /\ events[n].data.id = i
       /\ \A i \in DOMAIN pending : \E m \in 1 .. k - 1 :
            IssuedAt(events, m) /\ events[m].data.id = i /\ pending[i] = events[m]
       /\ IsSeq(trace)
       /\ \A y \in ToSet(trace) : Entry(events, k - 1, y)
       /\ \A n \in 1 .. k - 1 : SettledAt(events, n) =>
            \E y \in ToSet(trace) : y.issued.id = events[n].data.id
  BY DEF Found
<1>11. ASSUME NEW i
       PROVE  i \in seen \cup {id} <=> \E m \in 1 .. k : IssuedAt(events, m) /\ events[m].data.id = i
  BY <1>1, <1>10
<1>12. ASSUME NEW i
       PROVE  i \in DOMAIN P <=>
            i \in seen \cup {id} /\ ~ \E n \in 1 .. k : SettledAt(events, n) /\ events[n].data.id = i
  <2>1. CASE i = id
    BY <1>4, <1>7, <2>1
  <2>2. CASE i # id
    <3>1. i \in DOMAIN P <=> i \in DOMAIN pending
      BY <1>7, <2>2
    <3>2. (\E n \in 1 .. k : SettledAt(events, n) /\ events[n].data.id = i) <=>
          (\E n \in 1 .. k - 1 : SettledAt(events, n) /\ events[n].data.id = i)
      BY <1>1, <1>4
    <3> QED BY <1>10, <2>2, <3>1, <3>2
  <2> QED BY <2>1, <2>2
<1>13. ASSUME NEW i \in DOMAIN P
       PROVE  \E m \in 1 .. k : IssuedAt(events, m) /\ events[m].data.id = i /\ P[i] = events[m]
  <2>1. CASE i = id
    BY <1>1, <1>7, <2>1
  <2>2. CASE i # id
    BY <1>1, <1>7, <1>10, <2>2
  <2> QED BY <2>1, <2>2
<1>14. ASSUME NEW y \in ToSet(trace) PROVE Entry(events, k, y)
  BY <1>1, <1>10 DEF Entry
<1>15. ASSUME NEW n \in 1 .. k, SettledAt(events, n)
       PROVE  \E y \in ToSet(trace) : y.issued.id = events[n].data.id
  BY <1>4, <1>10, <1>15
<1> HIDE DEF pending, seen, trace, id
<1> QED
  BY <1>9, <1>10, <1>11, <1>12, <1>13, <1>14, <1>15 DEF Found, e, x

(* The outcome of a command settles it. *)
LEMMA FindsSettled ==
  ASSUME NEW events, Paired(events), NEW k \in DOMAIN events, SettledAt(events, k),
         NEW d, Found(events, k - 1, d)
  PROVE  Found(events, k, Traced(d, events[k]))
<1> DEFINE y == events[k]
           id == y.data.id
           e == Traced(d, y)
           pending == d.pending
           seen == d.seen
           trace == d.trace
           x == pending[id]
           P == Without(pending, id)
           z == [seq |-> x.seq, issued |-> x.data, outcome |-> y.kind, answer |-> y.data]
           l == Append(trace, z)
           no == FALSE
<1>1. /\ k \in Nat /\ k >= 1 /\ 1 .. k = (1 .. k - 1) \cup {k} /\ 1 .. k \subseteq DOMAIN events
      /\ \A m \in 1 .. k - 1 : m < k /\ m \in DOMAIN events
      /\ \A m \in DOMAIN events : m < k => m \in 1 .. k - 1
  <2>1. PICK S : events \in Seq(S)
    BY DEF Paired, IsSeq
  <2>2. DOMAIN events = 1 .. Len(events) /\ Len(events) \in Nat
    BY <2>1
  <2> QED BY <2>2
<1>2. y.kind # "CommandIssued" /\ y.kind \in Outcome
  BY DEF SettledAt, Outcome
<1>3. /\ d = [pending |-> pending, seen |-> seen, trace |-> trace, odd |-> no]
      /\ \A i : i \in seen <=> \E m \in 1 .. k - 1 : IssuedAt(events, m) /\ events[m].data.id = i
      /\ \A i : i \in DOMAIN pending <=>
            i \in seen /\ ~ \E n \in 1 .. k - 1 : SettledAt(events, n) /\ events[n].data.id = i
      /\ \A i \in DOMAIN pending : \E m \in 1 .. k - 1 :
            IssuedAt(events, m) /\ events[m].data.id = i /\ pending[i] = events[m]
      /\ IsSeq(trace)
      /\ \A w \in ToSet(trace) : Entry(events, k - 1, w)
      /\ \A n \in 1 .. k - 1 : SettledAt(events, n) =>
            \E w \in ToSet(trace) : w.issued.id = events[n].data.id
  BY DEF Found
<1>4. ~ \E n \in 1 .. k - 1 : SettledAt(events, n) /\ events[n].data.id = id
  BY <1>1 DEF Paired
<1>5. id \in seen
  BY <1>1, <1>3 DEF Paired
<1>6. id \in DOMAIN pending
  BY <1>3, <1>4, <1>5
<1>7. PICK m \in 1 .. k - 1 : IssuedAt(events, m) /\ events[m].data.id = id /\ x = events[m]
  BY <1>3, <1>6
<1>8. ~IssuedAt(events, k)
  BY <1>2 DEF IssuedAt
<1>9. e = [d EXCEPT !.pending = Without(@, id), !.trace = Append(@, z)]
  <2>1. e = Settle(d, y)
    BY <1>2, <1>6 DEF Traced
  <2> QED BY <2>1 DEF Settle
<1>10. DOMAIN P = DOMAIN pending \ {id} /\ \A i \in DOMAIN P : P[i] = pending[i]
  BY DEF Without
<1> HIDE DEF P, z, e, x, l
<1>11. e = [pending |-> P, seen |-> seen, trace |-> l, odd |-> no]
  <2>1. d.pending = pending /\ d.trace = trace
    OBVIOUS
  <2>2. e = [d EXCEPT !.pending = P, !.trace = l]
    BY <1>9 DEF P, l
  <2> HIDE DEF pending, seen, trace, no
  <2> QED BY <1>3, <2>2
<1>12. /\ e = [pending |-> e.pending, seen |-> e.seen, trace |-> e.trace, odd |-> FALSE]
       /\ e.pending = P /\ e.seen = seen /\ e.trace = l
  BY <1>11
<1>13. IsSeq(l) /\ ToSet(l) = ToSet(trace) \cup {z}
  BY <1>3, AppendAdds DEF l
<1>14. z.issued = events[m].data /\ z.outcome = events[k].kind /\ z.issued.id = id
  BY <1>7 DEF z
<1>15. ASSUME NEW i
       PROVE  i \in seen <=> \E n \in 1 .. k : IssuedAt(events, n) /\ events[n].data.id = i
  BY <1>1, <1>3, <1>8
<1>16. ASSUME NEW i
       PROVE  i \in DOMAIN P <=>
                i \in seen /\ ~ \E n \in 1 .. k : SettledAt(events, n) /\ events[n].data.id = i
  <2>1. CASE i = id
    BY <1>1, <1>10, <2>1
  <2>2. CASE i # id
    <3>1. (\E n \in 1 .. k : SettledAt(events, n) /\ events[n].data.id = i) <=>
          (\E n \in 1 .. k - 1 : SettledAt(events, n) /\ events[n].data.id = i)
      BY <1>1, <2>2
    <3> QED BY <1>3, <1>10, <2>2, <3>1
  <2> QED BY <2>1, <2>2
<1>17. ASSUME NEW i \in DOMAIN P
       PROVE  \E n \in 1 .. k : IssuedAt(events, n) /\ events[n].data.id = i /\ P[i] = events[n]
  BY <1>1, <1>3, <1>10
<1>18. ASSUME NEW w \in ToSet(l) PROVE Entry(events, k, w)
  <2>1. CASE w = z
    <3>1. m \in 1 .. k /\ k \in 1 .. k /\ IssuedAt(events, m) /\ SettledAt(events, k)
          /\ events[m].data.id = events[k].data.id
      BY <1>1, <1>7
    <3> HIDE DEF id, y
    <3> QED BY <1>14, <2>1, <3>1 DEF Entry
  <2>2. CASE w \in ToSet(trace)
    <3>1. Entry(events, k - 1, w)
      BY <1>3, <2>2
    <3> QED BY <1>1, <3>1 DEF Entry
  <2> QED BY <1>13, <2>1, <2>2
<1>19. ASSUME NEW n \in 1 .. k, SettledAt(events, n)
       PROVE  \E w \in ToSet(l) : w.issued.id = events[n].data.id
  <2>1. CASE n = k
    BY <1>13, <1>14, <2>1
  <2>2. CASE n \in 1 .. k - 1
    BY <1>3, <1>13, <1>19, <2>2
  <2> QED BY <1>1, <2>1, <2>2
<1> HIDE DEF pending, seen, trace, id
<1> QED
  BY <1>12, <1>13, <1>15, <1>16, <1>17, <1>18, <1>19 DEF Found, e, y

(* Other events leave it as it was. *)
LEMMA FindsOther ==
  ASSUME NEW events, Paired(events), NEW k \in DOMAIN events,
         ~IssuedAt(events, k), ~SettledAt(events, k), NEW d, Found(events, k - 1, d)
  PROVE  Found(events, k, Traced(d, events[k]))
<1> DEFINE pending == d.pending
           seen == d.seen
           trace == d.trace
<1>1. k \in Nat /\ k >= 1 /\ 1 .. k = (1 .. k - 1) \cup {k}
  <2>1. PICK S : events \in Seq(S)
    BY DEF Paired, IsSeq
  <2>2. DOMAIN events = 1 .. Len(events) /\ Len(events) \in Nat
    BY <2>1
  <2> QED BY <2>2
<1>2. Traced(d, events[k]) = d
  BY DEF Traced, IssuedAt, SettledAt
<1>3. /\ d = [pending |-> pending, seen |-> seen, trace |-> trace, odd |-> FALSE]
      /\ \A i : i \in seen <=> \E m \in 1 .. k - 1 : IssuedAt(events, m) /\ events[m].data.id = i
      /\ \A i : i \in DOMAIN pending <=>
            i \in seen /\ ~ \E n \in 1 .. k - 1 : SettledAt(events, n) /\ events[n].data.id = i
      /\ \A i \in DOMAIN pending : \E m \in 1 .. k - 1 :
            IssuedAt(events, m) /\ events[m].data.id = i /\ pending[i] = events[m]
      /\ IsSeq(trace)
      /\ \A w \in ToSet(trace) : Entry(events, k - 1, w)
      /\ \A n \in 1 .. k - 1 : SettledAt(events, n) =>
            \E w \in ToSet(trace) : w.issued.id = events[n].data.id
  BY DEF Found
<1>4. ASSUME NEW i
      PROVE  i \in seen <=> \E m \in 1 .. k : IssuedAt(events, m) /\ events[m].data.id = i
  BY <1>1, <1>3
<1>5. ASSUME NEW i
      PROVE  i \in DOMAIN pending <=>
               i \in seen /\ ~ \E n \in 1 .. k : SettledAt(events, n) /\ events[n].data.id = i
  <2>1. (\E n \in 1 .. k : SettledAt(events, n) /\ events[n].data.id = i) <=>
        (\E n \in 1 .. k - 1 : SettledAt(events, n) /\ events[n].data.id = i)
    BY <1>1
  <2> QED BY <1>3, <2>1
<1>6. ASSUME NEW i \in DOMAIN pending
      PROVE  \E m \in 1 .. k : IssuedAt(events, m) /\ events[m].data.id = i /\ pending[i] = events[m]
  BY <1>1, <1>3
<1>7. ASSUME NEW w \in ToSet(trace) PROVE Entry(events, k, w)
  BY <1>1, <1>3 DEF Entry
<1>8. ASSUME NEW n \in 1 .. k, SettledAt(events, n)
      PROVE  \E w \in ToSet(trace) : w.issued.id = events[n].data.id
  BY <1>1, <1>3, <1>8
<1>9. Found(events, k, d)
  BY <1>3, <1>4, <1>5, <1>6, <1>7, <1>8 DEF Found
<1> QED BY <1>2, <1>9

(* The derivation of well paired events finds every command that was       *)
(* settled, with its outcome, and nothing odd.                             *)
LEMMA DerivationFinds ==
  ASSUME NEW events, Paired(events)
  PROVE  Found(events, Len(events), Derivation(events))
<1> DEFINE N == Len(events)
<1>1. PICK S : events \in Seq(S)
  BY DEF Paired, IsSeq
<1>2. DOMAIN events = 1 .. N /\ N \in Nat
  BY <1>1
<1>3. PICK g : Tracing!Through(0, NoTrace, events, g) /\ Tracing!Fold(0, NoTrace, events) = g[Len(events)]
  BY <1>1, Tracing!FoldGoesThrough
<1> DEFINE T == {n \in 0 .. N : Found(events, n, g[n])}
<1>4. 0 \in T
  <2> DEFINE none == <<>>
  <2>1. DOMAIN none = {} /\ ToSet(none) = {} /\ IsSeq(none)
    <3>1. DOMAIN none = {} /\ none \in Seq(S)
      OBVIOUS
    <3> QED BY <3>1 DEF ToSet, IsSeq
  <2> HIDE DEF none
  <2>2. NoTrace = [pending |-> none, seen |-> {}, trace |-> none, odd |-> FALSE]
    BY DEF NoTrace, none
  <2>3. /\ NoTrace.pending = none /\ NoTrace.seen = {} /\ NoTrace.trace = none
        /\ NoTrace = [pending |-> NoTrace.pending, seen |-> NoTrace.seen, trace |-> NoTrace.trace,
                      odd |-> FALSE]
    BY <2>2
  <2>4. 1 .. 0 = {}
    OBVIOUS
  <2>5. Found(events, 0, NoTrace)
    BY <2>1, <2>3, <2>4 DEF Found
  <2>6. g[0] = NoTrace
    BY <1>3 DEF Tracing!Through
  <2> QED BY <1>2, <2>5, <2>6
<1>5. ASSUME NEW n \in 0 .. N - 1, n \in T PROVE n + 1 \in T
  <2> DEFINE k == n + 1
             d == g[n]
  <2>1. k \in DOMAIN events /\ k - 1 = n /\ k \in 0 .. N
    BY <1>2
  <2>2. Found(events, k - 1, d)
    BY <1>5, <2>1
  <2>3. g[k] = Traced(d, events[k])
    BY <1>2, <1>3, <2>1 DEF Tracing!Through
  <2> HIDE DEF k, d
  <2>4. Found(events, k, Traced(d, events[k]))
    BY <2>1, <2>2, FindsIssued, FindsSettled, FindsOther
  <2>5. k \in T
    BY <2>1, <2>3, <2>4
  <2> QED BY <2>5 DEF k
<1>6. N \in T
  <2> HIDE DEF T, N
  <2>1. \A n \in 0 .. N : n \in T
    BY <1>2, <1>4, <1>5, Tracing!UpTo
  <2> QED BY <1>2, <2>1
<1> QED BY <1>3, <1>6, DerivationIsFold

\* The length of a stream.
LEMMA LengthOfStream ==
  ASSUME NEW events, IsStream(events)
  PROVE  Len(events) \in Nat
<1>1. PICK S : events \in Seq(S)
  BY DEF IsStream, IsSeq
<1> QED BY <1>1

\* The last completion of a log that has one only.
LEMMA LastCompletion ==
  ASSUME NEW events, NEW position \in Nat, OnceAt(events, "ScenarioCompleted", position)
  PROVE  LET ends == Positions(events, {"ScenarioCompleted"})
         IN  ends # {} /\ Max(ends) = position
<1>1. Positions(events, {"ScenarioCompleted"}) = {position}
  BY DEF Positions, OnceAt
<1>2. Max({position}) = CHOOSE x \in {position} : \A y \in {position} : x >= y
  BY DEF Max
<1> QED BY <1>1, <1>2

(* What Replay Lab asks of commands and results pairs them.                *)
LEMMA LabPairs ==
  ASSUME NEW d, IsArtifact(d), LabAccepts(d)
  PROVE  Paired(d.truth)
<1> DEFINE t == d.truth
           p == d.player
           issued == Positions(t, {"CommandIssued"})
           outcomes == Positions(t, Outcome)
           results == Positions(p, {"CommandResult"})
<1>1. PICK S : t \in Seq(S)
  BY DEF IsArtifact, IsStream, IsSeq
<1>2. DOMAIN t = 1 .. Len(t) /\ Len(t) \in Nat
  BY <1>1
<1>3. \A n \in DOMAIN t : t[n].seq = n - 1
  BY DEF LabAccepts, LabIntegrity, LabChain, ValidStream
<1>4. LabOneToOne(d)
  BY DEF LabAccepts, LabSemantics
<1>5. /\ \A n \in DOMAIN t : n \in issued <=> IssuedAt(t, n)
      /\ \A n \in DOMAIN t : n \in outcomes <=> SettledAt(t, n)
      /\ issued \subseteq DOMAIN t /\ outcomes \subseteq DOMAIN t
  BY DEF Positions, IssuedAt, SettledAt
<1> HIDE DEF issued, outcomes, results
<1>6. /\ Once(t, issued, "id") /\ Once(t, outcomes, "id")
      /\ IdsAt(t, outcomes) = IdsAt(t, issued) /\ IdsAt(p, results) = IdsAt(t, issued)
      /\ \A n \in results : \E m \in issued, k \in outcomes :
           t[m].data.id = p[n].data.id /\ t[k].data.id = p[n].data.id /\ t[m].seq < t[k].seq
  BY <1>4 DEF LabOneToOne, issued, outcomes, results
<1> HIDE DEF t, p
<1>7. ASSUME NEW n \in DOMAIN t, SettledAt(t, n)
      PROVE  \E m \in DOMAIN t : m < n /\ IssuedAt(t, m) /\ t[m].data.id = t[n].data.id
  <2>1. n \in outcomes /\ t[n].data.id \in IdsAt(p, results)
    BY <1>5, <1>6, <1>7 DEF IdsAt
  <2>2. PICK r \in results : p[r].data.id = t[n].data.id
    BY <2>1 DEF IdsAt
  <2>3. PICK m \in issued, k \in outcomes :
           t[m].data.id = p[r].data.id /\ t[k].data.id = p[r].data.id /\ t[m].seq < t[k].seq
    BY <1>6
  <2>4. k = n
    BY <1>6, <2>1, <2>2, <2>3 DEF Once
  <2>5. m \in DOMAIN t /\ n \in DOMAIN t
    BY <1>5, <2>3
  <2>6. m < n
    <3>1. t[m].seq = m - 1 /\ t[n].seq = n - 1 /\ m \in Int /\ n \in Int
      BY <1>2, <1>3, <2>5
    <3>2. t[m].seq < t[n].seq
      BY <2>3, <2>4
    <3> QED BY <3>1, <3>2
  <2> QED BY <1>5, <2>2, <2>3, <2>5, <2>6
<1>8. IsSeq(t)
  BY <1>1 DEF IsSeq
<1>9. ASSUME NEW m \in DOMAIN t, NEW n \in DOMAIN t, t[m].data.id = t[n].data.id
      PROVE  /\ IssuedAt(t, m) /\ IssuedAt(t, n) => m = n
             /\ SettledAt(t, m) /\ SettledAt(t, n) => m = n
  BY <1>5, <1>6, <1>9 DEF Once
<1>10. Paired(t)
  BY <1>7, <1>8, <1>9 DEF Paired
<1> QED BY <1>10 DEF t

(* A file that Replay Lab shows has the trace of its own truth log, each   *)
(* command with its one outcome, and every result agrees with it.          *)
LEMMA LabTraces ==
  ASSUME NEW d, IsArtifact(d), LabAccepts(d)
  PROVE  WellTraced(d) /\ WellAnswered(d)
<1> DEFINE t == d.truth
           p == d.player
           w == d.commandTrace
           issued == Positions(t, {"CommandIssued"})
           outcomes == Positions(t, Outcome)
           results == Positions(p, {"CommandResult"})
           x == Derivation(t)
           N == Len(t)
<1>1. PICK S : t \in Seq(S)
  BY DEF IsArtifact, IsStream, IsSeq
<1>2. DOMAIN t = 1 .. N
  BY <1>1
<1>3. Paired(t)
  BY LabPairs
<1>4. Found(t, N, x)
  BY <1>3, DerivationFinds
<1>5. LabOneToOne(d) /\ ToBag(Resolved(t)) = ToBag(d.handled)
  BY DEF LabAccepts, LabSemantics
<1>6. CommandTrace(t) = w /\ AssessmentTrace(p) = d.assessmentTrace
  BY DEF LabAccepts, LabIntegrity
<1>7. /\ \A n \in DOMAIN t : n \in issued <=> IssuedAt(t, n)
      /\ \A n \in DOMAIN t : n \in outcomes <=> SettledAt(t, n)
      /\ issued \subseteq DOMAIN t /\ outcomes \subseteq DOMAIN t
      /\ \A n \in DOMAIN p : n \in results <=> p[n].kind = "CommandResult"
  BY DEF Positions, IssuedAt, SettledAt
<1> HIDE DEF issued, outcomes, results
<1>8. /\ IdsAt(t, outcomes) = IdsAt(t, issued) /\ IdsAt(p, results) = IdsAt(t, issued)
      /\ \A n \in results : \E m \in issued, k \in outcomes :
           /\ t[m].data.id = p[n].data.id /\ t[m].data.key = p[n].data.key
           /\ t[k].data.id = p[n].data.id
           /\ (t[k].kind = "CommandAccepted") = p[n].data.accepted
  BY <1>5 DEF LabOneToOne, issued, outcomes, results
<1> HIDE DEF t, p, w, x, N
<1>9. InOrder(x.trace) = w
  BY <1>6 DEF CommandTrace, x
<1>10. x = [pending |-> x.pending, seen |-> x.seen, trace |-> x.trace, odd |-> FALSE]
       /\ IsSeq(x.trace)
  BY <1>4 DEF Found
<1>11. ~x.odd
  <2> DEFINE pending == x.pending
             seen == x.seen
             trace == x.trace
  <2>1. x = [pending |-> pending, seen |-> seen, trace |-> trace, odd |-> FALSE]
    BY <1>10
  <2> HIDE DEF pending, seen, trace
  <2> QED BY <2>1
<1>12. ASSUME NEW id \in DOMAIN x.pending PROVE FALSE
  <2>1. /\ \E m \in 1 .. N : IssuedAt(t, m) /\ t[m].data.id = id
        /\ ~ \E n \in 1 .. N : SettledAt(t, n) /\ t[n].data.id = id
    BY <1>4, <1>12 DEF Found
  <2>2. id \in IdsAt(t, issued)
    BY <1>2, <1>7, <2>1 DEF IdsAt
  <2>4. id \in IdsAt(t, outcomes)
    BY <1>8, <2>2
  <2>3. PICK n \in outcomes : t[n].data.id = id
    BY <2>4 DEF IdsAt
  <2> QED BY <1>2, <1>7, <2>1, <2>3
<1>13. DOMAIN x.pending = {}
  BY <1>12
<1>14. WellTraced(d)
  BY <1>5, <1>6, <1>9, <1>11, <1>13 DEF WellTraced, t, p, w, x
<1>15. IsSeq(w) /\ ToSet(w) = ToSet(x.trace)
  BY <1>9, <1>10, InOrderKeeps
<1>16. ASSUME NEW n \in DOMAIN p, p[n].kind = "CommandResult"
       PROVE  LET result == p[n].data
                  entry  == {m \in DOMAIN w : w[m].issued.id = result.id}
              IN  /\ entry # {}
                  /\ \A m \in entry :
                       /\ (w[m].outcome = "CommandAccepted") = result.accepted
                       /\ w[m].issued.key = result.key
  <2> DEFINE result == p[n].data
  <2>1. n \in results
    BY <1>7, <1>16
  <2>2. PICK i \in issued, k \in outcomes :
           /\ t[i].data.id = result.id /\ t[i].data.key = result.key
           /\ t[k].data.id = result.id
           /\ (t[k].kind = "CommandAccepted") = result.accepted
    BY <1>8, <2>1
  <2>3. i \in 1 .. N /\ k \in 1 .. N /\ IssuedAt(t, i) /\ SettledAt(t, k)
    BY <1>2, <1>7
  <2> HIDE DEF result
  <2>4. \E y \in ToSet(x.trace) : y.issued.id = result.id
    BY <1>4, <2>2, <2>3 DEF Found
  <2>5. \E m \in DOMAIN w : w[m].issued.id = result.id
    BY <1>15, <2>4 DEF ToSet
  <2>6. ASSUME NEW m \in DOMAIN w, w[m].issued.id = result.id
        PROVE  (w[m].outcome = "CommandAccepted") = result.accepted /\ w[m].issued.key = result.key
    <3>1. w[m] \in ToSet(x.trace)
      BY <1>15 DEF ToSet
    <3>2. Entry(t, N, w[m])
      BY <1>4, <3>1 DEF Found
    <3>3. PICK j, h \in 1 .. N :
            /\ IssuedAt(t, j) /\ SettledAt(t, h) /\ t[j].data.id = t[h].data.id
            /\ w[m].issued = t[j].data /\ w[m].outcome = t[h].kind
      BY <3>2 DEF Entry
    <3>4. j = i
      BY <1>2, <1>3, <2>2, <2>3, <2>6, <3>3 DEF Paired
    <3>5. h = k
      BY <1>2, <1>3, <2>2, <2>3, <2>6, <3>3 DEF Paired
    <3>6. w[m].outcome = t[k].kind /\ w[m].issued.key = result.key
      BY <2>2, <3>3, <3>4, <3>5
    <3> QED BY <2>2, <3>6
  <2> QED BY <2>5, <2>6 DEF result
<1>17. WellAnswered(d)
  BY <1>16 DEF WellAnswered, p, w
<1> QED BY <1>14, <1>17

(* Replay Lab shows no file that the checks of integrity refuse, unless    *)
(* its last event is late or it is of another version of the engine.       *)
LEMMA LabIsStrict ==
  ASSUME NEW d, IsArtifact(d), d.identity.protocol = Protocol,
         LabAccepts(d), Last(d.truth).tick = d.finalTick
  PROVE  Integrity(d)
<1> DEFINE t == d.truth
           p == d.player
           session == d.identity.session
<1>1. WellTraced(d) /\ WellAnswered(d)
  BY LabTraces
<1>2. LabSemantics(d) /\ LabIntegrity(d)
  BY DEF LabAccepts
<1>3. /\ WellEnded(d) /\ LabSessions(d)
      /\ Says(t[1].data, d.identity) /\ Says(p[1].data, d.identity) /\ LabCompleted(d)
  BY <1>2 DEF LabSemantics
<1>4. /\ d.artifactHash = Without(d, "artifactHash")
      /\ t # <<>> /\ ValidStream(t, t[1].session, d.truthLogHash) /\ d.eventCount = Len(t)
      /\ p # <<>> /\ ValidStream(p, p[1].session, d.playerLogHash) /\ d.playerEventCount = Len(p)
  BY <1>2 DEF LabIntegrity, LabChain
<1>5. t[1].session = session /\ p[1].session = session
  <2>1. 1 \in DOMAIN t /\ 1 \in DOMAIN p
    <3>1. PICK S : t \in Seq(S)
      BY DEF IsArtifact, IsStream, IsSeq
    <3>2. PICK U : p \in Seq(U)
      BY DEF IsArtifact, IsStream, IsSeq
    <3> HIDE DEF t, p
    <3> QED BY <1>4, <3>1, <3>2
  <2> QED BY <1>3, <2>1 DEF LabSessions
<1>6. WellHashed(d)
  BY <1>4, <1>5 DEF WellHashed
<1>7. WellIdentified(d)
  BY <1>3, <1>5 DEF WellIdentified
<1>8. WellCompleted(d)
  <2> DEFINE ends == Positions(t, {"ScenarioCompleted"})
             last == t[Max(ends)].data
  <2>1. /\ last.finalScore = d.scoreDigest /\ Total(last.finalScore) = d.scoreTotal
        /\ last.finalTick = d.finalTick
    BY <1>2 DEF LabIntegrity
  <2>2. Max(ends) = Len(t)
    <3>1. Len(t) \in Nat
      BY LengthOfStream DEF IsArtifact
    <3> QED BY <1>3, <3>1, LastCompletion DEF WellEnded
  <2>3. last = Last(t).data
    BY <2>2 DEF Last
  <2> HIDE DEF last
  <2> QED BY <1>3, <2>1, <2>3 DEF WellCompleted, LabCompleted
<1> QED BY <1>1, <1>3, <1>6, <1>7, <1>8 DEF Integrity

(* The receipt of a file that passes the checks of integrity is accepted.  *)
LEMMA ReceiptFollows ==
  ASSUME NEW d, IsArtifact(d), Integrity(d)
  PROVE  VerifyReceipt(Receipt(d))
<1> DEFINE r == Receipt(d)
<1>1. /\ r.truth = d.truth /\ r.session = d.identity.session /\ r.truthLogHash = d.truthLogHash
      /\ r.eventLogHash = d.truthLogHash /\ r.eventCount = d.eventCount
      /\ r.scoreDigest = d.scoreDigest /\ r.scoreTotal = d.scoreTotal
  BY DEF Receipt
<1> HIDE DEF r
<1>2. WellHashed(d) /\ WellEnded(d) /\ WellCompleted(d)
  BY DEF Integrity
<1>3. ValidStream(r.truth, r.session, r.truthLogHash) /\ r.eventCount = Len(r.truth)
  BY <1>1, <1>2 DEF WellHashed
<1> DEFINE ends == Positions(r.truth, {"ScenarioCompleted"})
<1>4. ends # {} /\ Max(ends) = Len(d.truth)
  <2>1. Len(d.truth) \in Nat
    BY LengthOfStream DEF IsArtifact
  <2> QED BY <1>1, <1>2, <2>1, LastCompletion DEF WellEnded
<1>5. r.truth[Max(ends)].data = Last(d.truth).data
  BY <1>1, <1>4 DEF Last
<1> HIDE DEF ends
<1>6. /\ r.truth[Max(ends)].data.finalScore = r.scoreDigest
      /\ Total(r.truth[Max(ends)].data.finalScore) = r.scoreTotal
  BY <1>1, <1>2, <1>5 DEF WellCompleted
<1> QED BY <1>1, <1>3, <1>4, <1>6 DEF VerifyReceipt, r, ends

(* The verifiers agree on it as they should.                               *)
LEMMA EveryDamageIsNested ==
  ASSUME NEW a, IsArtifact(a)
  PROVE  EveryDamage(a, Nested)
<1>1. \A d : IsArtifact(d) => Nested(d)
  BY LabIsStrict, ReceiptFollows DEF Nested
<1>2. EveryDamage(a, IsArtifact)
  BY DamageLeavesArtifact
<1> QED BY <1>1, <1>2 DEF EveryDamage

(* What is known of the run and of what was shown makes the three agree.   *)
LEMMA NestedIsProved == EngineInv /\ ShownInv => VerifiersNest
BY ExportIsArtifact, EveryDamageIsNested DEF VerifiersNest

(* Whatever happens to the artifact of a completed session, Replay Lab     *)
(* shows no file that the command line's checks of integrity refuse,       *)
(* unless its last event is late or it is of another version of the        *)
(* engine, and the receipt of a file that passes them is accepted          *)
(* (verify.ts and receipt.ts against artifact.ts).                         *)
THEOREM VerifiersNestCorrect == RecordSpec => []VerifiersNest
BY EngineInvariant, ShownInvariant, NestedIsProved, PTL
===============================================================================

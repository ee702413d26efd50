------------------------------ MODULE RunArtifact ------------------------------
(***************************************************************************)
(* The run artifact of a completed session and its verification by the     *)
(* command line (packages/simulation/src/artifact.ts, with the hash chains *)
(* of packages/contracts/src/canonical.ts).                                *)
(*                                                                         *)
(* A hash stands for what it commits to: that of an event is the history   *)
(* up to it, a digest is the value itself.  The shape of payloads and the  *)
(* list of known event kinds are not modelled: nothing here has another.   *)
(***************************************************************************)
EXTENDS RunReplay

CONSTANTS
  Session,   \* the session's id
  Damaged    \* a value no field of an artifact has

Protocol == 1 \* ENGINE_PROTOCOL_VERSION
ScenarioDigest == <<"sha256", Scenario.id>>

Without(r, field) == [f \in DOMAIN r \ {field} |-> r[f]]

----------------------------------------------------------------------------
(***************************************************************************)
(* The two event streams.                                                  *)
(***************************************************************************)
Content(ev) ==
  [session |-> ev.session, seq |-> ev.seq, tick |-> ev.tick, kind |-> ev.kind, data |-> ev.data]
EventHash(ev) == Append(ev.prev, Content(ev))

(* Envelopes for a log: numbered from 0, each with the hash before it, and *)
(* its own over all the rest.                                              *)
Linked(events, ev) ==
  LET next == [session |-> Session, seq |-> Len(events), tick |-> ev.tick, kind |-> ev.kind,
               data |-> ev.data, prev |-> IF events = <<>> THEN <<>> ELSE Last(events).hash,
               hash |-> <<>>]
  IN  Append(events, [next EXCEPT !.hash = EventHash(next)])
Chained(log) == FoldLeft(Linked, <<>>, log)

Tip(events) == Last(events).hash

(* verifyEventStream and verifyPlayerEventStream *)
ValidStream(events, session, tip) ==
  /\ events # <<>>
  /\ \A n \in DOMAIN events :
       /\ events[n].session = session
       /\ events[n].seq = n - 1
       /\ n > 1 => events[n].tick >= events[n - 1].tick
       /\ events[n].prev = (IF n = 1 THEN <<>> ELSE events[n - 1].hash)
       /\ events[n].hash = EventHash(events[n])
  /\ Tip(events) = tip

OfKind(events, kind) == SelectSeq(events, LAMBDA ev : ev.kind = kind)
Positions(events, kinds) == {n \in DOMAIN events : events[n].kind \in kinds}

----------------------------------------------------------------------------
(***************************************************************************)
(* What an artifact derives from its logs.                                 *)
(***************************************************************************)
Outcome == {"CommandAccepted", "CommandRejected"}

(* An issued command waits for its outcome; an outcome settles it.         *)
Await(acc, ev) ==
  [acc EXCEPT !.odd = @ \/ ev.data.id \in acc.seen, !.seen = @ \cup {ev.data.id},
              !.pending = [id \in DOMAIN @ \cup {ev.data.id} |-> IF id = ev.data.id THEN ev ELSE @[id]]]

Settle(acc, ev) ==
  LET issued == acc.pending[ev.data.id]
  IN  [acc EXCEPT !.pending = Without(@, ev.data.id),
                  !.trace = Append(@, [seq |-> issued.seq, issued |-> issued.data,
                                       outcome |-> ev.kind, answer |-> ev.data])]

Traced(acc, ev) ==
  CASE ev.kind = "CommandIssued" -> Await(acc, ev)
    [] ev.kind \in Outcome /\ ev.data.id \notin DOMAIN acc.pending -> [acc EXCEPT !.odd = TRUE]
    [] ev.kind \in Outcome /\ ev.data.id \in DOMAIN acc.pending -> Settle(acc, ev)
    [] OTHER -> acc

(* deriveCommandTraceDetailed: each issued command with its outcome, and   *)
(* whether an id was issued twice or an outcome found no command.          *)
Derivation(events) ==
  FoldLeft(Traced, [pending |-> <<>>, seen |-> {}, trace |-> <<>>, odd |-> FALSE], events)

(* The trace is sorted by sequence number; equal ones stay in their order. *)
Placed(sorted, x) ==
  InsertAt(sorted, Cardinality({n \in DOMAIN sorted : sorted[n].seq <= x.seq}) + 1, x)
InOrder(trace) == FoldLeft(Placed, <<>>, trace)
CommandTrace(events) == InOrder(Derivation(events).trace)

AssessmentTrace(events) ==
  LET found == OfKind(events, "AssessmentSubmitted") IN [n \in DOMAIN found |-> found[n].data]

Resolved(events) ==
  FoldLeft(LAMBDA found, ev : IF ev.kind = "IncidentResolved" THEN Append(found, ev.data.incident)
                              ELSE found,
           <<>>, events)

----------------------------------------------------------------------------
(***************************************************************************)
(* buildRunArtifact                                                        *)
(***************************************************************************)
(* finalStateDigest: everything but the log. *)
StateDigest(e) == Without(e, "log")

Hashed(body) == [body EXCEPT !.artifactHash = Without(body, "artifactHash")]

Artifact(r, ledger) ==
  LET truth  == Chained(r.engine.log)
      player == Chained(r.bridge.log)
  IN  Hashed(
        [identity |-> [session |-> Session, scenario |-> Scenario.id,
                       scenarioDigest |-> ScenarioDigest, protocol |-> Protocol,
                       seed |-> r.engine.seed, totalTicks |-> Scenario.totalTicks],
         finalTick |-> r.engine.tick,
         eventCount |-> Len(truth), playerEventCount |-> Len(player),
         truthLogHash |-> Tip(truth), playerLogHash |-> Tip(player),
         stateDigest |-> StateDigest(r.engine),
         scoreDigest |-> r.engine.score, scoreTotal |-> Total(r.engine.score),
         handled |-> r.engine.handled,
         active |-> SelectSeq(Scenario.incidents, LAMBDA i : r.engine.incidents[i].active),
         commandTrace |-> CommandTrace(truth), assessmentTrace |-> AssessmentTrace(player),
         ledger |-> ledger, truth |-> truth, player |-> player, artifactHash |-> <<>>])

----------------------------------------------------------------------------
(***************************************************************************)
(* verifyRunArtifact, one operator for each part of it.                    *)
(***************************************************************************)
WellHashed(a) ==
  /\ a.artifactHash = Without(a, "artifactHash")
  /\ ValidStream(a.truth, a.identity.session, a.truthLogHash)
  /\ a.eventCount = Len(a.truth)
  /\ ValidStream(a.player, a.identity.session, a.playerLogHash)
  /\ a.playerEventCount = Len(a.player)

(* checkSingletonTerminal *)
OnceAt(events, kind, position) ==
  {n \in DOMAIN events : events[n].kind = kind} = {position}
WellEnded(a) ==
  /\ OnceAt(a.truth, "ScenarioStarted", 1)
  /\ OnceAt(a.truth, "ScenarioCompleted", Len(a.truth))
  /\ OnceAt(a.player, "SessionStarted", 1)
  /\ OnceAt(a.player, "RunCompleted", Len(a.player))

Says(data, identity) ==
  /\ data.scenario = identity.scenario
  /\ data.seed = identity.seed
  /\ data.totalTicks = identity.totalTicks
WellIdentified(a) ==
  /\ Says(a.truth[1].data, a.identity)
  /\ Says(a.player[1].data, a.identity)
  /\ a.truth[1].session = a.identity.session

WellCompleted(a) ==
  LET completed == Last(a.truth).data
      told      == Last(a.player).data
  IN  /\ completed.finalScore = a.scoreDigest
      /\ Total(completed.finalScore) = a.scoreTotal
      /\ completed.finalTick = a.finalTick
      /\ a.finalTick = a.identity.totalTicks
      /\ told.finalTick = a.finalTick
      /\ told.scoreTotal = a.scoreTotal

WellTraced(a) ==
  /\ LET Matches(derived) ==
           /\ InOrder(derived.trace) = a.commandTrace
           /\ DOMAIN derived.pending = {}
           /\ ~derived.odd
     IN  Matches(Derivation(a.truth))
  /\ AssessmentTrace(a.player) = a.assessmentTrace
  /\ ToBag(Resolved(a.truth)) = ToBag(a.handled)

(* crossBindCommandResults: every result a player was given is the outcome *)
(* of the command, under the key it was issued with.                       *)
WellAnswered(a) ==
  \A n \in DOMAIN a.player : a.player[n].kind = "CommandResult" =>
    LET result == a.player[n].data
        entry  == {m \in DOMAIN a.commandTrace : a.commandTrace[m].issued.id = result.id}
    IN  /\ entry # {}
        /\ \A m \in entry :
             /\ (a.commandTrace[m].outcome = "CommandAccepted") = result.accepted
             /\ a.commandTrace[m].issued.key = result.key

Integrity(a) ==
  /\ WellHashed(a) /\ WellEnded(a) /\ WellIdentified(a) /\ a.identity.protocol = Protocol
  /\ WellCompleted(a) /\ Last(a.truth).tick = a.finalTick
  /\ WellTraced(a) /\ WellAnswered(a)

(* verifyByReplay: the truth log from its own commands ... *)
TruthReplayed(a) ==
  LET Fits(replayed) ==
        /\ Tip(Chained(replayed.log)) = a.truthLogHash
        /\ Len(replayed.log) = a.eventCount
        /\ StateDigest(replayed) = a.stateDigest
        /\ Total(replayed.score) = a.scoreTotal
        /\ replayed.tick = a.finalTick
  IN  Fits(TruthReplay(a.identity.seed, a.truth))

\* Faulty: only the player log is compared with what the ledger gives.
PlayerReplayedOnly(a) ==
  Tip(Chained(LedgerReplay(a.identity.seed, a.ledger).bridge.log)) = a.playerLogHash

(* ... and both logs from the ledger of public actions. *)
LedgerReplayed(a) ==
  LET Fits(rebuilt) ==
        /\ Tip(Chained(rebuilt.bridge.log)) = a.playerLogHash
        /\ Len(rebuilt.bridge.log) = a.playerEventCount
        /\ Tip(Chained(rebuilt.engine.log)) = a.truthLogHash
  IN  Fits(LedgerReplay(a.identity.seed, a.ledger))

(* With the compiled scenario supplied, as null-city-run verify does. *)
VerifyRunArtifact(a) ==
  /\ Integrity(a)
  /\ a.identity.scenario = Scenario.id
  /\ a.identity.scenarioDigest = ScenarioDigest
  /\ TruthReplayed(a)
  /\ LedgerReplayed(a)

----------------------------------------------------------------------------
(***************************************************************************)
(* The run receipt (packages/simulation/src/receipt.ts): the truth log     *)
(* with its digests, for readers without a simulator.  What it holds is    *)
(* what an artifact of the run holds under the same names.                 *)
(***************************************************************************)
(* buildRunReceipt *)
Receipt(a) ==
  [session |-> a.identity.session, scenario |-> a.identity.scenario, seed |-> a.identity.seed,
   truth |-> a.truth, eventCount |-> a.eventCount, truthLogHash |-> a.truthLogHash,
   eventLogHash |-> a.truthLogHash, stateDigest |-> a.stateDigest, scoreDigest |-> a.scoreDigest,
   scoreTotal |-> a.scoreTotal, finalTick |-> a.finalTick, handled |-> a.handled, active |-> a.active]

(* verifyReceipt, for a receipt whose own hash fits: the chain, its length *)
(* and tip, and the score of the last completion, wherever that stands.    *)
VerifyReceipt(r) ==
  /\ ValidStream(r.truth, r.session, r.truthLogHash)
  /\ r.eventCount = Len(r.truth)
  /\ r.eventLogHash = r.truthLogHash
  /\ LET ends == Positions(r.truth, {"ScenarioCompleted"})
         completed == r.truth[Max(ends)].data
     IN  /\ ends # {}
         /\ completed.finalScore = r.scoreDigest /\ Total(completed.finalScore) = r.scoreTotal

----------------------------------------------------------------------------
(***************************************************************************)
(* Files that went wrong: one field, one action or one event differs, or   *)
(* the file says it is of the next version of the engine.  An edited       *)
(* file has its own hash again; a resealed one has also the chains, counts *)
(* and derived fields of the logs it now holds.                            *)
(***************************************************************************)
Edit == {"lost", "repeated", "swapped", "late"}
Edits(list, n) == IF n = Len(list) THEN Edit \ {"swapped"} ELSE Edit
Edited(list, edit, n, tick) ==
  CASE edit = "lost"     -> RemoveAt(list, n)
    [] edit = "repeated" -> InsertAt(list, n, list[n])
    [] edit = "swapped"  -> [list EXCEPT ![n] = list[n + 1], ![n + 1] = list[n]]
    [] edit = "late"     -> [list EXCEPT ![n][tick] = @ + 1]

Resealed(a) ==
  LET truth  == Chained(a.truth)
      player == Chained(a.player)
  IN  Hashed([a EXCEPT !.truth = truth, !.player = player,
                       !.eventCount = Len(truth), !.playerEventCount = Len(player),
                       !.truthLogHash = Tip(truth), !.playerLogHash = Tip(player),
                       !.commandTrace = CommandTrace(truth),
                       !.assessmentTrace = AssessmentTrace(player),
                       !.handled = Resolved(truth)])

Reseeded(a, seed) ==
  [a EXCEPT !.identity.seed = seed, !.truth[1].data.seed = seed, !.player[1].data.seed = seed]

Scalar == {"finalTick", "eventCount", "playerEventCount", "truthLogHash", "playerLogHash",
           "stateDigest", "scoreDigest", "scoreTotal"}
Listed == {"handled", "active", "assessmentTrace"}

EveryDamage(a, P(_)) ==
  /\ \A f \in Scalar : P(Hashed([a EXCEPT ![f] = Damaged]))
  /\ \A f \in Listed : P(Hashed([a EXCEPT ![f] = Append(@, Damaged)]))
  /\ \A f \in DOMAIN a.identity : P(Hashed([a EXCEPT !.identity[f] = Damaged]))
  /\ P(Hashed([a EXCEPT !.identity.protocol = @ + 1]))
  /\ \A seed \in DOMAIN Scenario.draws : P(Resealed(Reseeded(a, seed)))
  /\ \A n \in DOMAIN a.ledger : \A edit \in Edits(a.ledger, n) :
       P(Hashed([a EXCEPT !.ledger = Edited(@, edit, n, "atTick")]))
  /\ \A log \in {"truth", "player"} : \A n \in DOMAIN a[log] : \A edit \in Edits(a[log], n) :
       LET d == [a EXCEPT ![log] = Edited(@, edit, n, "tick")]
       IN  P(Hashed(d)) /\ P(Resealed(d))

(* What two artifacts of one run share: all but the list of active         *)
(* incidents, which no check reads, and the order of the handled ones.     *)
SameRun(a, b) ==
  /\ ToBag(a.handled) = ToBag(b.handled)
  /\ \A f \in DOMAIN a \ {"handled", "active", "artifactHash"} : a[f] = b[f]
===============================================================================

# Null City: TLA+ models and proofs

Null City is a disaster-response exercise. A deterministic simulation engine
plays a scripted incident scenario tick by tick; players and agents command
response teams over HTTP, WebSocket or MCP; they never see the truth log but a
stream of *player events*, from which every client rebuilds its own picture.
This directory models the parts of that system in which the order of calls,
events and messages decides what is right, checks the models with TLC, and
proves the central results with TLAPS for every value of the constants.

Source paths below are relative to the repository's root. `PROJECT.json` maps
each definition to the lines it models.

## The system

Everything on the server runs on one Node.js thread: a request handler runs
from its parameters to its reply without an `await`, so a handler is one atomic
step. What is concurrent is the order in which clients' requests, their retries
and the clock's advances arrive, and everything on the wire.

| Component | State it keeps | Operations | Interacts with | Hard part | What makes it correct |
|---|---|---|---|---|---|
| Engine (`packages/simulation/src/engine.ts`, `clock.ts`, `graph.ts`, `world.ts`, `score.ts`, `prng.ts`) | world (teams, roads, districts, incidents, resources, score), truth log, command and order counters, idempotency keys | `step`, `submitCommand`, `snapshot`, constructor from a snapshot | called by the hub; emits truth events | re-dispatch and cancellation between ticks, retries, same-tick effects, chained incidents, delayed observations | orders arrive at their tick or were cancelled; one order per team; waste and resources accounted for; a run resumes as it was |
| Bridge (`packages/epistemics/src/bridge.ts`, `claims.ts`, `project.ts`, `store.ts`) | observations heard of, claims, player events | `ingest`, `notify*`, `resolveVerification`, `since` | fed by the hub with truth events; feeds the player log | evidence arriving in any order, verdicts against later evidence | a claim's status says what its evidence says; verdicts stand |
| Hub and requests (`packages/server/src/hub.ts`, `rpc.ts`) | sessions, waiting verifications, public-action ledger, subscribers | `session.create/command/advance/assess/events/delete`, `admin.resume` | engine, bridge, sockets | a verification waiting for an order that changes meanwhile, the last tick, restart | the players' state mirrors the engine; each verification is answered by its own order; the terminal event is last |
| Sockets (`packages/server/src/ws.ts`, `apps/command-center/src/api/ws.ts`) | subscriptions, output buffers, reconnect timer | upgrade, hello, broadcast, drop, reconnect | hub, browser | broadcast before hello, lost sockets, slow clients | every page catches up |
| Command center (`apps/command-center/src/state`, `routes/CommandCenterPage.tsx`) | rebuilt player state, last applied sequence | load, apply, advance, command | REST and socket | the same event on two channels, in any order | applied once, in order, none missed |
| SDK and MCP server (`packages/sdk`, `packages/mcp-server`) | none beyond the session handle | reads, keyed commands, paging | REST | retries of calls that were executed, pages over a growing log | nothing executed twice, nothing skipped |
| Artifacts, receipts, replay (`artifact.ts`, `receipt.ts`, `public-replay.ts`, `apps/command-center/src/replay`) | a finished run's files | export, rebuild, verify | engine, bridge | a ledger that must reproduce a session | a damaged run is refused, a true one reproduced |
| Scenario schema, contracts (`packages/scenario-schema`, `packages/contracts`) | none at run time | compile, parse | engine, artifacts, Replay Lab | cyclic chains, an order that changes a digest, one value read by two schemas | compiled scenarios can be played; schemas agree |
| Benchmark (`packages/benchmark`) | one run's decisions, errors and record | `runOne`, `computeMetrics` | SDK | a server that is slow or silent, late calls | a run ends; its record and metrics are true |

## The modules

| Module | What it is | Code |
|---|---|---|
| `OrderLifecycle` | abstract specification of orders: numbered in sequence, one open order per team, travelling, working, closed, never backwards | what the engine promises |
| `TeamOrders` | teams, orders, roads, the command intake and the tick, with an instance of `OrderLifecycle` | `engine.ts`, `clock.ts` |
| `City` | extends `TeamOrders` by incidents and their chains, effects, levels, power, backup, advisories and the decision delay | `engine.ts`, `score.ts`, `world.ts` |
| `Observations` | reports: schedules, delay, loss, delivery, communication priority | `engine.ts` |
| `PlayerBridge` | observations, evidence, claims, verdicts | `bridge.ts`, `claims.ts` |
| `SessionHub` | a session: extends `TeamOrders` and `PlayerBridge` by the publication of each handler, the players' view, the waiting verifications, resume | `hub.ts`, `rpc.ts`, `project.ts` |
| `RunLog` | the engine as a function from inputs to truth log, replay of a log, snapshot and resume | `engine.ts`, `replay.ts` |
| `RunReplay` | extends it by bridge and mirror: the session as a function, and its rebuild from the ledger | `public-replay.ts`, `bridge.ts`, `hub.ts` |
| `RunArtifact` | artifact, hash chains, the verifier of the command line, the receipt and its verifier, and the damages a file may suffer | `artifact.ts`, `receipt.ts`, `canonical.ts` |
| `RunSnapshot` | a snapshot as written and what is checked before it is adopted | `snapshot.ts`, `engine.ts` |
| `ReplayLab` | the browser's verifier and its projection of any tick | `replay/verify.ts`, `replay/project.ts` |
| `LiveView` | the browser's projection event by event | `state/projector.ts` |
| `BenchmarkMetrics` | `computeMetrics` over the player log | `metrics.ts` |
| `SessionRecord` | composes the seven above: the handlers that write ledger and logs, with crashes and resumes | `rpc.ts`, `hub.ts` |
| `EventFeed` | the player log, sockets, REST replies, the browser's reducer | `ws.ts`, `hub.ts`, `store.ts`, command center |
| `EventPaging`, `ClaimPaging` | `get_events` and `list_claims` over a growing log and a shifting list | `tools.ts`, `limits.ts`, `session.ts`, `store.ts`, `project.ts` |
| `SdkCalls` | attempts, timeouts and retries against a server that executes late | `rest.ts`, `session.ts`, `http.ts`, `rpc.ts` |
| `BenchmarkRun` | extends it by `runOne`: a policy plays a session, a record is made | `runner.ts` |
| `RouteGraph` | `shortestTravelPath` as a recursive function over the passes of its loop, and the reference it is checked against | `graph.ts` |
| `RoadNetwork` | roads that close and open again, in every state of which the search is asked for its way | `engine.ts` |
| `ScenarioCompile` | the compiler's checks, `hasCycle`, the canonical order | `compile.ts` |
| `ScoreKeeping` | `computeScore` with its roundings, and the total players see | `score.ts`, `engine.ts`, `bridge.ts` |
| `EventSchemas`, `BoundarySchemas` | the payload schemas of contract and Replay Lab; the schemas of scenario file, artifact and replies | `truth-payloads.ts`, `player-payloads.ts`, `event-payloads.ts`, `schema.ts`, `schemas.ts`, `scenario-schema/src/index.ts` |
| `*_proofs` | inductive invariants and what follows from them; `TeamOrders_proofs` also the implementation of `OrderLifecycle`; `SessionHub_proofs` the bridge's proofs too; `Observations_proofs` those of `ScoreKeeping`, `EventFeed` and `RoadNetwork` too; `RunArtifact_proofs` those about verified artifacts; `Callers_proofs` those of `BenchmarkRun` and `ClaimPaging` | |
| `FoldLaws` | what the proofs need of folds and sums, about any operator that is folded | |
| `MC*` | small instances for TLC; `MCAlgorithms` joins the pure algorithms under one specification | |

Each model module has, above the definition it alters, operators marked
`Faulty:`: plausible mistakes in that very code. Substituting one for the real
definition must make the property it is listed with fail (`mutants` in
`PROJECT.json`), which shows that the property says something about the code.
No specification uses them.

### TeamOrders

`status`, `etaTick`, `order`, `location` and `wastedTicks` are the fields of
`TeamState`; `closed`, `usedKeys`, `commandSeq`, `orderSeq`, `totalWasted`,
`tick` and `phase` the engine's own. `emitted` is the tail of the truth log the
last handler wrote, which is what the hub reads. `dispatched`, `arrivedAt`,
`cancelledAt` and `executions` are history: what the append-only log says of
each order and key. One action per command handler, with both outcomes of
`submitCommand`: `Accept` with the command's effect, or `Reject` with the two
events only. `DispatchTeam` also stands for `REQUEST_VERIFICATION` and
`INSPECT_DISTRICT`, which call `dispatchTeam` with task `verify`. The early
returns of a handler form one conjunction; only the error code depends on their
order. A command that leaves team, order and road state alone is not in this module:
power, backup and advisories are in `City`, communication priority in
`Observations`. `Travel` is a constant table,
so the proofs hold for any travel times; the TLC instance computes it with
`RouteGraph`.

A completed engine answers every call without touching its state: stuttering.

### City

A tick is `TeamOrders`' `Step` together with the other phases of `step`, in the
code's order: `begun` to `pressed` is `processIncidents` (who works where is read
before the arrivals of the tick), `Monitored` the chain triggers, then
`Scheduled`, `Worked` (with the arrivals of the tick) and `BackedUp`. What the
code does one after another to one level is a fold over the sequence it walks,
since levels are clamped; team work has one sign per attribute and is a sum. The
monitors run in the scenario's order, so a chain may set off the next one in the
same tick. `severity`, `started`, `handled` and `occurred` are the fields of
`internal.incidents`; `below` is the count of a monitor, 0 when there is none. A
command is accepted or refused by `TeamOrders`' intake; `Responded` is
`recordFirstAction`, which dispatches, power, backup and advisories call, and
cancellations, road closures and communication priority do not. The default of
`trigger.district` is the source's district, as in the code and the schema
(`docs/scenario-authoring.md` says the chained incident's own); it is in the
constant `Watched`. Levels are whole numbers; the score's sums are left out.

### Observations

One action per tick: `Scheduled`, `Slide`, `Created` and `Transmit` are the loops
of `scheduleObservationsForIncident`, `createObservation` and
`processObservations`. Which incidents start or end and whose communications are
down is any choice in each tick, more than `City` does. A loss is a choice where
`lossProbability` is positive. The factor of a degraded channel is a whole
number, the halving by priority rounds as `Math.round` does. Left out: what a
report says (its corruption is a variant in `PlayerBridge` and a text in `RunLog`) and the `verified`
flag, which nothing reads.

### PlayerBridge

`pending`, `claims` as in the class; a value is one of a few texts, and a
variant of an observation says whether it is a false one. A lost observation is
one that is never delivered. `ResolveVerification` may happen at any time here;
`SessionHub` says when. The status `stale` has no producer in the source.

### SessionHub

Every handler is one action: the engine's action, then `Publish`, which is
`publishTruthDelta`: delivered evidence, the mirror of teams and roads, the
finished verifications, the terminal event, in the order of the code. `view` is
`applyPlayerEvent` folded over the pushed events and nothing else; `job` is
`pendingClaimVerify`. `session.advance` publishes after every tick, so one
action is one tick; other requests may come between the ticks of one advance,
which is more than the code allows and includes what it does. Which
observations are created and delivered in a tick is left open. `Resume` is
`admin.resume` from a snapshot of the present state: a new bridge hears the
log again, and the jobs and verdicts of the old one are gone.

Left out of this composition: score and resource events, the ledger, hash links,
activity lists. They carry data that no property here reads.

### RunLog, RunReplay and SessionRecord

`TeamOrders`, `City` and `Observations` say by which rules the engine works and
leave its inputs open. What is kept of a run is about sameness: that the same
inputs give the same run again. So here the engine is a record and its step and
each command are functions of it (`Stepped`, `Submitted`), reduced to what leaves
a trace in the log: no roads, no pressure, no stale reports. Random numbers are
a table by seed and position (`draws`), and the state holds the position, which
is what a replay or a resume must restore. `Ticks` is one tick with
`publishTruthDelta` behind it; that code stands twice, in `hub.ts` and in
`public-replay.ts`, line by line the same, and is one operator. What differs is
how an action comes in: `Command`, `Verify` and `Assess` of `SessionRecord` are
the server's handlers with the ledger, `Apply` the replay's. A verification is
recorded with three fields and submitted with the caller's own fields besides
(`more`); one may hold something the other has not.

`Save` and `Restart` are `admin.snapshot`, a crash and `admin.resume`; the
ledger is not in the snapshot and starts anew.

### RunSnapshot, RunArtifact and ReplayLab

A hash stands for what it commits to: an event's for the history up to it, a
digest for the value itself, so two hashes are equal exactly when what they
cover is. `Edited` and `EveryDamage` are what may happen to a file: a field, an
action of the ledger or an event changed, lost, doubled, moved or dated later,
as such or with all hashes made to fit again. `VerifyRunArtifact`,
`VerifyReceipt` and `LabAccepts` are the three verifiers, each check where its
code has it. `TruthAt`, `PlayerAt` and `Marked` are the projections behind the
scrubber. A report's content is a text, and a corruption of it another text that is
false or not, as the scenario's author says; the events carry both, and `Marked`
reads them from the logs as `buildEvidenceProvenance` does.

### LiveView and BenchmarkMetrics

Both read the player log and nothing else. `LiveView` keeps the lists in the
order of the code, what is updated moving to the end. In `BenchmarkMetrics`
probabilities are percents and a mean is kept as its terms.

### SdkCalls and BenchmarkRun

A caller awaits one call at a time. Each attempt puts a request on the wire; the
server executes it at any time, also after the caller gave it up, or never, and
its answer arrives if the caller still waits for that very attempt. A lost
reply, a 5xx and a timeout are one: the attempt failed. `Retryable` says what is
sent again. Of the session's log an entry is kept for each request that appended
to it. `BenchmarkRun` is `runOne` turn by turn: state, decision (which may throw
or time out), its commands and assessments up to the bounds, advance; then
events, summary and the record.

### EventFeed, EventPaging and ClaimPaging

An event is its sequence number, a batch an interval. A socket delivers in
order and may break, losing what is on it (`Disconnect` also stands for the
termination of a client that does not drain its buffer); REST replies arrive
in any order, or not at all. A handler broadcasts its events in one or two
messages, since an advance broadcasts per tick and a command its
`CommandResult` separately, and returns all of them in its reply.
`EventPaging` has one agent that follows `nextAfterSequence` and a log that
others append to. In `ClaimPaging` the same agent lists claims by offset, with
or without a filter, while events put a claim at the end of the list or settle
it in its place.

### The algorithms

`ScenarioCompile`: a scenario is a record of lists as the file has them; the
checks are one operator for each group of diagnostics, `Walk` is the depth-first
search with its two sets, `Ordered` the sorted lists whose digest names the
scenario. `ScoreKeeping`: points in thousandths, rounded to hundredths as
`Math.round` does, halves up; the two categories that are means have fractions,
the others stand together. `EventSchemas`: a value is one of the classes that
some check tells apart (an empty string, a long one, a whole number that is no
safe integer, ...), a type the set of classes it lets through.
`BoundarySchemas` adds which field of a scenario or of the server's state is
copied into which field of an event or a reply.

## What is checked

| Run | Instance | Shows | States, time |
|---|---|---|---|
| `orders` | a verification team that may be reassigned and a fire team that may not; two districts, a short and a long road; 4 commands under 4 keys, 4 ticks | `Punctual`, `HeldOrderIsLatest`, `StatusMatchesOrder`, `WasteIsCancelledTravel`, `ExecutedOnce`, and `ImplementsLifecycle` (refinement of `OrderLifecycle`) | 39,211, 0.5 min |
| `city` | one crew, two districts, a fire whose outage sets off a blackout, a relief effect; 3 commands under 3 keys, 6 ticks; a generator runs 3 ticks, one tick of grace, at most 5 points | `ChainsOnSustained`, `NeglectIsCharged`, `OutcomeIsFinal`, `BackupHoldsFloor` | 72,148, 1 min |
| `observations` | a prompt report, one that is doubled while communications are down and goes stale, one that follows its incident; two incidents, 4 ticks, any failures of two districts' communications | `LandsOnTime`, `CreatedOnSchedule`, `FateIsFinal` | 415,594, 0.5 min |
| `bridge` | three observations of one claim that agree, disagree or are false, one of another | `StatusReflectsEvidence`, `RefutedForCause`, `VerdictStands` | 4,971, 1 s |
| `session` | one team, two claims, 3 commands under 2 keys, 3 ticks, one resume | `PublicMirrorsEngine`, `JobBoundToLiveOrder`, `ResolvedByOwnOrder`, `AnsweredUnlessForgotten`, `TerminalEventIsLast` | 64,662, 1.3 min |
| `record` | a scout that may verify and may fight a fire, two districts a tick apart, a true report, a false one and an exaggerated one of one claim; 3 ticks, 2 commands or assessments, one snapshot and resume | `LedgerRebuildsRun`, `TruthRebuildsRun`, `AcceptedIsARun`, `VerifiersNest`, `MetricsTellTheRun`, `ScrubbedIsRun` | 4,666, 2.4 min |
| `feed` | a watching and a commanding page, 3 events, batches up to 2, one loss | `AppliedOnceInOrder`, `WatcherMissesOnlyWhileAway`, `CatchesUp` (liveness) | 22,972, 0.4 min |
| `paging` | limits 2 and 3 under a ceiling of 2, up to 6 events; three claims, limits 1 and 3, a filter | `ClaimsMissedOnlyByChange`, `EveryEventRead` (liveness) | 22,935, 0.8 min |
| `client` | 2 ticks, 2 attempts, two keys, decisions of one or two operations where one is the bound | `CallsTakeEffectOnce`, `RecordIsTrue`, `RunEnds` (liveness) | 442,210, 0.4 min |
| `algorithms` | networks of four roads over four districts, some of their ends and travel times fixed, every set of closed roads; scenarios up to two edits from a good one, among them every chaining of three incidents, each due at tick 0, 1 or 9 of 5; two means with fractions of hundredths, in any order; every field of every schema with every class of values | `DijkstraIsShortest`, `CompiledIsPlayable`, `ScoreIsExplained`, `PlayersSeeTheTotal`, `SchemasAgree` | 73,393, 1.1 min |
| `session_retry` | the `session` instance with one claim and no resume | violated: `AcceptedVerificationAnswered` | 4 s |
| `feed_gap` | one watching page, one loss | violated: `RebuildsFromStream` | 1 s |

Why these bounds suffice for the cases they are for. Four commands are a
dispatch, a re-dispatch of the working team, a cancellation and a repeated key,
in every order, for two teams at once; four ticks let the long road be
travelled to its end, cancelled on the way and cut off by the end of the run.
In `session`, three commands are a verification, its retry or cancellation, and
another order for the same team; the road takes two ticks, so requests fall
between departure and arrival, and three ticks put an arrival on the last one.
In `city`, the constants
120, 15, 2 and 50 of the code are small, so that a generator expires and is
started again, grace ends and the limit is reached within the run; the fire is
put out by one tick of work, the blackout by two, before or after the outage; the
relief effect lifts the watched level over the threshold between two misses. In
`observations`, four ticks hold a creation, its delay, two ticks of failure and the
staleness limit. Three events in `feed` are the first event, one published while a socket is
down or not yet greeted, and one broadcast after it. In `record`, two actions
are a command and its retry, a verification and its cancellation or an
assessment before or after the answer; a run with an assessment on both sides of
a verification is beyond the bound. The fire starts in tick 1, is fought or not
in tick 2 and gives a report with a tick's delay, so that a snapshot may fall
before, between and after them, with a report under way. Every file a run leaves
is damaged in every place, one damage at a time. In `client`, two ticks are an
advance that does not complete the run and one that does, and every attempt may
be the one that is executed late. In `paging`, six events let a claim be updated
more often than there are pages. Keys are compared for
equality only, which makes symmetry in them sound; no run with a liveness
property uses symmetry.

Deadlock checking is off where a run really ends: the clock is at its end and
the bound on commands is spent, the log is at its bound and all delivered, or an
algorithm's inputs are used up.

Type invariants are not checked in these runs where a theorem states them.

### Fairness

In `EventFeed`, `EventPaging` and `BenchmarkRun` only. A page loads, opens its
socket again after a delay for as long as it is open (`scheduleReconnect`), sends its hello,
and receives what is on the wire; each is weakly fair. Losing a socket or a
reply, commanding and publishing are not fair, and losses are bounded
(`MaxDrops`): a network that fails for ever lets nobody catch up. The agent of
`EventPaging` goes on paging; nothing makes the log grow, and the agent of
`ClaimPaging` need not list anything. In `BenchmarkRun` the runner's own steps
are weakly fair, among them giving up an attempt, since each has a timer
(`rest.ts`); the server owes nothing and may stay silent for ever. The policy's
`decide` is under a timeout in the code; its `reset` and `close` are taken to
return, for which the code does nothing. The engine and the
server do nothing by themselves, so the other specifications have none.

### Disagreements between code and documents

Shown by a run:

1. *A safe retry loses a verification* (`session_retry`). A rejected
   `REQUEST_VERIFICATION` clears what waits for the team (`rpc.ts:351`), also
   when it is the retry of the very request that put it there. The team
   arrives; no `VerificationResolved` is published. The engine's comment says a
   rejection has no side effects, and the tool's description that it is safe to
   retry. `AnsweredUnlessForgotten` holds: this and a restart are the only ways
   to lose one.
2. *Merging by sequence number does not rebuild the stream* (`feed_gap`). The
   reducer discards what is below the highest sequence applied, and a socket is
   subscribed before its hello is answered. A page that was away when an event
   was published may apply a later one first; the backlog then repairs nothing.
   `WatcherMissesOnlyWhileAway` bounds the damage: nothing published during a
   watching page's connection is missed.

Met while modelling; each is an exception in the property named, or outside it:

3. *`afterSequence` is inclusive.* `store.since` uses `>=` where
   `docs/protocol.md:34`, `sdk/src/types.ts:24` and the tool's description say
   "strictly after". Pages overlap by one event, and a page of one never
   advances: with `Limits = {1}` TLC finds `EveryEventRead` violated.
4. *Replay Lab fails a run with a retried key.* The engine logs
   `CommandIssued` for every attempt (`engine.ts:1007-1018`), the Lab refuses two
   with one key (`verify.ts:463`). In `ScrubbedIsRun`, `Keyed`.
5. *The ledger is not what was submitted.* A field of a verification's parameters
   beyond the contract reaches the engine and its truth log, but not the ledger
   (`rpc.ts:289-305`): the artifact is then refused by its own verifier. In
   `LedgerRebuildsRun` and `AcceptedIsARun`, `ByContract`. Likewise a `target`
   that is no string, a seed from 2^53 on and an empty observation category are
   accepted, and then no artifact can be built.
6. *A resumed session's artifact does not verify*: its ledger starts at the
   resume. The comment at `rpc.ts:519` tells of a field
   `playerHistoryRestored: false` that no code returns.
7. *The verifiers differ at the edges.* The command line does not look at
   `activeIncidents`. The Lab does not look at the tick on the completion's envelope,
   and takes any whole number for `engineProtocolVersion` (`verify.ts:377`): whether
   that is the present version it reports as not checked (`verify.ts:68`, `:682`),
   while the command line counts it against the file's integrity
   (`artifact.ts:562-567`). The receipt verifier takes the last completion wherever it stands. The Lab opens an
   envelope with an empty hash or session, which it then finds not to match.
   The exceptions of `VerifiersNest` and `SchemasAgree`.
8. *A snapshot that lost its last event*, with the counter adjusted, is accepted:
   the chain has no terminal hash. The exception in `TruthRebuildsRun`.
9. *A chained incident loses its source* in `projectTruthAtTick`, where
   `TrueIncidentOccurred` follows `IncidentChained`; and a tick is shown with
   the teams as the step left them, not as later commands of the tick did.
10. *Players' total lags* by up to two hundredths: the rounding adjustment is no
    score event (`PlayersSeeTheTotal` has the bound).
11. *`create` does not resume.* `sdk/src/session.ts:26-27` says an existing
    session is resumed; the server answers with a conflict (`rpc.ts:181`), so a
    lost reply to `create` locks its caller out.
12. *Benchmark.* A retried command that was executed is recorded as rejected; a
    late advance between the last reads makes a record say completed with the
    events of an unfinished run (only with an error of phase "advance", hence
    `RecordIsTrue`); `maxTicks` bounds a step, not the run. The Brier score takes
    the latest assessment of all, of two in a tick the earlier, where
    `docs/benchmark.md:65` has the latest before the resolution.
13. *Scenarios.* An incident or effect at tick 0 compiles and never starts:
    `step` advances the clock (`engine.ts:265`) before it activates what is due in
    this very tick (`engine.ts:402`), so tick 0 is not played. `CompiledIsPlayable`
    says that every incident of a compiled scenario can start *exactly when* none
    that is not chained is at tick 0. Two effects on one district in one tick keep the
    order of the file, which then decides the digest (`Tied`).
14. *The echo of a position* from 2^53 on is sent by the server and refused by
    the SDK (`RepliesAgree`).
15. *`list_claims` by offset* may hide one claim for every update of a claim
    already listed; `ClaimsMissedOnlyByChange` has the bound.
16. *Replay Lab calls an exaggeration false.* `isFalseReport` (`project.ts:330`) is
    true of a report whose corruption has `false: false` as soon as its text differs,
    where `docs/scenario-authoring.md:211-215` has `false: true` mark what is
    outright wrong, "as opposed to merely `exaggerated`/`understated` framing"; the
    shipped `black-river.json:127` has such a corruption. `MarkedRight`, in
    `ScrubbedIsRun`, says that every false report is marked, and of the others only
    those whose text was changed.

## What is proved

All proofs are checked by TLAPS for every value of the constants that satisfies
the modules' named assumptions. What these take for granted:

| Assumption | Of | Why the code justifies it |
|---|---|---|
| `TeamAssumption`, `ScenarioAssumption`, `BoundAssumption` | finitely many teams, based in districts, with tasks of the contract; travel times are natural numbers or `NoPath`; a run has a tick | a compiled scenario is a file (`compile.ts`) |
| `NullAssumption`, `NoClaimAssumption` and their like | the nulls are no values | `null` and `undefined` in the code |
| `CityAssumption` | every incident is in the list, each once; `forTicks` is positive | `compile.ts:73`, `:262`; `.positive()` in `scenario-schema/src/index.ts:130` |
| `ChannelAssumption` | finitely many reports; delays and offsets are natural numbers | scenario schema |
| `ClaimAssumption`, `HubAssumption` | each observation is about one claim, each claim about one district; finitely many observations | `claims.ts` |
| `FeedAssumption` | who commands has a page; the bounds are numbers | |
| `CallAssumption`, `RunAssumption` | at least one attempt, one tick; a decision holds two lists | `rest.ts`, `runner.ts` |
| `PagingAssumption` | limits and ceiling are positive | `limits.ts:18` |
| `RecordAssumption`, `DigestAssumption`; in `RunLog` the lists of teams, incidents and reports | a request names a command of the contract, and a verification's parameters are those `Targeting` reads; a digest is not empty | `commands.ts`, `rpc.ts:289`; `engine.ts:67`, `snapshot.ts:54` |
| `NetworkAssumption` | finitely many districts and roads; roads join districts in a positive number of ticks | `scenario-schema/src/index.ts:60-68`, `compile.ts` |
| `ScoreAssumption` | integers; the counted categories are whole hundredths | `score.ts` |

Each invariant below was checked by TLC, on the instance of its run, before it
was proved.

**Orders.** `TeamOrders_proofs!Invariant`: `Spec => []IInv`. `IInv` adds to the
checked properties `Numbering` (orders above `orderSeq` are unknown to the log,
those below have a record whose dispatch is in the past; a running engine has a
tick left) and `Underway` (an order that neither arrived nor was cancelled is held
by a travelling team). `Punctual` alone is not inductive: that a dispatched order
arrives needs that its team still holds it, which needs that a travelling team is
not dispatched again and that the last order of a team is the one it holds.

- `LifecycleImplemented`: `Spec => ImplementsLifecycle`. Each command maps to
  `Issue` or `Cancel` of the abstract specification or to a stutter, a tick to the
  arrival of a set of orders; the lemmas compute the stage of each order after
  each step from `IInv`. `OneOpenOrderAlways` is proved of the abstract life cycle,
  and `EngineOneOpenOrder` carries it to the engine.
- `WasteCorrect`: what is counted as wasted is the sum over the cancelled orders. A
  step changes one summand or none; the law of sums says that the sum then changes
  by as much.

**City.** `City_proofs!CityInvariant`: `CitySpec => []CityInv`. That a chain starts
exactly on a sustained condition is inductive with `Counted`: while the source is
active, a monitor's count is the length of the run of ticks, up to now, in which the
condition held, and below `forTicks`; before, it is 0. The monitors of a tick are
one fold over the incidents in the scenario's order, and one may set off the next:
the invariant of that fold splits the incidents into those the walk has not
reached, which are as the tick began, and those it has, each of which waits on or
was turned exactly on its condition. `Lists` (the list is what has started, each
once) is why no incident is walked twice. `BackupHoldsFloorCorrect`
needs that a started generator is still on the list (`StillRuns`) and that lifting
the power after all else leaves it at the floor; `NeglectIsChargedCorrect` that the
delay's points are a sum whose summands only grow and are each below the limit.
`EngineUnderCity`: each step of the city is a step of `TeamOrders` or leaves it
alone, so `IInv` and the waste's accounting hold in a city, whatever it suffers.

**Reports.** `Observations_proofs!ObservationInvariant`: `Spec => []ObsInv`.
`LandsOnTime` is not inductive: that a report lands when it should needs that its
`deliveryTick` already holds every failure up to the present (`OnRecord`), and that
nothing in flight is overdue. `CreatedOnSchedule` needs that exactly the reports
still to come are waiting, each at its own tick (`WaitingToCome`), and that starts
are in the past (`Chronology`). The proof says what becomes of one report in a tick
(`CreatedNow`, `Moves`) and how the count of failures grows (`HeldUpByStep`), and
draws each property from that; `StepCounted` counts the lost as a disjoint union.

**Bridge and session.** `SessionHub_proofs!BridgeInvariant`: `BridgeSpec =>
[]BridgeInv`, with `ClaimsGrounded` (a claim's value is the text of a delivered
piece of its evidence) as the strengthening: comparing new evidence with the last
value stands for comparing with all evidence only because an uncontested claim's
evidence agrees.

`HubInvariant`: `HubSpec => []HubInv`. `HubInv` holds the engine's `IInv`
(`EngineUnderServer`: each handler is an engine's step or leaves it alone), the jobs
and the answers, and that `view`, which only ever folds pushed events, is one of
`Showing`, the views that show the present state. A handler pushes a batch whose
length depends on what was delivered and which teams moved, and folds over it: for
each part of a batch one lemma says how far the view then shows the new state (the
teams walked so far new, the rest old), and the parts compose to `MirrorsEngine`.
`RequestsWait` (a verification under way waits in the job of its team, or was
forgotten) is what `JobsBound`, `AnswersAreTheirs` and `ArrivalsAreAnswered` need
beyond themselves; `TerminalIsLast` is about the batch of the last tick.

**Feed.** `Observations_proofs!FeedInvariant`: `FeedSpec => []FeedInv`. A page misses
nothing while its socket is open because of what is still queued on it, so the
strengthening speaks of the queue: each message begins where the one before ended,
or at a place the page has already reached, and the last one reaches the end of the
log (`SocketGapless`, `Reached`). `PagesApplyInOrder` and `WatchersMissNothing`
follow, for any number of pages, reconnects and overtakings.

**Callers.** `Callers_proofs!RunInvariant`: `RunSpec => []RunInv`. That nothing is
executed twice needs `Numbered`: requests and log entries of one number are of one
operation and key, and a request that must not be repeated is not on the wire once
it has an entry. That the record is the run's needs `Sequential`: an advance is on
the wire only while it is awaited or once an error was noted, so that a completed
session's log no longer grows unless the record says so; `AnswerIsTrue` carries
what a reply says until it is read. `CallsTakeEffectOnceCorrect` and
`RecordIsTrueCorrect` follow, for any number of attempts and losses.

`PagingInvariant`: `PagingSpec => []PagingInv`, the properties of `paging` for any
limits, ceiling and claims. What a filter keeps of two lists joined is what it keeps
of each, joined; the projection holds a claim once (`OncePerClaim`), so a list is
taken apart at the claim an event is about, and of the claims behind the agent at
most one is new (`ChangeMovesOne`). A page shows what it moves behind the agent
(`PageFollows`).

**Score.** `Observations_proofs!ScoreInvariant`: `ScoreSpec => []ScoreInv`. That the
total is the exact score rounded once needs that every entry is a whole hundredth
(`InHundredths`) and each category within half a hundredth of what was pushed, so
that the drift can be booked in one adjustment; that players are at most two
hundredths off needs that what they see was right when the entries last changed
(`SeenWithEntries`).

**Records.** `SessionRecord_proofs!EngineInvariant`: `RecordSpec => []EngineInv`,
and `LedgerInvariant`: `RecordSpec => []LedgerInv`. Both say that a record *replayed*
gives the run, so both compare an engine with the fold of a function over the
engine's own log, or over the ledger. The argument has three layers.

- *Nothing looks at the log.* The engine's step and commands, the mirror and the
  bridge do the same to an engine whose log has something else before it (the lemmas
  `...Alike`). What each adds to the log is said at the same time: `Quiet` events of
  one tick, and around them at most a start, a command with its one outcome, or the
  completion (`Stepped`, `Responds`, `RanOn`, `HandledOn`).
- *The inductive invariants.* `Traceable`: resubmitting the commands of the log to a
  fresh engine of the same seed and going on for the ticks that are left gives the
  engine (`Retraced`). This is not inductive by itself: that a command of the log is
  resubmitted in the very tick in which it was issued needs the ticks of the log
  rising (`Rising`); that nothing of the log but its commands counts, and that it
  ends where the run ended, needs its frame (`Framed`, `Ended`); that the digest is
  the same needs that what is counted as handled is what the log resolves (`Tally`).
  `SavedInv` says the same of the snapshot, so a restart is covered. `Rebuilds`, for
  the ledger: replaying it and going on to the present tick gives the run, *at every
  moment* and not only when it is complete; a ledger entry is then one step of the
  proof for each handler. What a caller adds to a verification's parameters reaches
  the truth log and not the ledger (5. above), so what is rebuilt is the run with
  those fields taken out of its log (`PlainRun`), and that no player event depends on
  them is a part of the proof (`ToldEchoes`, `HandledAlike`).
- *Chains.* A log as envelopes is numbered without a gap, each hash a history one
  longer than the last (`ChainedIs`); so an event lost, repeated, moved or dated later
  leaves an envelope out of its place or with another's hash (`EditBreaks`), and no
  verifier of streams takes it.

`TruthRebuildsRunCorrect` and `LedgerRebuildsRunCorrect` follow, for any scenario,
table of draws, requests, seeds and number of actions and restarts.

**Artifacts.** `RunArtifact_proofs!AcceptedIsGenuine`: any file of an artifact's
shape that the verifier accepts is the artifact which the run of its own seed and
ledger exports. A hash is the history it commits to, and so two chains with one tip
are one chain (`TipTells`); the verifier compares the file's tips with those
of the replayed logs, hence the logs are the run's, and every other field is derived
from the logs or compared with them. The list of active incidents is the one field
left out (7. above). This takes neither a run nor an invariant, and no assumption on
who made the file.

That the verifier accepts what a session exports is `LedgerRebuildsRunCorrect` and
`TruthRebuildsRunCorrect` for its replays, and for the rest
`ShownInvariant`: `RecordSpec => []ShownInv`. Its main part is `Accounted`: going
through the truth log, the derivation of the command trace has nothing pending and
nothing odd after every handler, and every command result on the players' log is
borne by an entry of that trace, with its outcome and key (`ToldRight`).
Between `CommandIssued` and the outcome the trace has one command pending, which is
why it is an invariant of handlers and not of events. A restart
keeps the truth log but not the players', hence `Fresh`.

`EveryDamageIsRefused` walks through the damages: a field, an action or an event
changed, lost, doubled or moved, the file hashed anew or all its chains made to fit,
leaves a file of the same shape, so that `AcceptedIsGenuine` applies to each.
`AcceptedIsARunCorrect` (`RecordSpec => []AcceptedIsARun`) is the three together.

`VerifiersNestCorrect`: `RecordSpec => []VerifiersNest`. `DamageLeavesArtifact` says
that each damage leaves a file of an artifact's shape, and of such a file
`LabIsStrict` that what Replay Lab passes has integrity for the command line, but for
the two things it does not look at (7. above): the two programs share no code and look
at different fields, so each check of the one is derived from those of the other
(the Lab pairs commands, outcomes and results by their ids, the command line walks
the log with what is pending). `ReceiptFollows` says that the
receipt of such a file, if it has integrity, is accepted.

**Roads.** `Observations_proofs!DijkstraIsShortestCorrect`: `RoadSpec =>
[]DijkstraIsShortest`, for any network and any set of closed roads. `Explored` is
the invariant of the loop: no district settled is farther than one still to be
settled; every open road out of a settled district has been tried; and every tentative
distance is that of some way of as many stops as districts were settled, so of one the
reference looks at. From it follows that no way is shorter than what a finished search
holds (`NoneShorter`). Each pass settles one more district of those with an open road
(and the first), so the search is finished when the bound on the passes is reached
(`LoopEnds`).

**Folds.** The library's induction theorems take an operator as a parameter, which
the provers cannot instantiate. `FoldLaws` goes round this: it states its laws of
one constant operator `Op`, with a parameter of its own, and a module takes an
instance with its own operator for `Op`. Induction itself is proved there from the
least element of a set of numbers, so that a property is given as the set of
numbers that have it. What results are the equations of a fold (on the empty list, on a
list with one more at its end), sums over a set split at an element, and their
bounds.

**Only model-checked.** `CompiledIsPlayable` compares the compiler with a
reference (through a `RECURSIVE` operator, with which
the provers' SMT backend cannot be used); `SchemasAgree` has every case in its
instance. Of the properties of `record`,
`MetricsTellTheRun` and `ScrubbedIsRun` compare metrics and projections computed
from a whole player log with the run, event by event. All liveness: `CatchesUp`, `EveryEventRead`
and `RunEnds` need fairness and `ENABLED`. Of the two expected violations there is
nothing to prove.

## Not modelled

- Two teams in one session's hub with two claims: the instance is too large to
  check together with a restart; `orders` has two teams, `session` two claims.
- `City` driving `Observations`: each is checked against any behaviour of the other,
  which is more than the composition can do; `RunLog` has both, reduced.
- Deletion of a session and its re-creation under the same id while sockets are
  subscribed: the hub drops its reference and nothing publishes to the old
  subscribers any more.
- `ReplayLabPage`: which of two artifacts the page shows. An artifact that arrives
  from the server replaces the one on the screen without resetting tick or
  comparison, and the old one stays after navigation until the new one is there.
  These are states of rendering; `ScrubbedIsRun` is about what a tick shows.
- The matrix of benchmark runs and its reports, which aggregate finished records;
  the other MCP tools and the WebSocket's own RPC, which forward one call.
- Rendering, wording, activity lists and topology layouts of the command
  center; hashing and canonical JSON as bytes; argument parsing, HTTP routing and
  body limits; scripts, recorded evidence and audit documents.

What could follow, in this order: `ScrubbedIsRun`, for which `EngineInvariant` and
`ShownInvariant` are the ground; the bridge's invariant under the session,
where evidence comes in batches.

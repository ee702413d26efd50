----------------------------- MODULE SessionRecord -----------------------------
(***************************************************************************)
(* What a session keeps so that its run can be shown to others: the truth  *)
(* log, the player log and the ledger of public actions                    *)
(* (packages/server/src/rpc.ts, hub.ts), with snapshots and restarts.      *)
(*                                                                         *)
(* The handlers decide what enters the ledger; RunReplay says what a       *)
(* verifier rebuilds from it, and the properties relate the two.           *)
(*                                                                         *)
(* A completed session refuses commands and assessments before anything is *)
(* written (SessionHub checks it), so both are guarded by the phase here.  *)
(***************************************************************************)
EXTENDS ReplayLab, RunSnapshot, LiveView, BenchmarkMetrics

CONSTANTS
  Seeds,       \* seeds sessions are created with
  Requests,    \* bodies of session.command: [name, params]
  Keys,        \* idempotency keys
  Beliefs,     \* probabilities of an assessment, in percent
  NoSnapshot,
  MaxActions,  \* bound on commands and assessments
  MaxRestarts  \* bound on crashes followed by admin.resume

ASSUME RecordAssumption ==
  /\ Seeds \subseteq DOMAIN Scenario.draws
  /\ Beliefs \subseteq 0 .. 100
  /\ MaxActions \in Nat
  /\ MaxRestarts \in Nat
  /\ \A r \in Requests : r.name \in CommandName
  /\ \A r \in Requests : r.name = "REQUEST_VERIFICATION" => DOMAIN r.params = {"team", "claim", "more"}

VARIABLES
  run,      \* the SessionRecord: engine, bridge, pendingClaimVerify
  ledger,   \* publicActionLedger
  saved,    \* the last admin.snapshot
  restarts  \* how often the session was resumed

recordVars == <<run, ledger, saved, restarts>>

Running == run.engine.phase = "running"
Public(c) == run.bridge.claims[c] # NoClaim
Room == run.engine.commands + Len(OfKind(ledger, "assessment")) < MaxActions

RecordInit ==
  /\ \E seed \in Seeds : run = Started(FreshEngine(seed))
  /\ ledger = <<>>
  /\ saved = NoSnapshot
  /\ restarts = 0

(* session.advance, a tick of it. *)
Advance ==
  /\ Running
  /\ run' = Ticks(run, 1)
  /\ UNCHANGED <<ledger, saved, restarts>>

Action(name, params, key) ==
  [kind |-> "command", atTick |-> run.engine.tick, name |-> name, params |-> params, key |-> key]

(* session.command for everything but a verification: what was asked for   *)
(* is recorded and submitted as it is.                                     *)
Command(r, key) ==
  /\ Running
  /\ r.name # "REQUEST_VERIFICATION"
  /\ ledger' = Append(ledger, Action(r.name, r.params, key))
  /\ run' = Handled(run, r, key, NoClaim)
  /\ UNCHANGED <<saved, restarts>>

(* The ledger keeps the three fields of the public contract; a field the   *)
(* caller added reaches the engine but not the ledger.                     *)
Recorded(p) == [team |-> p.team, claim |-> p.claim, target |-> Where(p.claim)]

(* session.command for a verification of a public claim: the server puts   *)
(* the claim's district in the claim's place.                              *)
Verify(r, key) ==
  /\ Running
  /\ r.name = "REQUEST_VERIFICATION"
  /\ Public(r.params.claim)
  /\ ledger' = Append(ledger, Action(r.name, Recorded(r.params), key))
  /\ run' = Handled(run, [name   |-> r.name,
                          params |-> Targeting(r.params.team, Where(r.params.claim),
                                               r.params.more)],
                    key, r.params.claim)
  /\ UNCHANGED <<saved, restarts>>

(* session.assess *)
Assess(c, probability) ==
  LET id == Len(run.bridge.log) + 1
  IN  /\ Running
      /\ Public(c)
      /\ ledger' = Append(ledger, [kind |-> "assessment", atTick |-> run.engine.tick,
                                   id |-> id, claim |-> c, probability |-> probability])
      /\ run' = AssessedIn(run, [id |-> id, claim |-> c, probability |-> probability,
                                 at |-> run.engine.tick])
      /\ UNCHANGED <<saved, restarts>>

(* admin.snapshot, once in a session's life. *)
Save ==
  /\ restarts < MaxRestarts
  /\ saved = NoSnapshot
  /\ saved' = Snapshot(run.engine)
  /\ UNCHANGED <<run, ledger, restarts>>

(* A crash, and admin.resume: the ledger is not in the snapshot, which is  *)
(* not used twice.                                                         *)
Restart ==
  /\ saved # NoSnapshot
  /\ Binds(Packed(saved), Session, run.engine.seed)
  /\ run' = Started(Resumed(saved))
  /\ ledger' = <<>>
  /\ restarts' = restarts + 1
  /\ saved' = NoSnapshot

RecordNext ==
  \/ Advance
  \/ Room /\ \E r \in Requests : \E key \in Keys : Command(r, key) \/ Verify(r, key)
  \/ Room /\ \E c \in Claim : \E probability \in Beliefs : Assess(c, probability)
  \/ Save
  \/ Restart

RecordSpec == RecordInit /\ [][RecordNext]_recordVars

----------------------------------------------------------------------------
Completed == run.engine.phase = "completed"
Fresh == restarts = 0

(* No request carried a field beyond the contract: every command reached   *)
(* the engine as the ledger keeps it.                                      *)
Issued == OfKind(run.engine.log, "CommandIssued")
ByContract ==
  \A n \in DOMAIN run.engine.log :
    LET ev == run.engine.log[n]
    IN  ev.kind = "CommandIssued" /\ ev.data.name = "REQUEST_VERIFICATION"
          => ev.data.params.more = Nothing

(* The seed and the ledger of a completed session give back its player     *)
(* log, event for event, and its truth log too unless a request carried a  *)
(* field beyond the contract (replayFromPublicActions in the verifier,     *)
(* publicActionLedger in rpc.ts), however commands, assessments and ticks  *)
(* were interleaved.                                                       *)
LedgerRebuildsRun ==
  LET SameAs(rebuilt) ==
        /\ rebuilt.bridge.log = run.bridge.log
        /\ ByContract => rebuilt.engine.log = run.engine.log
  IN  Completed /\ Fresh => SameAs(LedgerReplay(run.engine.seed, ledger))

(* The seed and the truth log alone give back the engine's whole state,    *)
(* also for a session that crashed and was resumed from any snapshot:      *)
(* resuming loses nothing the engine goes on to use, and every snapshot    *)
(* the engine took is taken back, from memory and from a file, unless an   *)
(* event of it was lost, repeated, moved or dated later; but a snapshot    *)
(* that lost its last event, and counts one less, is taken back too        *)
(* (replayEventLog, snapshot, validateResumeBinding,                       *)
(* loadSnapshotFromFile).                                                  *)
JustSaved == saved # NoSnapshot /\ saved.sequence = Len(run.engine.log)
SavedWith(events) == [Packed(saved) EXCEPT !.events = events, !.sequence = Len(events)]
TruthRebuildsRun ==
  /\ Completed => TruthReplay(run.engine.seed, run.engine.log) = run.engine
  /\ JustSaved =>
       LET s == Packed(saved)
       IN  /\ Binds(s, Session, run.engine.seed) /\ Loads(File(s))
           /\ \A n \in DOMAIN s.events : \A edit \in Edits(s.events, n) :
                LET events == Edited(s.events, edit, n, "tick")
                IN  \/ events = s.events
                    \/ edit = "lost" /\ n = Len(s.events)
                    \/ ~Binds(SavedWith(events), Session, run.engine.seed)

----------------------------------------------------------------------------
(***************************************************************************)
(* The artifact of a completed session, and the files it may become.       *)
(***************************************************************************)
Keyed == Once(Issued, DOMAIN Issued, "key")

RightlyAccepted(d) ==
  VerifyRunArtifact(d) =>
    SameRun(d, Artifact(LedgerReplay(d.identity.seed, d.ledger), d.ledger))

(* The command line accepts the artifact of every session that was not     *)
(* resumed and had no request with a field beyond the contract, and        *)
(* accepts no other file than the artifact of some run:                    *)
(* whatever happened to a field, an action or an event, and even with all  *)
(* hashes made to fit again, an accepted file is the one that the run of   *)
(* its own seed and ledger exports (verifyRunArtifact; the list of active  *)
(* incidents is not checked).  That goes for a resumed session's artifact, *)
(* whose ledger is not complete.                                           *)
AcceptedIsARun ==
  Completed =>
    LET a == Artifact(run, ledger)
    IN  /\ Fresh /\ ByContract => VerifyRunArtifact(a)
        /\ RightlyAccepted(a)
        /\ Fresh /\ saved = NoSnapshot => EveryDamage(a, RightlyAccepted)

(* The three verifiers nest.  What Replay Lab passes has integrity for the *)
(* command line, but for two things the Lab does not look at: the tick on  *)
(* the envelope of the completion, and whether the engine's version is the *)
(* present one, which it reports as not checked.  The receipt verifier,    *)
(* which sees the truth log alone, accepts what the command line accepts   *)
(* of it (verify.ts and receipt.ts against artifact.ts).                   *)
Nested(d) ==
  /\ LabAccepts(d) /\ Last(d.truth).tick = d.finalTick /\ d.identity.protocol = Protocol
       => Integrity(d)
  /\ Integrity(d) => VerifyReceipt(Receipt(d))
VerifiersNest ==
  Completed /\ Fresh /\ saved = NoSnapshot => EveryDamage(Artifact(run, ledger), Nested)

(* Replay Lab shows the artifact of every session in which no key was used *)
(* twice, and a tick as it was when the clock left it, from events         *)
(* alone: the incidents, the teams (as the step left them, for a command   *)
(* logs no state) and the players' view.  It marks every false report as   *)
(* false, and of the others only those whose text was changed, however     *)
(* slightly, which an author need not call false; and as distorted what    *)
(* was changed or late                                                     *)
(* (projectTruthAtTick, projectPlayerAtTick, buildEvidenceProvenance).     *)
(* The page of a run that still goes on shows, after every handler and     *)
(* not only between ticks, what Replay Lab would: it counts every event,   *)
(* has each item once, shows the teams, the score and the claims as the    *)
(* server has them, and marks no false report as verified                  *)
(* (applyPlayerEvent in projector.ts).                                     *)
Commanded == \E n \in DOMAIN run.engine.log :
  run.engine.log[n].kind = "CommandAccepted" /\ run.engine.log[n].tick = run.engine.tick
Occurred == {i \in Incident : Scenario.startTick[i] \in 1 .. run.engine.tick}
TruthShown(truth) ==
  /\ truth.incidents = Occurred
  /\ truth.active = {i \in Incident : run.engine.incidents[i].active}
  /\ run.engine.tick > 0 /\ ~Commanded => truth.teams = run.engine.teams
ViewShown(view) ==
  /\ view.phase = "running"
  /\ view.teams = OwnTeams(run.engine)
  /\ view.score = Total(run.engine.score)
  /\ view.evidence = Evidence(run.bridge)
  /\ view.claims = [c \in {d \in Claim : Public(d)} |-> run.bridge.claims[c].status]
MarkedRight(r) ==
  \A n \in Positions(r.bridge.log, {"EvidenceRecorded"}) :
    LET o       == r.bridge.log[n].data.obs
        known   == r.bridge.known[o]
        marked  == Marked(r.engine.log, r.bridge.log[n])
        delayed == Scenario.delay[o] > 0
    IN  /\ known.false => marked.false
        /\ marked.false => known.false \/ known.text # Scenario.content[o]
        /\ known # Made(Scenario.content[o]) \/ delayed => marked.distorted
        /\ marked.distorted => known = Scenario.corruption[o] \/ delayed
Ids(list) == {list[n].id : n \in DOMAIN list}
LiveShown(view, r) ==
  /\ view.phase = r.engine.phase
  /\ view.count = Len(r.bridge.log) /\ view.tick = Last(r.bridge.log).tick
  /\ view.score = Total(r.engine.score)
  /\ \A f \in {"claims", "evidence", "assessments", "teams"} :
       Cardinality(Ids(view[f])) = Len(view[f])
  /\ ToSet(view.teams) = {[id |-> t, state |-> OwnTeams(r.engine)[t]] : t \in TeamName}
  /\ ToSet(view.claims) =
       {[id |-> c, status |-> r.bridge.claims[c].status] :
          c \in {d \in Claim : r.bridge.claims[d] # NoClaim}}
  /\ Ids(view.evidence) = Evidence(r.bridge)
  /\ \A n \in DOMAIN view.evidence :
       view.evidence[n].verified => ~r.bridge.known[view.evidence[n].id].false
ScrubbedIsRun ==
  [][/\ (Completed /\ Fresh /\ saved = NoSnapshot /\ Keyed)' => LabAccepts(Artifact(run', ledger'))
     /\ LiveShown(Projected(run'.bridge.log), run')
     /\ MarkedRight(run')
     /\ Advance =>
          /\ TruthShown(TruthAt(run'.engine.log, run.engine.tick))
          /\ ViewShown(PlayerAt(run'.bridge.log, run.engine.tick))]_recordVars

----------------------------------------------------------------------------
(***************************************************************************)
(* The metrics of a benchmark, which come from the player log alone,       *)
(* against the engine, the bridge and the truth log.                       *)
(***************************************************************************)
Decisions(kind, name) ==
  {n \in DOMAIN Issued : Issued[n].data.name = name
     /\ \E m \in DOMAIN run.engine.log :
          run.engine.log[m].kind = kind /\ run.engine.log[m].data.id = Issued[n].data.id}

(* The first time a team set out for the claim's district since the report *)
(* was made that was the first of the claim to be delivered.               *)
FirstReport(c) ==
  LET delivered == SelectSeq(OfKind(run.engine.log, "ObservationDelivered"),
                             LAMBDA ev : Scenario.claimOf[ev.data.obs] = c)
  IN  Head(delivered).data.obs
FirstResponse(c) ==
  LET made == {ev.tick : ev \in {e \in ToSet(run.engine.log) :
                 e.kind = "ObservationCreated" /\ e.data.obs = FirstReport(c)}}
      set  == {ev.tick : ev \in {e \in ToSet(run.engine.log) :
                 e.kind = "TeamDispatched" /\ e.data.to = Where(c) /\ e.tick >= Min(made)}}
  IN  IF set = {} THEN NoTick ELSE Min(set)

(* Assessments in the order of the log, before and after the last answer.  *)
LoggedBefore(c) ==
  LET log == run.bridge.log
      n   == Max({k \in DOMAIN log : log[k].kind = "VerificationResolved" /\ log[k].data.claim = c})
  IN  Assessed(SubSeq(log, 1, n), c)

(* The metrics say what happened in the run: its phase and score, category *)
(* by category, how many commands of each name were accepted and rejected, *)
(* when each claim was first acted on, which claims were verified and      *)
(* refuted; every claim rated is in one bin; and an assessment is          *)
(* before a verification exactly when it was submitted before it           *)
(* (computeMetrics, metrics.ts).                                           *)
MetricsTellTheRun ==
  LET m == Metrics(run.bridge.log)
  IN  /\ m.phase = run.engine.phase
      /\ Completed => m.finalTick = run.engine.tick
      /\ m.scoreTotal = Total(run.engine.score) /\ m.category = run.engine.score
      /\ m.verified = {c \in Claim : Public(c) /\ run.bridge.claims[c].status = "verified"}
      /\ m.refuted = {c \in Claim : Public(c) /\ run.bridge.claims[c].status = "refuted"}
      /\ \A c \in DOMAIN m.brier : Cardinality({bin \in 0 .. 9 : c \in m.bins[bin]}) = 1
      /\ \A c \in DOMAIN m.gain :
           /\ m.gain[c].before = LoggedBefore(c)
           /\ m.gain[c].before \o m.gain[c].after = Assessed(run.bridge.log, c)
      /\ Fresh =>
           /\ \A name \in CommandName :
                m.command[name] = [accepted |-> Cardinality(Decisions("CommandAccepted", name)),
                                   rejected |-> Cardinality(Decisions("CommandRejected", name))]
           /\ \A c \in DOMAIN m.action : m.action[c] = FirstResponse(c)
===============================================================================

------------------------------ MODULE SessionHub ------------------------------
(***************************************************************************)
(* A session as the server runs it (packages/server/src/hub.ts, rpc.ts):   *)
(* the engine (TeamOrders), the bridge (PlayerBridge), the players' view   *)
(* that is rebuilt from the pushed events (project.ts), and the            *)
(* verifications that wait for their team.                                 *)
(*                                                                         *)
(* Requests from HTTP and WebSocket clients are handled one after another: *)
(* each handler runs to its end without an await, so it is one action.     *)
(* session.advance publishes after every tick: one action per tick, with   *)
(* other requests between them, which allows more than the code does.      *)
(*                                                                         *)
(* Left out: score events, resources, the public-action ledger and the     *)
(* hash chain of the log.                                                  *)
(***************************************************************************)
EXTENDS TeamOrders, PlayerBridge, SequencesExt

CONSTANTS
  DistrictOf,   \* [Claim -> District]: a claim's districtId
  NoJob,        \* no verification waits for the team
  MaxResumes    \* bound on restarts of the session from a snapshot

Job == [claim : Claim, order : OrderId, target : District]

ASSUME HubAssumption ==
  /\ DistrictOf \in [Claim -> District]
  /\ "verify" \in Task
  /\ IsFiniteSet(Obs)
  /\ NoClaim \notin Claim
  /\ NoJob \notin Job
  /\ MaxResumes \in Nat

VARIABLES
  job,        \* pendingClaimVerify: [Team -> claim, order, target]
  view,       \* projectPlayerState of the log: what every player is shown
  pushed,     \* the player events the last handler appended to the log
  resumes,    \* how often the session was resumed
  requested,  \* history: [OrderId -> claim of the accepted REQUEST_VERIFICATION]
  resolved,   \* history: the verifications resolved: order, claim and tick
  forgotten   \* history: orders whose waiting verification was dropped unanswered

engineVars  == <<tick, phase, status, etaTick, order, location, wastedTicks, totalWasted,
                 closed, usedKeys, commandSeq, orderSeq, emitted, dispatched, arrivedAt,
                 cancelledAt, executions>>
hubHistory  == <<requested, resolved, forgotten>>
hubVars     == <<engineVars, bridgeVars, job, view, pushed, resumes, hubHistory>>

----------------------------------------------------------------------------
(***************************************************************************)
(* The players' view: applyPlayerEvent over the pushed events.             *)
(***************************************************************************)

(* toOwnTeam: the order id and its origin stay private. *)
OwnTeam(st, eta, ord, loc) ==
  [status |-> st, etaTick |-> eta, location |-> loc,
   target |-> IF ord = NoOrder THEN NoOrder ELSE ord.target,
   task   |-> IF ord = NoOrder THEN NoOrder ELSE ord.task]

NewEvidence(v, o) == [v EXCEPT !.evidence[o] = "recorded"]

NewVerdict(v, c, outcome) ==
  [v EXCEPT
     !.claims[c] = IF outcome = "inconclusive" THEN @ ELSE [@ EXCEPT !.status = outcome],
     !.evidence  = [o \in Obs |-> IF outcome = "verified" /\ ClaimOf[o] = c /\ @[o] # "none"
                                  THEN "verified" ELSE @[o]]]

Apply(v, e) ==
  CASE e.kind = "EvidenceRecorded"     -> NewEvidence(v, e.obs)
    [] e.kind = "ClaimUpdated"         -> [v EXCEPT !.claims[e.about] = e.claim]
    [] e.kind = "VerificationResolved" -> NewVerdict(v, e.about, e.outcome)
    [] e.kind = "OwnTeamUpdated"       -> [v EXCEPT !.teams[e.of] = e.team]
    [] e.kind = "KnownRoutesUpdated"   -> [v EXCEPT !.closed = e.closed]
    [] e.kind = "AssessmentSubmitted"  -> [v EXCEPT !.assessed = @ \cup {e.about}]
    [] e.kind = "RunCompleted"         -> [v EXCEPT !.phase = "completed"]
    [] e.kind = "CommandResult"        -> v

Push(events) ==
  /\ pushed' = events
  /\ view' = FoldLeft(Apply, view, events)

----------------------------------------------------------------------------
(***************************************************************************)
(* ingest: the player events of the delivered observations.  Each delivery *)
(* is seen with the claims as the earlier ones of the same batch left them.*)
(***************************************************************************)
ClaimsAfter(cs, seq, known) ==
  FoldLeft(LAMBDA c, o : WithDelivered(c, o, known), cs, seq)

DeliveryEvents(cs, seq, known) ==
  FlattenSeq([i \in 1 .. Len(seq) |->
    LET c == ClaimOf[seq[i]]
    IN  <<[kind |-> "EvidenceRecorded", obs |-> seq[i]],
          [kind |-> "ClaimUpdated", about |-> c,
           claim |-> ClaimsAfter(cs, SubSeq(seq, 1, i), known)[c]]>>])

----------------------------------------------------------------------------
(***************************************************************************)
(* mirrorOperationalPublicState.                                           *)
(***************************************************************************)
CommandSeen == \E e \in emitted' : e.kind \in {"CommandAccepted", "CommandRejected"}

\* Faulty: arrivals are not mirrored.
MirroredCommandsOnly ==
  IF CommandSeen THEN Team ELSE {}

(* The teams to show again: all after a command, else those that arrived. *)
Mirrored ==
  IF CommandSeen THEN Team
  ELSE {t \in Team : [kind |-> "TeamArrived", team |-> t] \in emitted'}

MirrorEvents ==
  LET show(t) == [kind |-> "OwnTeamUpdated", of |-> t,
                  team |-> OwnTeam(status'[t], etaTick'[t], order'[t], location'[t])]
  IN  [i \in 1 .. Cardinality(Mirrored) |-> show(SetToSeq(Mirrored)[i])]
        \o (IF CommandSeen THEN <<[kind |-> "KnownRoutesUpdated", closed |-> closed']>>
            ELSE <<>>)

(* stillTheSameWork: the team holds the very order the job was bound to. *)
SameWork(t, j) ==
  /\ order'[t] # NoOrder
  /\ order'[t].id = j.order
  /\ order'[t].target = j.target
  /\ order'[t].task = "verify"

\* Faulty: the verification is answered while the team still travels.
FinishedEarly(jobs) ==
  {t \in Team : jobs[t] # NoJob /\ SameWork(t, jobs[t]) /\ TeamType[t] = "verification"}

\* Faulty: the status is the one the team had before the handler.
FinishedByOldStatus(jobs) ==
  {t \in Team : /\ jobs[t] # NoJob
                /\ SameWork(t, jobs[t])
                /\ status[t] = "working"
                /\ TeamType[t] = "verification"}

Finished(jobs) ==
  {t \in Team : /\ jobs[t] # NoJob
                /\ SameWork(t, jobs[t])
                /\ status'[t] = "working"
                /\ TeamType[t] = "verification"}

\* Faulty: a job whose order is gone keeps waiting.
KeepStaleJobs(jobs) ==
  [t \in Team |-> IF jobs[t] # NoJob /\ t \in Finished(jobs) THEN NoJob ELSE jobs[t]]

(* The job loop's end: finished and stale jobs are gone. *)
Remaining(jobs) ==
  [t \in Team |-> IF jobs[t] # NoJob /\ SameWork(t, jobs[t]) /\ t \notin Finished(jobs)
                  THEN jobs[t] ELSE NoJob]

(* The claims asked about by the finished jobs, one after the other. *)
Asked(jobs) ==
  [i \in 1 .. Cardinality(Finished(jobs)) |-> jobs[SetToSeq(Finished(jobs))[i]].claim]

(* resolveVerification, claim by claim. *)
ClaimsResolved(cs, asked, known) ==
  FoldLeft(LAMBDA c, a : WithOutcome(c, a, known), cs, asked)

Answer(about, before, after, known) ==
  LET outcome == Outcome(about, before, known)
  IN  (IF outcome = "inconclusive" THEN <<>>
       ELSE <<[kind |-> "ClaimUpdated", about |-> about, claim |-> after[about]]>>)
      \o <<[kind |-> "VerificationResolved", about |-> about, outcome |-> outcome]>>

VerdictEvents(cs, asked, known) ==
  FlattenSeq([i \in 1 .. Len(asked) |->
    Answer(asked[i], ClaimsResolved(cs, SubSeq(asked, 1, i - 1), known),
           ClaimsResolved(cs, SubSeq(asked, 1, i), known), known)])

----------------------------------------------------------------------------
(***************************************************************************)
(* publishTruthDelta, with the jobs as the handler left them and the       *)
(* observations the delta delivers.                                        *)
(***************************************************************************)
Terminal == [kind |-> "ScenarioCompleted"] \in emitted'

\* Faulty: the whole delta is ingested before the mirror (the old order).
PublishedTerminalFirst(jobs, seq) ==
  LET cs == ClaimsAfter(claims, seq, pending')
  IN  DeliveryEvents(claims, seq, pending')
        \o (IF Terminal THEN <<[kind |-> "RunCompleted"]>> ELSE <<>>)
        \o MirrorEvents \o VerdictEvents(cs, Asked(jobs), pending')

Published(jobs, seq) ==
  LET cs == ClaimsAfter(claims, seq, pending')
  IN  DeliveryEvents(claims, seq, pending') \o MirrorEvents
        \o VerdictEvents(cs, Asked(jobs), pending')
        \o (IF Terminal THEN <<[kind |-> "RunCompleted"]>> ELSE <<>>)

Publish(jobs, seq, tail) ==
  /\ delivered' = delivered \o seq
  /\ claims' = ClaimsResolved(ClaimsAfter(claims, seq, pending'), Asked(jobs), pending')
  /\ job' = Remaining(jobs)
  /\ Push(Published(jobs, seq) \o tail)
  /\ resolved' = resolved \cup
       {[order |-> jobs[t].order, claim |-> jobs[t].claim, at |-> tick'] : t \in Finished(jobs)}
  /\ UNCHANGED resumes

----------------------------------------------------------------------------
(* session.command for every command but REQUEST_VERIFICATION. *)
Command ==
  /\ \E k \in Key :
       \/ \E t \in Team, d \in District, task \in Task : DispatchTeam(t, d, task, k)
       \/ \E o \in OrderId : CancelOrder(o, k)
       \/ \E r \in Route, close \in BOOLEAN : SetRouteClosed(r, close, k)
  /\ UNCHANGED <<pending, requested, forgotten>>
  /\ Publish(job, <<>>, <<[kind |-> "CommandResult"]>>)

Accepted == [kind |-> "CommandAccepted"] \in emitted'

(* applyVerificationTargeting: a rejected request clears what the team has. *)
Targeting(t, c) ==
  IF Accepted THEN [job EXCEPT ![t] = [claim |-> c, order |-> order'[t].id,
                                       target |-> DistrictOf[c]]]
  ELSE [job EXCEPT ![t] = NoJob]

(* session.command REQUEST_VERIFICATION: the claim must be public, and its *)
(* district is the target.                                                 *)
RequestVerification(t, c, k) ==
  /\ view.claims[c] # NoClaim
  /\ DispatchTeam(t, DistrictOf[c], "verify", k)
  /\ requested' = IF Accepted THEN [requested EXCEPT ![order'[t].id] = c] ELSE requested
  /\ forgotten' = IF ~Accepted /\ job[t] # NoJob THEN forgotten \cup {job[t].order}
                  ELSE forgotten
  /\ UNCHANGED pending
  /\ Publish(Targeting(t, c), <<>>, <<[kind |-> "CommandResult"]>>)

CanAssess(c) == phase # "completed" /\ view.claims[c] # NoClaim

(* session.assess *)
Assess(c) ==
  /\ CanAssess(c)
  /\ Push(<<[kind |-> "AssessmentSubmitted", about |-> c]>>)
  /\ UNCHANGED <<engineVars, bridgeVars, job, resumes, hubHistory>>

(* One tick of session.advance.  Which observations the engine creates and *)
(* delivers is open: any it has not yet, in any order.                     *)
Advance ==
  /\ Step
  /\ \E new \in SUBSET {o \in Obs : pending[o] = Unseen} :
       \E made \in [new -> UNION {Variants[o] : o \in Obs}] :
         /\ \A o \in new : made[o] \in Variants[o]
         /\ pending' = [o \in Obs |-> IF o \in new THEN made[o] ELSE pending[o]]
  /\ UNCHANGED <<requested, forgotten>>
  /\ \E due \in SUBSET {o \in Obs : pending'[o] # Unseen /\ ~Contains(delivered, o)} :
       \E seq \in SetToSeqs(due) : Publish(job, seq, <<>>)

----------------------------------------------------------------------------
(***************************************************************************)
(* admin.resume after the session is gone, from a snapshot of its present  *)
(* state: a new bridge hears the engine's whole log again; nothing is      *)
(* mirrored, and what players did (verifications, assessments) is lost.    *)
(***************************************************************************)
Started ==
  [phase    |-> "running",
   teams    |-> [t \in Team |-> OwnTeam(status[t], etaTick[t], order[t], location[t])],
   closed   |-> closed,
   claims   |-> [c \in Claim |-> NoClaim],
   evidence |-> [o \in Obs |-> "none"],
   assessed |-> {}]

Resume ==
  /\ resumes < MaxResumes
  /\ resumes' = resumes + 1
  /\ LET none == [c \in Claim |-> NoClaim]
         events == DeliveryEvents(none, delivered, pending)
                     \o (IF phase = "completed" THEN <<[kind |-> "RunCompleted"]>> ELSE <<>>)
     IN  /\ claims' = ClaimsAfter(none, delivered, pending)
         /\ pushed' = events
         /\ view' = FoldLeft(Apply, Started, events)
  /\ job' = [t \in Team |-> NoJob]
  /\ forgotten' = forgotten \cup {job[t].order : t \in {u \in Team : job[u] # NoJob}}
  /\ UNCHANGED <<engineVars, pending, delivered, requested, resolved>>

HubInit ==
  /\ Init
  /\ BridgeInit
  /\ job = [t \in Team |-> NoJob]
  /\ view = Started
  /\ pushed = <<>>
  /\ resumes = 0
  /\ requested = [o \in OrderId |-> NoClaim]
  /\ resolved = {}
  /\ forgotten = {}

HubNext ==
  \/ Command
  \/ \E t \in Team, c \in Claim, k \in Key : RequestVerification(t, c, k)
  \/ \E c \in Claim : Assess(c)
  \/ Advance
  \/ Resume

HubSpec == HubInit /\ [][HubNext]_hubVars

----------------------------------------------------------------------------
(* What the players are shown is the engine's and the bridge's state, at   *)
(* every moment between requests, although it is rebuilt from the pushed   *)
(* events alone (mirrorOperationalPublicState, makeBridge).                *)
PublicMirrorsEngine ==
  /\ view.phase = phase
  /\ view.closed = closed
  /\ view.teams = [t \in Team |-> OwnTeam(status[t], etaTick[t], order[t], location[t])]
  /\ view.claims = claims

(* A waiting verification belongs to the order its team travels for: after *)
(* a cancellation, a replacement or a restart it does not stay behind to   *)
(* be answered by other work (the promise of the comment in hub.ts).       *)
JobBoundToLiveOrder ==
  \A t \in Team : job[t] # NoJob =>
    /\ TeamType[t] = "verification" /\ status[t] = "transit"
    /\ order[t].id = job[t].order
    /\ order[t].target = job[t].target
    /\ order[t].task = "verify"
    /\ requested[job[t].order] = job[t].claim

(* A verification is answered for the claim its order was requested for,   *)
(* at the tick that order arrives.                                         *)
ResolvedByOwnOrder ==
  \A r \in resolved : requested[r.order] = r.claim /\ r.at = arrivedAt[r.order]

(* An accepted verification whose team arrives is answered, unless a later *)
(* rejected request of that team or a restart made the server forget it.   *)
AnsweredUnlessForgotten ==
  \A o \in OrderId : requested[o] # NoClaim /\ arrivedAt[o] # NoTick =>
    (\E r \in resolved : r.order = o) \/ o \in forgotten

(* RunCompleted is the last player event of a run, and no handler adds     *)
(* anything behind it (publishTruthDelta, rpc.ts).                         *)
RunCompletedLast ==
  \A i \in DOMAIN pushed : pushed[i].kind = "RunCompleted" => i = Len(pushed)
CompletedStaysLast ==
  phase = "completed" => pushed # <<>> /\ Last(pushed).kind = "RunCompleted"
TerminalEventIsLast == RunCompletedLast /\ CompletedStaysLast

(* What the rules say of a rejected command, a retry among them: it has no *)
(* side effects.  So without restarts an accepted verification whose team  *)
(* arrives is answered.                                                    *)
AcceptedVerificationAnswered ==
  resumes = 0 =>
    \A o \in OrderId : requested[o] # NoClaim /\ arrivedAt[o] # NoTick =>
      \E r \in resolved : r.order = o

----------------------------------------------------------------------------
(***************************************************************************)
(* The inductive invariant of SessionHub_proofs.                           *)
(***************************************************************************)
TeamView ==
  [status : {"idle", "transit", "working"}, etaTick : Nat \cup {NoTick}, location : District,
   target : District \cup {NoOrder}, task : Task \cup {NoOrder}]

PlayerEvent ==
  [kind : {"EvidenceRecorded"}, obs : Obs]
    \cup [kind : {"ClaimUpdated"}, about : Claim, claim : ClaimRecord \cup {NoClaim}]
    \cup [kind : {"VerificationResolved"}, about : Claim, outcome : Verdict \cup {"inconclusive"}]
    \cup [kind : {"OwnTeamUpdated"}, of : Team, team : TeamView]
    \cup [kind : {"KnownRoutesUpdated"}, closed : SUBSET Route]
    \cup [kind : {"AssessmentSubmitted"}, about : Claim]
    \cup [kind : {"RunCompleted", "CommandResult"}]

(* The views that show these phase, teams, roads and claims. *)
Showing(ph, teams, roads, cs) ==
  [phase : {ph}, teams : {teams}, closed : {roads}, claims : {cs},
   evidence : [Obs -> {"none", "recorded", "verified"}], assessed : SUBSET Claim]

OwnTeams == [t \in Team |-> OwnTeam(status[t], etaTick[t], order[t], location[t])]

HubTypeOK ==
  /\ BridgeTypeOK
  /\ \A i \in DOMAIN delivered : pending[delivered[i]] # Unseen
  /\ job \in [Team -> Job \cup {NoJob}]
  /\ view \in Showing(phase, OwnTeams, closed, claims)
  /\ pushed \in Seq(PlayerEvent)
  /\ requested \in [OrderId -> Claim \cup {NoClaim}]
  /\ resolved \subseteq [order : OrderId, claim : Claim, at : Nat]
  /\ forgotten \subseteq OrderId

(* Only issued orders are verifications, and one whose team still travels  *)
(* waits in the job of that team unless the server forgot it.              *)
Waits(o) ==
  LET t == dispatched[o].team
  IN  job[t] # NoJob /\ job[t].order = o
RequestsWait ==
  \A o \in OrderId : requested[o] # NoClaim =>
    /\ o <= orderSeq
    /\ arrivedAt[o] = NoTick /\ cancelledAt[o] = NoTick => Waits(o) \/ o \in forgotten

HubInv ==
  /\ IInv
  /\ HubTypeOK
  /\ JobBoundToLiveOrder
  /\ ResolvedByOwnOrder
  /\ RequestsWait
  /\ AnsweredUnlessForgotten
  /\ TerminalEventIsLast
===============================================================================

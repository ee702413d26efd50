----------------------------- MODULE EventSchemas -----------------------------
(***************************************************************************)
(* The two schemas that an event's payload is read with: the contract's,   *)
(* which the artifact is built and verified with (packages/contracts/src,  *)
(* truth-payloads.ts and player-payloads.ts), and the Replay Lab's own     *)
(* (apps/command-center/src/replay/event-payloads.ts), which must not      *)
(* import it and repeats it field by field.                                *)
(*                                                                         *)
(* A field's value is one of the classes that some check of the two tells  *)
(* apart; a type is the set of classes it lets through.  A payload's shape *)
(* is a sequence of parts, each a function from fields to types: its own   *)
(* fields and those of the objects in it, an array standing for each of    *)
(* its items.  Further keys are allowed by both.                           *)
(***************************************************************************)
EXTENDS Integers, Sequences, TLC

(* Classes of strings: "listed" is a value of the field's enumeration, and *)
(* "long" has more than MAX_STRING_LENGTH characters.  Of numbers: "huge"  *)
(* is whole but no safe integer.  Of arrays and objects: with no item, or  *)
(* with more than MAX_ARRAY_LENGTH items or MAX_OBJECT_KEYS keys.          *)
Strings == {"empty", "text", "listed", "long"}
Numbers == {"-1", "0", "1/2", "1", "2", "huge"}
Arrays  == {"no items", "items", "many items"}
Objects == {"object", "many keys"}
Others  == {"absent", "null", "boolean"}
ValueClass == Strings \cup Numbers \cup Arrays \cup Objects \cup Others

Oversize == {"long", "many items", "many keys"}

Fields(names, type) == [f \in names |-> type]
Nullable(type) == type \cup {"null"}

----------------------------------------------------------------------------
(***************************************************************************)
(* The contract: zod's types.  int() takes safe integers only.             *)
(***************************************************************************)
Id     == Strings \ {"empty"}
Enum   == {"listed"}
Whole  == {"-1", "0", "1", "2"}
Tick   == {"0", "1", "2"}
Length == {"1", "2"}
Amount == Numbers \ {"-1"}
Share  == {"0", "1/2", "1"}
Flag   == {"boolean"}

Resources == Fields({"backupGenerators", "advisoryUses"}, Tick)

ScoreState ==
  << Fields({"finalScore"}, Objects) @@ Fields({"finalTick"}, Tick),
     Fields({"total", "finalPopulationRisk", "infrastructureAvailability", "eventsHandledPoints",
             "eventsMissedPoints", "misadvisoryCost", "wastedDispatchCost", "decisionDelayPoints",
             "resourceEfficiency", "chainFailurePenalty"}, Numbers)
       @@ Fields({"raw"}, Objects) @@ Fields({"breakdown"}, Arrays),
     Fields({"incidentsHandled", "incidentsMissed", "chainedIncidents", "wastedDispatchTicks",
             "incidentsWithoutAction", "remainingBackupGenerators", "remainingAdvisories"}, Tick)
       @@ Fields({"decisionDelayTicks"}, Amount),
     Fields({"id"}, Id) @@ Fields({"label", "reason"}, Strings)
       @@ Fields({"delta"}, Numbers) @@ Fields({"tick"}, Tick) >>

SystemState ==
  << Fields({"districts", "routes", "resources"}, Objects) @@ Fields({"teams"}, Arrays),
     Fields({"id"}, Id) @@ Fields({"power", "communications", "water", "traffic", "medicalCapacity",
                                   "hazardLevel", "populationRisk"}, Numbers),
     Fields({"teamId", "status", "location"}, Id) @@ Fields({"etaTick"}, Nullable(Tick))
       @@ Fields({"order"}, Nullable(Objects)),
     Fields({"closed"}, Flag),
     Resources >>

TruthSchemas ==
  [ScenarioStarted |-> << Fields({"scenarioId"}, Id) @@ Fields({"seed"}, Whole)
       @@ Fields({"tickPerSimSecond"}, Numbers) @@ Fields({"totalTicks"}, Length)
       @@ Fields({"districts"}, Arrays \ {"no items"}), Fields({"district"}, Id) >>,
   TrueIncidentOccurred |-> << Fields({"incidentId", "kind", "district"}, Id) @@ Fields({"severity"}, Numbers) >>,
   IncidentChained |-> << Fields({"incidentId", "sourceIncidentId", "district"}, Id) @@ Fields({"severity"}, Numbers) >>,
   IncidentResolved |-> << Fields({"incidentId", "district"}, Id) @@ Fields({"handledTick"}, Tick) >>,
   ObservationCreated |-> << Fields({"observationId", "incidentId", "source", "category"}, Id)
       @@ Fields({"observedTick"}, Tick) @@ Fields({"content"}, Strings) @@ Fields({"reliability"}, Numbers) >>,
   ObservationDelayed |-> << Fields({"observationId"}, Id) @@ Fields({"newDeliveryTick"}, Tick)
       @@ Fields({"delayTicks"}, Whole) >>,
   ObservationCorrupted |-> << Fields({"observationId"}, Id) @@ Fields({"corruptionType"}, Enum)
       @@ Fields({"original", "corrupted"}, Strings) @@ Fields({"false"}, Flag) >>,
   ObservationLost |-> << Fields({"observationId"}, Id) @@ Fields({"reason"}, Enum) >>,
   ObservationDelivered |-> << Fields({"observationId"}, Id) @@ Fields({"deliveredTick"}, Tick) >>,
   CommandIssued |-> << Fields({"commandId", "commandName", "idempotencyKey"}, Id) @@ Fields({"issuedTick"}, Tick)
       @@ Fields({"target"}, Nullable(Strings)) @@ Fields({"params"}, Objects) >>,
   CommandRejected |-> << Fields({"commandId", "code"}, Id) @@ Fields({"reason"}, Strings) >>,
   CommandAccepted |-> << Fields({"commandId", "idempotencyKey"}, Id) @@ Fields({"etaTick"}, Nullable(Tick)) >>,
   TeamDispatched |-> << Fields({"teamId", "orderId", "from", "to"}, Id) @@ Fields({"travelTicks", "etaTick"}, Tick) >>,
   TeamArrived |-> << Fields({"teamId", "district"}, Id) @@ Fields({"orderId"}, Strings) >>,
   ActionApplied |-> << Fields({"action", "target", "attribute"}, Id) @@ Fields({"delta", "result"}, Numbers) >>,
   SystemStateChanged |-> SystemState,
   ScoreChanged |-> << Fields({"delta", "total"}, Numbers) @@ Fields({"reason"}, Strings) @@ Fields({"category"}, Id) >>,
   ScenarioCompleted |-> ScoreState]

OwnTeam ==
  Fields({"teamId", "type", "location", "status"}, Id) @@ Fields({"etaTick"}, Nullable(Tick))
    @@ Fields({"orderTarget", "orderTask"}, Nullable(Strings))
KnownRoute == Fields({"id"}, Id) @@ Fields({"closed"}, Flag) @@ Fields({"knownClosedAtTick"}, Nullable(Tick))
Evidence ==
  Fields({"id", "claimId", "sourceId", "category"}, Id) @@ Fields({"observedTick", "deliveredTick"}, Tick)
    @@ Fields({"content"}, Strings) @@ Fields({"reliability"}, Numbers) @@ Fields({"verified"}, Flag)
Claim ==
  Fields({"id"}, Id) @@ Fields({"subject", "predicate"}, Strings)
    @@ Fields({"firstObservedTick", "lastUpdatedTick", "asOfTick"}, Tick)
    @@ Fields({"status"}, Enum) @@ Fields({"evidenceIds"}, Arrays)
Assessment ==
  Fields({"id", "claimId"}, Id) @@ Fields({"probability", "confidence"}, Share) @@ Fields({"submittedTick"}, Tick)

PlayerSchemas ==
  [SessionStarted |-> << Fields({"scenarioId"}, Id) @@ Fields({"seed"}, Whole) @@ Fields({"totalTicks"}, Length)
       @@ Fields({"teams", "routes"}, Arrays) @@ Fields({"resources"}, Objects), OwnTeam, KnownRoute, Resources >>,
   EvidenceRecorded |-> << Fields({"evidence"}, Objects), Evidence >>,
   ClaimUpdated |-> << Fields({"claim"}, Objects) @@ Fields({"reason"}, Enum), Claim, Fields({"evidenceId"}, Id) >>,
   AssessmentSubmitted |-> << Fields({"assessment"}, Objects), Assessment >>,
   VerificationResolved |-> << Fields({"claimId", "teamId"}, Id) @@ Fields({"outcome"}, Enum)
       @@ Fields({"resolvedTick"}, Tick) >>,
   CommandResult |-> << Fields({"commandId", "commandName", "idempotencyKey"}, Id) @@ Fields({"state"}, Enum)
       @@ Fields({"errorCode", "detail"}, Nullable(Strings)) @@ Fields({"etaTick"}, Nullable(Tick))
       @@ Fields({"target"}, Strings) >>,
   OwnTeamUpdated |-> << Fields({"team"}, Objects), OwnTeam >>,
   KnownRouteUpdated |-> << Fields({"route"}, Objects), KnownRoute >>,
   PublicScoreChanged |-> << Fields({"delta", "total"}, Numbers) @@ Fields({"reason"}, Strings)
       @@ Fields({"category"}, Id) >>,
   ResourcesChanged |-> << Fields({"resources"}, Objects), Resources >>,
   RunCompleted |-> << Fields({"finalTick", "claimCount", "evidenceCount"}, Tick) @@ Fields({"scoreTotal"}, Numbers) >>]

----------------------------------------------------------------------------
(***************************************************************************)
(* The Lab: its require functions.  A string is bounded, a whole number is *)
(* Number.isInteger, arrays and most objects have bounds on their size.    *)
(***************************************************************************)
LabString   == Strings \ {"long"}
LabNonEmpty == LabString \ {"empty"}
LabEnum     == {"listed"}
LabInt      == {"0", "1", "2", "huge"}
LabSafeInt  == LabInt \cup {"-1"}
LabLength   == {"1", "2", "huge"}
LabNumber   == Numbers
LabShare    == {"0", "1/2", "1"}
LabAmount   == {"0", "1/2", "1", "2", "huge"}
LabArray    == {"no items", "items"}
LabObject   == {"object"}
LabAny      == {"object", "many keys"}

LabResources == Fields({"backupGenerators", "advisoryUses"}, LabInt)

LabScoreState ==
  << Fields({"finalScore"}, LabAny) @@ Fields({"finalTick"}, LabInt),
     Fields({"total", "finalPopulationRisk", "infrastructureAvailability", "eventsHandledPoints",
             "eventsMissedPoints", "misadvisoryCost", "wastedDispatchCost", "decisionDelayPoints",
             "resourceEfficiency", "chainFailurePenalty"}, LabNumber)
       @@ Fields({"raw"}, LabObject) @@ Fields({"breakdown"}, LabArray),
     Fields({"incidentsHandled", "incidentsMissed", "chainedIncidents", "wastedDispatchTicks",
             "incidentsWithoutAction", "remainingBackupGenerators", "remainingAdvisories"}, LabInt)
       @@ Fields({"decisionDelayTicks"}, LabAmount),
     Fields({"id"}, LabNonEmpty) @@ Fields({"label", "reason"}, LabString)
       @@ Fields({"delta"}, LabNumber) @@ Fields({"tick"}, LabInt) >>

LabSystemState ==
  << Fields({"districts", "routes", "resources"}, LabObject) @@ Fields({"teams"}, LabArray),
     Fields({"id"}, LabNonEmpty) @@ Fields({"power", "communications", "water", "traffic", "medicalCapacity",
                                            "hazardLevel", "populationRisk"}, LabNumber),
     Fields({"teamId", "status", "location"}, LabNonEmpty) @@ Fields({"etaTick"}, Nullable(LabInt))
       @@ Fields({"order"}, Nullable(LabObject)),
     Fields({"closed"}, Flag),
     LabResources >>

LabTruthSchemas ==
  [ScenarioStarted |-> << Fields({"scenarioId"}, LabNonEmpty) @@ Fields({"seed"}, LabSafeInt)
       @@ Fields({"tickPerSimSecond"}, LabNumber) @@ Fields({"totalTicks"}, LabLength)
       @@ Fields({"districts"}, LabArray \ {"no items"}), Fields({"district"}, LabNonEmpty) >>,
   TrueIncidentOccurred |-> << Fields({"incidentId", "kind", "district"}, LabNonEmpty)
       @@ Fields({"severity"}, LabNumber) >>,
   IncidentChained |-> << Fields({"incidentId", "sourceIncidentId", "district"}, LabNonEmpty)
       @@ Fields({"severity"}, LabNumber) >>,
   IncidentResolved |-> << Fields({"incidentId", "district"}, LabNonEmpty) @@ Fields({"handledTick"}, LabInt) >>,
   ObservationCreated |-> << Fields({"observationId", "incidentId", "source", "category"}, LabNonEmpty)
       @@ Fields({"observedTick"}, LabInt) @@ Fields({"content"}, LabString) @@ Fields({"reliability"}, LabNumber) >>,
   ObservationDelayed |-> << Fields({"observationId"}, LabNonEmpty) @@ Fields({"newDeliveryTick"}, LabInt)
       @@ Fields({"delayTicks"}, LabSafeInt) >>,
   ObservationCorrupted |-> << Fields({"observationId"}, LabNonEmpty) @@ Fields({"corruptionType"}, LabEnum)
       @@ Fields({"original", "corrupted"}, LabString) @@ Fields({"false"}, Flag) >>,
   ObservationLost |-> << Fields({"observationId"}, LabNonEmpty) @@ Fields({"reason"}, LabEnum) >>,
   ObservationDelivered |-> << Fields({"observationId"}, LabNonEmpty) @@ Fields({"deliveredTick"}, LabInt) >>,
   CommandIssued |-> << Fields({"commandId", "commandName", "idempotencyKey"}, LabNonEmpty)
       @@ Fields({"issuedTick"}, LabInt) @@ Fields({"target"}, Nullable(Strings)) @@ Fields({"params"}, LabObject) >>,
   CommandRejected |-> << Fields({"commandId", "code"}, LabNonEmpty) @@ Fields({"reason"}, LabString) >>,
   CommandAccepted |-> << Fields({"commandId", "idempotencyKey"}, LabNonEmpty)
       @@ Fields({"etaTick"}, Nullable(LabInt)) >>,
   TeamDispatched |-> << Fields({"teamId", "orderId", "from", "to"}, LabNonEmpty)
       @@ Fields({"travelTicks", "etaTick"}, LabInt) >>,
   TeamArrived |-> << Fields({"teamId", "district"}, LabNonEmpty) @@ Fields({"orderId"}, LabString) >>,
   ActionApplied |-> << Fields({"action", "target", "attribute"}, LabNonEmpty)
       @@ Fields({"delta", "result"}, LabNumber) >>,
   SystemStateChanged |-> LabSystemState,
   ScoreChanged |-> << Fields({"delta", "total"}, LabNumber) @@ Fields({"reason"}, LabString)
       @@ Fields({"category"}, LabNonEmpty) >>,
   ScenarioCompleted |-> LabScoreState]

\* Faulty: an order without a target is not expected.
LabOwnTeamOnDuty ==
  Fields({"teamId", "type", "location", "status", "orderTarget", "orderTask"}, LabNonEmpty)
    @@ Fields({"etaTick"}, Nullable(LabInt))

LabOwnTeam ==
  Fields({"teamId", "type", "location", "status"}, LabNonEmpty) @@ Fields({"etaTick"}, Nullable(LabInt))
    @@ Fields({"orderTarget", "orderTask"}, Nullable(Strings))
LabKnownRoute ==
  Fields({"id"}, LabNonEmpty) @@ Fields({"closed"}, Flag) @@ Fields({"knownClosedAtTick"}, Nullable(LabInt))
LabEvidence ==
  Fields({"id", "claimId", "sourceId", "category"}, LabNonEmpty) @@ Fields({"observedTick", "deliveredTick"}, LabInt)
    @@ Fields({"content"}, LabString) @@ Fields({"reliability"}, LabNumber) @@ Fields({"verified"}, Flag)
LabClaim ==
  Fields({"id"}, LabNonEmpty) @@ Fields({"subject", "predicate"}, LabString)
    @@ Fields({"firstObservedTick", "lastUpdatedTick", "asOfTick"}, LabInt)
    @@ Fields({"status"}, LabEnum) @@ Fields({"evidenceIds"}, LabArray)
LabAssessment ==
  Fields({"id", "claimId"}, LabNonEmpty) @@ Fields({"probability", "confidence"}, LabShare)
    @@ Fields({"submittedTick"}, LabInt)

LabPlayerSchemas ==
  [SessionStarted |-> << Fields({"scenarioId"}, LabNonEmpty) @@ Fields({"seed"}, LabSafeInt)
       @@ Fields({"totalTicks"}, LabLength) @@ Fields({"teams", "routes"}, LabArray)
       @@ Fields({"resources"}, LabObject), LabOwnTeam, LabKnownRoute, LabResources >>,
   EvidenceRecorded |-> << Fields({"evidence"}, LabObject), LabEvidence >>,
   ClaimUpdated |-> << Fields({"claim"}, LabObject) @@ Fields({"reason"}, LabEnum), LabClaim,
                       Fields({"evidenceId"}, LabNonEmpty) >>,
   AssessmentSubmitted |-> << Fields({"assessment"}, LabObject), LabAssessment >>,
   VerificationResolved |-> << Fields({"claimId", "teamId"}, LabNonEmpty) @@ Fields({"outcome"}, LabEnum)
       @@ Fields({"resolvedTick"}, LabInt) >>,
   CommandResult |-> << Fields({"commandId", "commandName", "idempotencyKey"}, LabNonEmpty)
       @@ Fields({"state"}, LabEnum) @@ Fields({"errorCode", "detail"}, Nullable(Strings))
       @@ Fields({"etaTick"}, Nullable(LabInt)) @@ Fields({"target"}, LabString) >>,
   OwnTeamUpdated |-> << Fields({"team"}, LabObject), LabOwnTeam >>,
   KnownRouteUpdated |-> << Fields({"route"}, LabObject), LabKnownRoute >>,
   PublicScoreChanged |-> << Fields({"delta", "total"}, LabNumber) @@ Fields({"reason"}, LabString)
       @@ Fields({"category"}, LabNonEmpty) >>,
   ResourcesChanged |-> << Fields({"resources"}, LabObject), LabResources >>,
   RunCompleted |-> << Fields({"finalTick", "claimCount", "evidenceCount"}, LabInt)
       @@ Fields({"scoreTotal"}, LabNumber) >>]

----------------------------------------------------------------------------
(***************************************************************************)
(* The artifact around the payloads: what is written into it, what the     *)
(* command line asks of it before it compares values, and what the Lab     *)
(* asks.  Depth and size of the whole file are left out.                   *)
(***************************************************************************)
Counts == Fields({"finalTick", "eventCount", "playerEventCount"}, Tick) @@ Fields({"scoreTotal"}, Numbers)
Lists == {"commandTrace", "assessmentTrace", "publicActionLedger", "handledIncidents", "activeIncidents"}
Hashes == {"truthLogHash", "playerLogHash", "stateDigest", "scoreDigest"}
Linked == Fields({"sequence", "tick"}, Tick) @@ Fields({"sessionId", "hash"}, Id) @@ Fields({"kind"}, Enum)
            @@ Fields({"previousHash"}, Strings) @@ Fields({"payload"}, Objects)

(* buildRunArtifact, from events that the contract holds valid. *)
Exported ==
  [root |-> Fields({"format", "version"}, Enum) @@ Fields({"identity", "truth", "player"}, {"object"})
       @@ Fields(Lists, Arrays) @@ Fields({"artifactHash"} \cup Hashes, Id)
       @@ Fields({"signature"}, {"object", "null"}) @@ Counts,
   log |-> Fields({"events"}, {"items", "many items"}),
   identity |-> Fields({"sessionId", "scenarioId", "scenarioDigest"}, Id)
       @@ Fields({"engineProtocolVersion", "totalTicks"}, Length) @@ Fields({"seed"}, Whole),
   truthEvent |-> Linked,
   playerEvent |-> Linked @@ Fields({"stream"}, Enum),
   command |-> Fields({"sequence", "issuedTick"}, Tick) @@ Fields({"commandId", "commandName", "idempotencyKey"}, Id)
       @@ Fields({"target", "errorCode", "errorMessage"}, Nullable(Strings)) @@ Fields({"params"}, Objects)
       @@ Fields({"outcome"}, Enum) @@ Fields({"etaTick"}, Nullable(Tick)),
   assessment |-> Assessment @@ Fields({"rationale"}, Id \cup {"absent"}),
   signature |-> Fields({"algorithm", "keyId", "signature"}, Strings)]

(* assertArtifactShape and the type checks of verifyEventStream.  What is  *)
(* not listed is only compared with the replayed run.                      *)
CliArtifact ==
  [root |-> Fields({"format", "version"}, Enum) @@ Fields({"identity", "truth", "player"}, Objects)
       @@ Fields({"commandTrace", "assessmentTrace", "publicActionLedger"}, Arrays)
       @@ Fields({"artifactHash"}, Id) @@ Fields({"truthLogHash", "playerLogHash"}, Strings)
       @@ Fields({"signature"}, Objects \cup Arrays \cup {"null", "absent"}),
   log |-> Fields({"events"}, Arrays),
   truthEvent |-> Fields({"sessionId"}, Id) @@ Fields({"sequence", "tick"}, Tick \cup {"huge"})
       @@ Fields({"kind"}, Enum) @@ Fields({"payload"}, Objects),
   playerEvent |-> Fields({"stream", "kind"}, Enum) @@ Fields({"tick"}, Tick \cup {"huge"})
       @@ Fields({"payload"}, Objects)]

(* validateTruthEvent and validatePlayerEvent *)
LabLinked == Fields({"sequence", "tick"}, LabInt) @@ Fields({"sessionId", "previousHash", "hash"}, LabString)
               @@ Fields({"kind"}, LabEnum) @@ Fields({"payload"}, LabAny)

LabCommand ==
  Fields({"sequence", "issuedTick"}, LabNumber) @@ Fields({"commandId", "commandName", "idempotencyKey"}, LabString)
    @@ Fields({"target", "errorCode", "errorMessage", "etaTick"}, ValueClass) @@ Fields({"params"}, LabAny)
    @@ Fields({"outcome"}, LabEnum)
LabBelief ==
  Fields({"id", "claimId"}, LabString) @@ Fields({"probability", "confidence", "submittedTick"}, LabNumber)
    @@ Fields({"rationale"}, ValueClass)
LabIdentity ==
  Fields({"sessionId", "scenarioId", "scenarioDigest"}, LabString)
    @@ Fields({"engineProtocolVersion", "totalTicks", "seed"}, LabNumber)
LabSignature == Fields({"algorithm", "keyId", "signature"}, LabString)

(* parseReplayArtifact *)
LabArtifact ==
  [root |-> Fields({"format", "version"}, LabEnum) @@ Fields({"identity", "truth", "player"}, LabAny)
       @@ Fields(Lists, Arrays) @@ Fields({"artifactHash"} \cup Hashes, LabString)
       @@ Fields({"signature"}, LabAny \cup {"null", "absent"})
       @@ Fields({"finalTick", "eventCount", "playerEventCount", "scoreTotal"}, LabNumber),
   log |-> Fields({"events"}, LabArray),
   identity |-> LabIdentity, truthEvent |-> LabLinked, playerEvent |-> LabLinked @@ Fields({"stream"}, LabEnum),
   command |-> LabCommand, assessment |-> LabBelief, signature |-> LabSignature]
===============================================================================

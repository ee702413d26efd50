---------------------------- MODULE BoundarySchemas ----------------------------
(***************************************************************************)
(* The schemas at the two ends: the scenario file a run begins with        *)
(* (packages/scenario-schema/src/index.ts) and the replies a client reads  *)
(* (packages/sdk/src/schemas.ts), with what the engine and the bridge copy *)
(* from the one and the server puts into the other.                        *)
(***************************************************************************)
EXTENDS EventSchemas

Slug     == {"text", "listed"} \* short, of a-z, 0-9 and -
Positive == {"1/2", "1", "2", "huge"}
Percent  == {"0", "1/2", "1", "2"}
Factor   == {"1", "2", "huge"}
Optional(type) == type \cup {"absent"}

Gauges == {"power", "communications", "water", "traffic", "medicalCapacity", "hazardLevel", "populationRisk"}

(* The parts of a scenario's map.  Further keys are refused, which no      *)
(* class tells.                                                            *)
MapFile ==
  [district |-> Fields({"id"}, Slug) @@ Fields(Gauges, Percent),
   team |-> Fields({"teamId"}, Id) @@ Fields({"type"}, Enum) @@ Fields({"startDistrict"}, Slug)
       @@ Fields({"reschedulable"}, Optional(Flag)),
   route |-> Fields({"id"}, Id) @@ Fields({"from", "to"}, Slug) @@ Fields({"travelTicks"}, Length)
       @@ Fields({"capacity"}, Optional(Percent))]
IncidentFile ==
  [effect |-> Fields({"atTick"}, Tick) @@ Fields({"target"}, Slug) @@ Fields({"attribute"}, Enum)
       @@ Fields({"delta"}, Numbers) @@ Fields({"repeatEvery"}, Optional(Length))
       @@ Fields({"label"}, Optional(Strings)),
   incident |-> Fields({"id", "kind"}, Id) @@ Fields({"district"}, Slug) @@ Fields({"atTick"}, Tick)
       @@ Fields({"severity"}, Percent) @@ Fields({"attribute"}, Enum) @@ Fields({"delta"}, Numbers)
       @@ Fields({"handledBy"}, Optional(Arrays)) @@ Fields({"chainTrigger"}, Optional(Objects)),
   chain |-> Fields({"sourceIncidentId"}, Id) @@ Fields({"district"}, Optional(Slug)) @@ Fields({"attribute"}, Enum)
       @@ Fields({"below"}, Numbers) @@ Fields({"forTicks"}, Length)]
ObservationFile ==
  [source |-> Fields({"id"}, Id) @@ Fields({"kind"}, Enum) @@ Fields({"reliability"}, Share),
   observation |-> Fields({"id", "sourceId", "content"}, Id) @@ Fields({"incidentId"}, Strings)
       @@ Fields({"baseDelayTicks", "atTick"}, Tick) @@ Fields({"lossProbability"}, Optional(Share))
       @@ Fields({"degradedDelayMultiplier"}, Optional(Factor)) @@ Fields({"staleAfterTicks"}, Optional(Tick))
       @@ Fields({"category"}, Optional(Strings)) @@ Fields({"corruption"}, Optional(Arrays))
       @@ Fields({"relativeToIncidentStart"}, Optional(Flag)),
   corruption |-> Fields({"probability"}, Share) @@ Fields({"type"}, Enum) @@ Fields({"text"}, Strings)
       @@ Fields({"false"}, Optional(Flag))]

(* scenarioSchema *)
ScenarioFile ==
  [scenario |-> Fields({"id", "name"}, Id) @@ Fields({"description"}, Optional(Strings))
       @@ Fields({"schemaVersion", "totalTicks"}, Length) @@ Fields({"tickDurationSeconds"}, Optional(Positive))
       @@ Fields({"districts", "teams", "routes", "incidents", "sources", "observations"}, Arrays)
       @@ Fields({"effects"}, Optional(Arrays)) @@ Fields({"resources"}, Objects)
       @@ Fields({"metadata"}, Optional(Objects)),
   metadata |-> Fields({"difficulty"}, Enum) @@ Fields({"tags", "mechanics"}, Optional(Arrays))
       @@ Fields({"expectedDurationMinutes"}, Positive),
   resources |-> Fields({"backupGenerators", "advisoryUses"}, Tick)]
    @@ MapFile @@ IncidentFile @@ ObservationFile

(* What a field that is left out stands for; 10 is of the class of 2. *)
Parsed(field, class) ==
  IF class # "absent" THEN class
  ELSE CASE field = "tickDurationSeconds" -> "2"
         [] field = "category" -> "text"
         [] field = "false" -> "boolean"
         [] OTHER -> class

(* compileScenario: at least one district, and small numbers. *)
Compilable(part, field, class) ==
  ~(part = "scenario" /\ field = "districts" /\ class = "no items")

(* Where a value of the scenario is written as it is: [event kind, part of *)
(* its payload, field].                                                    *)
At(kind, part, field) == [kind |-> kind, part |-> part, field |-> field]
Incident(field) == {At("TrueIncidentOccurred", 1, field), At("IncidentChained", 1, field)}
EverySet(kinds, part, field) == {At(kind, part, field) : kind \in kinds}
Teams(field) == {At("SystemStateChanged", 3, field), At("SessionStarted", 2, field), At("OwnTeamUpdated", 2, field)}
Copied(part, field) ==
  CASE part = "scenario" /\ field = "id"         -> EverySet({"ScenarioStarted", "SessionStarted"}, 1, "scenarioId")
    [] part = "scenario" /\ field = "totalTicks" -> EverySet({"ScenarioStarted", "SessionStarted"}, 1, "totalTicks")
    [] part = "scenario" /\ field = "tickDurationSeconds" -> {At("ScenarioStarted", 1, "tickPerSimSecond")}
    [] part = "scenario" /\ field = "districts"  -> {At("ScenarioStarted", 1, "districts")}
    [] part = "scenario" /\ field = "teams"      -> {At("SessionStarted", 1, "teams"), At("SystemStateChanged", 1, "teams")}
    [] part = "scenario" /\ field = "routes"     -> {At("SessionStarted", 1, "routes")}
    [] part = "resources" -> {At("SystemStateChanged", 5, field), At("SessionStarted", 4, field)}
    [] part = "district" /\ field = "id" -> {At("ScenarioStarted", 2, "district"), At("SystemStateChanged", 2, "id")}
    [] part = "district" /\ field \in Gauges -> {At("SystemStateChanged", 2, field)}
    [] part = "team" /\ field = "teamId" -> Teams("teamId")
    [] part = "team" /\ field = "type" -> EverySet({"SessionStarted", "OwnTeamUpdated"}, 2, "type")
    [] part = "team" /\ field = "startDistrict" -> Teams("location")
    [] part = "route" /\ field = "id" -> {At("SessionStarted", 3, "id"), At("KnownRouteUpdated", 2, "id")}
    [] part \in {"effect", "incident"} /\ field \in {"attribute", "delta"} -> {At("ActionApplied", 1, field)}
    [] part = "effect" /\ field = "target" -> {At("ActionApplied", 1, "target")}
    [] part = "incident" /\ field = "id" ->
         Incident("incidentId") \cup EverySet({"IncidentResolved", "ObservationCreated"}, 1, "incidentId")
    [] part = "incident" /\ field = "kind" -> {At("TrueIncidentOccurred", 1, "kind")}
    [] part = "incident" /\ field = "district" -> Incident("district") \cup {At("IncidentResolved", 1, "district")}
    [] part = "incident" /\ field = "severity" -> Incident("severity")
    [] part = "chain" /\ field = "sourceIncidentId" -> {At("IncidentChained", 1, "sourceIncidentId")}
    [] part = "source" /\ field = "id" -> {At("ObservationCreated", 1, "source"), At("EvidenceRecorded", 2, "sourceId")}
    [] part = "source" /\ field = "reliability" ->
         {At("ObservationCreated", 1, "reliability"), At("EvidenceRecorded", 2, "reliability")}
    [] part = "observation" /\ field = "content" ->
         {At("ObservationCreated", 1, "content"), At("ObservationCorrupted", 1, "original"),
          At("EvidenceRecorded", 2, "content")}
    [] part = "observation" /\ field = "category" ->
         {At("ObservationCreated", 1, "category"), At("EvidenceRecorded", 2, "category"),
          At("ClaimUpdated", 2, "predicate")}
    [] part = "corruption" /\ field = "type" -> {At("ObservationCorrupted", 1, "corruptionType")}
    [] part = "corruption" /\ field = "text" ->
         {At("ObservationCorrupted", 1, "corrupted"), At("EvidenceRecorded", 2, "content")}
    [] part = "corruption" /\ field = "false" -> {At("ObservationCorrupted", 1, "false")}
    [] OTHER -> {}

----------------------------------------------------------------------------
(***************************************************************************)
(* The replies of the player transport.                                    *)
(***************************************************************************)
Session == Fields({"sessionId"}, Id)

(* What the server sends: the public state, made of what the player events *)
(* hold (contracts/src/public.ts), and the results of rpc.ts.              *)
SentState ==
  [evidence |-> Evidence,
   claim |-> Claim @@ Fields({"value"}, Strings) @@ Fields({"districtId", "incidentHint"}, Optional(Strings)),
   assessment |-> Assessment @@ Fields({"rationale"}, Id \cup {"absent"}),
   team |-> OwnTeam,
   route |-> KnownRoute,
   resources |-> Resources,
   score |-> Fields({"total"}, Numbers) @@ Fields({"recent"}, Arrays),
   recent |-> Fields({"category"}, Id) @@ Fields({"delta"}, Numbers) @@ Fields({"reason"}, Strings)
       @@ Fields({"tick"}, Tick),
   state |-> Session @@ Fields({"stream", "phase"}, Enum) @@ Fields({"scenarioId"}, Id)
       @@ Fields({"tick", "playerEventCount"}, Tick)
       @@ Fields({"claims", "evidence", "assessments", "teams", "routes"}, Arrays)
       @@ Fields({"resources", "score"}, Objects) @@ Fields({"playerLogHash"}, Id),
   event |-> Linked @@ Fields({"stream"}, Enum)]
(* Every handler of rpc.ts answers in the same envelope. *)
SentAnswer ==
  [error |-> Fields({"code"}, Id) @@ Fields({"message"}, Strings),
   envelope |-> Fields({"ok"}, Flag) @@ Fields({"result", "error"}, Optional(Objects))]
SentSession ==
  [create |-> Session @@ Fields({"seed"}, Whole \cup {"huge"})
       @@ Fields({"scenarioId", "playerLogHash"}, Id)
       @@ Fields({"tick"}, Tick) @@ Fields({"state"}, Objects),
   status |-> Session @@ Fields({"scenarioId", "playerLogHash"}, Id) @@ Fields({"tick"}, Tick)
       @@ Fields({"phase"}, Enum) @@ Fields({"score"}, Numbers) @@ Fields({"state"}, Objects)]
SentPlay ==
  [validation |-> Fields({"valid"}, Flag) @@ Fields({"errorCode", "errorMessage"}, Nullable(Strings)),
   result |-> Fields({"ok"}, Flag) @@ Fields({"detail"}, Strings),
   command |-> Session @@ Fields({"commandId"}, Id) @@ Fields({"state"}, Enum)
       @@ Fields({"etaTick"}, Nullable(Tick)) @@ Fields({"validation", "publicState"}, Objects)
       @@ Fields({"result"}, Nullable(Objects)) @@ Fields({"events"}, Arrays),
   advance |-> Session @@ Fields({"tick", "advanced"}, Tick) @@ Fields({"completed"}, Flag)
       @@ Fields({"events"}, Arrays) @@ Fields({"publicState"}, Objects)]
SentLog ==
  [events |-> Session @@ Fields({"since"}, Tick \cup {"huge"}) @@ Fields({"next"}, Tick)
       @@ Fields({"stream"}, Enum) @@ Fields({"events"}, Arrays),
   assess |-> Session @@ Fields({"assessment", "publicState"}, Objects)
       @@ Fields({"events"}, Arrays),
   summary |-> Session @@ Fields({"scenarioId", "playerLogHash"}, Id)
       @@ Fields({"scoreTotal"}, Numbers)
       @@ Fields({"finalTick", "claimCount", "evidenceCount", "assessmentCount"}, Tick)
       @@ Fields({"claims"}, Arrays)]
SentTable ==
  [delete |-> Session @@ Fields({"deleted"}, Flag), list |-> Fields({"sessions"}, Arrays)]
Sent == SentState @@ SentAnswer @@ SentSession @@ SentPlay @@ SentLog @@ SentTable

SdkTick == {"0", "1", "2"}
SdkString == Strings
SdkSession == Fields({"sessionId"}, SdkString)
SdkPosition == SdkSession @@ Fields({"scenarioId", "playerLogHash"}, SdkString)

(* What the SDK reads: the public state and its events, and the bodies of  *)
(* the replies.                                                            *)
ReadState ==
  [evidence |-> Fields({"id", "claimId", "sourceId", "content", "category"}, SdkString)
       @@ Fields({"observedTick", "deliveredTick"}, SdkTick) @@ Fields({"reliability"}, Numbers)
       @@ Fields({"verified"}, Flag),
   claim |-> Fields({"id", "subject", "predicate"}, SdkString) @@ Fields({"value"}, ValueClass)
       @@ Fields({"districtId", "incidentHint"}, Optional(SdkString))
       @@ Fields({"firstObservedTick", "lastUpdatedTick", "asOfTick"}, SdkTick) @@ Fields({"status"}, Enum)
       @@ Fields({"evidenceIds"}, Arrays),
   assessment |-> Fields({"id", "claimId"}, SdkString) @@ Fields({"probability", "confidence"}, Share)
       @@ Fields({"rationale"}, Optional(SdkString)) @@ Fields({"submittedTick"}, SdkTick),
   team |-> Fields({"teamId", "type", "location", "status"}, SdkString) @@ Fields({"etaTick"}, Nullable(SdkTick))
       @@ Fields({"orderTarget", "orderTask"}, Nullable(SdkString)),
   route |-> Fields({"id"}, SdkString) @@ Fields({"closed"}, Flag) @@ Fields({"knownClosedAtTick"}, Nullable(SdkTick)),
   resources |-> Fields({"backupGenerators", "advisoryUses"}, Numbers),
   score |-> Fields({"total"}, Numbers) @@ Fields({"recent"}, Arrays),
   recent |-> Fields({"category", "reason"}, SdkString) @@ Fields({"delta"}, Numbers) @@ Fields({"tick"}, SdkTick),
   state |-> SdkPosition @@ Fields({"stream", "phase"}, Enum) @@ Fields({"tick", "playerEventCount"}, SdkTick)
       @@ Fields({"claims", "evidence", "assessments", "teams", "routes"}, Arrays)
       @@ Fields({"resources", "score"}, Objects),
   event |-> SdkSession @@ Fields({"stream", "kind"}, Enum) @@ Fields({"sequence", "tick"}, SdkTick)
       @@ Fields({"payload"}, ValueClass) @@ Fields({"previousHash", "hash"}, SdkString)]
ReadReply ==
  [error |-> Fields({"code", "message"}, SdkString),
   envelope |-> Fields({"ok"}, Flag) @@ Fields({"result"}, ValueClass) @@ Fields({"error"}, Optional(Objects)),
   validation |-> Fields({"valid"}, Flag) @@ Fields({"errorCode", "errorMessage"}, Nullable(SdkString)),
   result |-> Fields({"ok"}, Flag) @@ Fields({"detail"}, SdkString),
   command |-> SdkSession @@ Fields({"commandId"}, SdkString) @@ Fields({"state"}, Enum)
       @@ Fields({"etaTick"}, Nullable(SdkTick)) @@ Fields({"validation", "publicState"}, Objects)
       @@ Fields({"result"}, Nullable(Objects)) @@ Fields({"events"}, Arrays),
   advance |-> SdkSession @@ Fields({"tick", "advanced"}, SdkTick) @@ Fields({"completed"}, Flag)
       @@ Fields({"events"}, Arrays) @@ Fields({"publicState"}, Objects),
   assess |-> SdkSession @@ Fields({"assessment", "publicState"}, Objects) @@ Fields({"events"}, Arrays),
   create |-> SdkPosition @@ Fields({"seed"}, Numbers) @@ Fields({"tick"}, SdkTick) @@ Fields({"state"}, Objects),
   status |-> SdkPosition @@ Fields({"tick"}, SdkTick) @@ Fields({"phase"}, Enum) @@ Fields({"score"}, Numbers)
       @@ Fields({"state"}, Objects),
   events |-> SdkSession @@ Fields({"since", "next"}, SdkTick) @@ Fields({"stream"}, Enum)
       @@ Fields({"events"}, Arrays),
   summary |-> SdkPosition @@ Fields({"finalTick", "claimCount", "evidenceCount", "assessmentCount"}, SdkTick)
       @@ Fields({"scoreTotal"}, Numbers) @@ Fields({"claims"}, Arrays),
   delete |-> SdkSession @@ Fields({"deleted"}, Flag),
   list |-> Fields({"sessions"}, Arrays)]
Read == ReadState @@ ReadReply
===============================================================================

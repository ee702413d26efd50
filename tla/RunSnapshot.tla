----------------------------- MODULE RunSnapshot ------------------------------
(***************************************************************************)
(* A snapshot on its way back into an engine: what is written besides the  *)
(* engine's state, and what is checked before it is adopted                *)
(* (packages/simulation/src: snapshot.ts, engine.ts).                      *)
(***************************************************************************)
EXTENDS RunArtifact

(* A digest is never the empty string. *)
ASSUME DigestAssumption == ScenarioDigest # ""

(* snapshot() in full: the state with what binds it to a session, a        *)
(* scenario and a version; its events are envelopes.                       *)
Packed(s) ==
  LET bound == [session |-> Session, scenario |-> Scenario.id, scenarioDigest |-> ScenarioDigest,
                version |-> Protocol, protocol |-> Protocol, worldTick |-> s.tick,
                events |-> Chained(s.events)]
  IN  [f \in DOMAIN s \cup DOMAIN bound |-> IF f \in DOMAIN bound THEN bound[f] ELSE s[f]]

(* serializeSnapshot, and parseSnapshot: it refuses what it did not write. *)
File(data) == [format |-> "null-city-snapshot", version |-> Protocol, data |-> data]
Parsed(file) ==
  /\ file.format = "null-city-snapshot" /\ file.version = Protocol
  /\ file.data.version = Protocol /\ file.data.protocol = Protocol
  /\ file.data.scenarioDigest # ""

Chain(s) ==
  IF s.events = <<>> THEN s.tick = 0 /\ s.sequence = 0
  ELSE ValidStream(s.events, s.session, Tip(s.events))

(* validateSnapshot: a file's chain, tick and count. *)
Validated(s) == Chain(s) /\ s.tick = s.worldTick /\ s.sequence = Len(s.events)

(* validateResumeBinding, for every way into the engine, and the           *)
(* constructor's own look at the tick.                                     *)
Binds(s, session, seed) ==
  /\ s.version = Protocol /\ s.protocol = Protocol
  /\ s.session = session /\ s.seed = seed
  /\ s.scenario = Scenario.id /\ s.scenarioDigest = ScenarioDigest
  /\ s.sequence = Len(s.events)
  /\ Chain(s)
  /\ s.tick = s.worldTick

(* null-city run --resume: loadSnapshotFromFile, then the constructor with *)
(* the session and seed of the file.                                       *)
Loads(file) ==
  Parsed(file) /\ Validated(file.data) /\ Binds(file.data, file.data.session, file.data.seed)
===============================================================================

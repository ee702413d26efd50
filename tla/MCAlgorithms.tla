----------------------------- MODULE MCAlgorithms -----------------------------
(* The pure algorithms on small inputs: routes on networks of up to four   *)
(* roads whose roads close and open, scenarios an author edits, the score  *)
(* of a run, and a file in which one value is not what it was.  A          *)
(* behaviour is about one of them, its topic.                              *)
EXTENDS RoadNetwork, ScenarioCompile, ScoreKeeping

Schemas == INSTANCE BoundarySchemas

CONSTANTS a, b, c, d, r1, r2, r3, r4,  \* districts and roads
          i1, i2, i3, other,           \* names of incidents, and one that names nothing
          MaxEdits

VARIABLES topic, scenario, edits, found

authorVars == <<scenario, edits>>
algorithmVars == <<topic, roadVars, authorVars, scoreVars, found>>

MCAlphabet == <<a, b, c, d, i1, i2, i3, other, r1, r2, r3, r4>>

MCMean == {-17, -14, -5, -3, 0, 4, 5, 8, 13}
MCCount == {0, 10}

----------------------------------------------------------------------------
MCDistricts == {a, b, c, d}
Road == {r1, r2, r3, r4}

\* Two roads may join the same districts.  Some ends and times are fixed to
\* bound the number of networks.
MCNetworks ==
  {net \in [Road -> [from : {a, b}, to : {b, c, d}, ticks : {1, 2, 5}]] :
     /\ \A r \in Road : net[r].from # net[r].to
     /\ net[r1].from = a /\ net[r1].ticks = 1 /\ net[r2].ticks = 2
     /\ net[r3].from = b /\ net[r4].to = d}

----------------------------------------------------------------------------
MCIncident(id, at, trigger) == [id |-> id, district |-> a, atTick |-> at, trigger |-> trigger]
MCEffect(target, at, delta) == [target |-> target, atTick |-> at, delta |-> delta]
After(source, district) == [source |-> source, district |-> district]
Base ==
  [schemaVersion |-> 1, totalTicks |-> 5, backupGenerators |-> 2, advisoryUses |-> 2,
   districts |-> <<a, b>>, teams |-> <<[id |-> r1, start |-> a]>>,
   routes |-> <<[id |-> r1, from |-> a, to |-> b]>>, effects |-> <<MCEffect(b, 5, 1)>>,
   incidents |-> <<MCIncident(i1, 1, NoTrigger), MCIncident(i2, 9, After(i1, b))>>,
   sources |-> <<r1>>,
   observations |-> <<[id |-> r1, incident |-> i2, source |-> r1, corruption |-> <<60, 40>>]>>]

(* What an author may write instead, list by list. *)
Chains(trigger, at) == [n \in 1 .. 3 |-> MCIncident(<<i1, i2, i3>>[n], at[n], trigger[n])]
Trigger == {NoTrigger} \cup {After(i, b) : i \in {i1, i2, i3}}
Written ==
  [districts |-> {<<>>, <<a>>, <<a, b, a>>},
   teams     |-> {<<[id |-> r1, start |-> t]>> : t \in {b, c}}
                   \cup {<<[id |-> r1, start |-> a], [id |-> r1, start |-> b]>>},
   routes    |-> {<<[id |-> r1, from |-> f, to |-> t]>> : f \in {a, c}, t \in {a, b}},
   effects   |-> {<<MCEffect(t, n, 1)>> : t \in {b, c}, n \in {1, 6}}
                   \cup {<<MCEffect(b, 2, 1), MCEffect(t, n, 2)>> : t \in {a, b}, n \in {1, 2}},
   sources   |-> {<<>>, <<r2>>, <<r1, r1>>},
   observations |-> {<<[id |-> r1, incident |-> i, source |-> r1, corruption |-> p]>> :
                       i \in {i1, other}, p \in {<<>>, <<60, 41>>}},
   totalTicks |-> {1, 10000, 10001}, advisoryUses |-> {100, 101}, schemaVersion |-> {2},
   incidents |-> {Chains(t, at) : t \in [1 .. 3 -> Trigger], at \in [1 .. 3 -> {0, 1, 9}]}
                   \cup {<<MCIncident(i1, 1, t), MCIncident(i, 9, After(i1, p))>> :
                           t \in {NoTrigger, After(other, a)}, i \in {i1, i2}, p \in {b, c}}]

(* The author writes one list anew. *)
Edit(field) ==
  /\ edits < MaxEdits
  /\ \E list \in Written[field] : scenario' = [scenario EXCEPT ![field] = list]
  /\ edits' = edits + 1

(* No name means two things, and every lookup of world.ts and engine.ts    *)
(* finds what it names.                                                    *)
Unambiguous(s) ==
  /\ \A field \in {"teams", "routes", "incidents", "observations"} :
       Cardinality(ToSet(Ids(s[field]))) = Len(s[field])
  /\ \A field \in {"districts", "sources"} : Cardinality(ToSet(s[field])) = Len(s[field])
Named(s) ==
  /\ {t.start : t \in ToSet(s.teams)} \cup {e.target : e \in ToSet(s.effects)}
       \cup {i.district : i \in ToSet(s.incidents)}
       \cup UNION {{r.from, r.to} : r \in ToSet(s.routes)} \subseteq ToSet(s.districts)
  /\ {o.incident : o \in ToSet(s.observations)} \subseteq ToSet(Ids(s.incidents))
  /\ {o.source : o \in ToSet(s.observations)} \subseteq ToSet(s.sources)

(* What starts by the clock, at a tick that a step plays, and with every   *)
(* incident what is chained to it, is every incident.                      *)
EachCanStart(s) ==
  LET all == ToSet(s.incidents)
      Starts(i, S) == \/ i.atTick \in 1 .. s.totalTicks
                      \/ i.trigger # NoTrigger /\ i.trigger.source \in S
      Closed(S) == \A i \in all : Starts(i, S) => i.id \in S
  IN  \A S \in SUBSET {i.id : i \in all} : Closed(S) => S = {i.id : i \in all}

(* The first tick that a step plays is 1, and the schema allows 0. *)
RootsArePlayed(s) == \A i \in ToSet(s.incidents) : i.trigger = NoTrigger => i.atTick > 0

(* A set of incidents each of which is chained to another of the set.      *)
Circular(s) ==
  \E S \in SUBSET ToSet(Ids(s.incidents)) \ {{}} :
    \A id \in S : \E i \in ToSet(s.incidents) :
      i.id = id /\ i.trigger # NoTrigger /\ i.trigger.source \in S

(* The file with the lists in any other order. *)
Reordered(s) ==
  UNION {{[s EXCEPT ![field] = [n \in DOMAIN s[field] |-> s[field][p[n]]]] :
            p \in Permutations(DOMAIN s[field])} :
         field \in {"districts", "teams", "routes", "incidents", "effects", "sources", "observations"}}
Tied(s) ==
  \E m, n \in DOMAIN s.effects :
    /\ s.effects[m] # s.effects[n]
    /\ s.effects[m].target = s.effects[n].target /\ s.effects[m].atTick = s.effects[n].atTick

(* A scenario that compiles can be played: every name is defined once,     *)
(* every reference is to a name, and every incident can start, by the      *)
(* clock or at the end of a chain that starts by the clock, unless one     *)
(* that is not chained is set at tick 0, which compiles and is never       *)
(* played; the search for cycles finds one exactly when incidents are      *)
(* chained in a circle; and the order of the lists in the file decides     *)
(* neither whether it compiles nor the digest, unless two effects are on   *)
(* one district at one tick (compileScenario, hasCycle, step).             *)
CompiledIsPlayable ==
  topic = "scenario" =>
    /\ Compiles(scenario) =>
         /\ Unambiguous(scenario) /\ Named(scenario)
         /\ EachCanStart(scenario) <=> RootsArePlayed(scenario)
    /\ HasCycle(scenario.incidents) <=> Circular(scenario)
    /\ \A file \in Reordered(scenario) :
         /\ Compiles(file) <=> Compiles(scenario)
         /\ Compiles(file) /\ ~Tied(file) => Ordered(file) = Ordered(scenario)

----------------------------------------------------------------------------
(* A value found in a field of a file: where, and of which class.          *)
Contract == Schemas!TruthSchemas @@ Schemas!PlayerSchemas
Lab == Schemas!LabTruthSchemas @@ Schemas!LabPlayerSchemas
Nothing == [kind |-> "none"]

(* One field of the file holds any value, the rest is as it should be.     *)
Find(kind, shape) ==
  /\ found = Nothing
  /\ \E part \in DOMAIN shape : \E field \in DOMAIN shape[part], class \in Schemas!ValueClass :
       found' = [kind |-> kind, part |-> part, field |-> field, class |-> class]

LetsThrough(schema) == found.class \in schema[found.part][found.field]
InPart(schema) == found.part \in DOMAIN schema /\ found.field \in DOMAIN schema[found.part]
Oversize == found.class \in Schemas!Oversize
Is(part, field, class) == found.part = part /\ found.field = field /\ found.class = class

(* An event's payload: the Lab reads exactly what the contract holds       *)
(* valid, except for sizes and whole numbers that are no safe integers.    *)
EventsAgree ==
  found.kind \in DOMAIN Contract =>
    LET contract == LetsThrough(Contract[found.kind])
        lab      == LetsThrough(Lab[found.kind])
    IN  \/ contract = lab
        \/ contract /\ Oversize
        \/ lab /\ found.class = "huge"

(* The artifact around it: what is exported is read by both, except for    *)
(* sizes; and the Lab opens nothing that the command line refuses, except  *)
(* an empty hash or session, which it finds not to match.                  *)
ArtifactsAgree ==
  found.kind = "artifact" =>
    LET exported == LetsThrough(Schemas!Exported)
        cli      == InPart(Schemas!CliArtifact) => LetsThrough(Schemas!CliArtifact)
        lab      == LetsThrough(Schemas!LabArtifact)
    IN  /\ exported => cli /\ (lab \/ Oversize)
        /\ lab => \/ cli
                  \/ Is("root", "artifactHash", "empty")
                  \/ Is("truthEvent", "sessionId", "empty")

(* A scenario: every value that is let in and copied into an event is      *)
(* valid there, except an observation's empty category.                    *)
ScenariosAgree ==
  found.kind = "scenario" /\ LetsThrough(Schemas!ScenarioFile)
    /\ Schemas!Compilable(found.part, found.field, found.class) =>
    \/ \A at \in Schemas!Copied(found.part, found.field) :
         Schemas!Parsed(found.field, found.class) \in Contract[at.kind][at.part][at.field]
    \/ Is("observation", "category", "empty")

(* A reply: the client reads whatever the server sends, except the echo of *)
(* a position no log has.                                                  *)
RepliesAgree ==
  found.kind = "reply" /\ LetsThrough(Schemas!Sent) =>
    LetsThrough(Schemas!Read) \/ Is("events", "since", "huge")

(* The schemas that one value passes through, one after the other, agree:  *)
(* what a scenario may hold can be told in events, what an event may hold  *)
(* is read by the client, the command line and the Lab (index.ts,          *)
(* truth-payloads.ts, player-payloads.ts, schemas.ts, event-payloads.ts:   *)
(* "Field requirements mirror the public player / truth payload            *)
(* contracts").                                                            *)
SchemasAgree ==
  found # Nothing => EventsAgree /\ ArtifactsAgree /\ ScenariosAgree /\ RepliesAgree

----------------------------------------------------------------------------
Init ==
  /\ topic \in {"roads", "scenario", "score", "schema"}
  /\ found = Nothing
  /\ IF topic = "roads" THEN RoadInit ELSE roads = <<>> /\ closed = {}
  /\ scenario = Base
  /\ edits = 0
  /\ ScoreInit

Next ==
  /\ UNCHANGED topic
  /\ \/ /\ topic = "roads"
        /\ RoadNext
        /\ UNCHANGED <<authorVars, scoreVars, found>>
     \/ /\ topic = "scenario"
        /\ \E field \in DOMAIN Written : Edit(field)
        /\ UNCHANGED <<roadVars, scoreVars, found>>
     \/ /\ topic = "score"
        /\ ScoreNext
        /\ UNCHANGED <<roadVars, authorVars, found>>
     \/ /\ topic = "schema"
        /\ \/ \E kind \in DOMAIN Contract : Find(kind, Contract[kind])
           \/ Find("artifact", Schemas!Exported)
           \/ Find("scenario", Schemas!ScenarioFile)
           \/ Find("reply", Schemas!Sent)
        /\ UNCHANGED <<roadVars, authorVars, scoreVars>>

Spec == Init /\ [][Next]_algorithmVars
===============================================================================

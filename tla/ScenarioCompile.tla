--------------------------- MODULE ScenarioCompile ---------------------------
(***************************************************************************)
(* The scenario compiler (packages/scenario-schema/src/compile.ts): what   *)
(* it refuses, and the search for cycles among chained incidents.          *)
(*                                                                         *)
(* A scenario is a record of lists as the file has them, of what the       *)
(* schema lets through.  Names are values, probabilities are hundredths.   *)
(***************************************************************************)
EXTENDS Integers, SequencesExt

CONSTANTS
  NoTrigger,  \* an incident without chainTrigger
  Alphabet    \* every name, in the order of localeCompare

Ids(list) == [n \in DOMAIN list |-> list[n].id]

(* assertUnique *)
Unique(ids) == \A m, n \in DOMAIN ids : m # n => ids[m] # ids[n]

----------------------------------------------------------------------------
(***************************************************************************)
(* hasCycle                                                                *)
(***************************************************************************)
(* chainAdj: the incidents chained to node, in the order of the file. *)
Chained(incidents, node) ==
  Ids(SelectSeq(incidents, LAMBDA i : i.trigger # NoTrigger /\ i.trigger.source = node))

\* Faulty: a node being visited counts as one that was.
RECURSIVE WalkForgiving(_, _, _, _)
WalkForgiving(incidents, node, visiting, visited) ==
  IF node \in visiting \cup visited THEN [cycle |-> FALSE, visited |-> visited]
  ELSE FoldLeft(LAMBDA acc, next :
                  IF acc.cycle THEN acc
                  ELSE WalkForgiving(incidents, next, visiting \cup {node}, acc.visited),
                [cycle |-> FALSE, visited |-> visited], Chained(incidents, node))

(* walk: depth first; a node on the way here closes a cycle, one that was  *)
(* left before does not.                                                   *)
RECURSIVE Walk(_, _, _, _)
Walk(incidents, node, visiting, visited) ==
  IF node \in visiting THEN [cycle |-> TRUE, visited |-> visited]
  ELSE IF node \in visited THEN [cycle |-> FALSE, visited |-> visited]
  ELSE LET below == FoldLeft(LAMBDA acc, next :
                               IF acc.cycle THEN acc
                               ELSE Walk(incidents, next, visiting \cup {node}, acc.visited),
                             [cycle |-> FALSE, visited |-> visited], Chained(incidents, node))
       IN  IF below.cycle THEN below ELSE [below EXCEPT !.visited = @ \cup {node}]

(* From every incident that something is chained to. *)
HasCycle(incidents) ==
  LET sources == {i.trigger.source : i \in {j \in ToSet(incidents) : j.trigger # NoTrigger}}
  IN  FoldSet(LAMBDA node, acc : IF acc.cycle THEN acc ELSE Walk(incidents, node, {}, acc.visited),
              [cycle |-> FALSE, visited |-> {}], sources).cycle

----------------------------------------------------------------------------
(***************************************************************************)
(* compileScenario, a conjunct for each group of its diagnostics.          *)
(***************************************************************************)
WithinCeilings(s) ==
  /\ s.schemaVersion = 1 \* SUPPORTED_SCHEMA_VERSIONS
  /\ s.totalTicks <= 10000
  /\ s.districts # <<>>
  /\ s.backupGenerators <= 100 /\ s.advisoryUses <= 100

AllUnique(s) ==
  /\ Unique(s.districts) /\ Unique(Ids(s.teams)) /\ Unique(Ids(s.routes))
  /\ Unique(Ids(s.incidents)) /\ Unique(s.sources) /\ Unique(Ids(s.observations))

MapResolves(s) ==
  LET districts == ToSet(s.districts)
  IN  /\ \A t \in ToSet(s.teams) : t.start \in districts
      /\ \A r \in ToSet(s.routes) : r.from \in districts /\ r.to \in districts /\ r.from # r.to
      /\ \A e \in ToSet(s.effects) : e.target \in districts /\ e.atTick <= s.totalTicks

(* An incident that is not chained must start within the run. *)
IncidentsResolve(s) ==
  \A i \in ToSet(s.incidents) :
    /\ i.district \in ToSet(s.districts)
    /\ i.trigger = NoTrigger => i.atTick <= s.totalTicks
    /\ i.trigger # NoTrigger =>
         /\ i.trigger.source \in ToSet(Ids(s.incidents)) \ {i.id}
         /\ i.trigger.district \in ToSet(s.districts)

ReportsResolve(s) ==
  \A o \in ToSet(s.observations) :
    /\ o.incident \in ToSet(Ids(s.incidents))
    /\ o.source \in ToSet(s.sources)
    /\ FoldLeft(+, 0, o.corruption) <= 100

Compiles(s) ==
  /\ WithinCeilings(s) /\ AllUnique(s)
  /\ MapResolves(s) /\ IncidentsResolve(s) /\ ~HasCycle(s.incidents) /\ ReportsResolve(s)
----------------------------------------------------------------------------
(***************************************************************************)
(* The canonical order of what was compiled, over which its digest is      *)
(* taken.                                                                  *)
(***************************************************************************)
Earlier(x, y) ==
  \E m, n \in DOMAIN Alphabet : m < n /\ Alphabet[m] = x /\ Alphabet[n] = y

(* Array.sort: what ties keeps its order. *)
Sorted(list, Before(_, _)) ==
  LET Precedes(m, n) == \/ Before(list[m], list[n])
                        \/ m < n /\ ~Before(list[n], list[m])
      order == SortSeq([n \in DOMAIN list |-> n], Precedes)
  IN  [n \in DOMAIN list |-> list[order[n]]]

ById(x, y) == Earlier(x.id, y.id)

ByTick(x, y) ==
  \/ x.atTick < y.atTick
  \/ x.atTick = y.atTick /\ Earlier(x.target, y.target)

(* ordered; the digest is of this. *)
Ordered(s) ==
  [s EXCEPT !.districts = Sorted(@, Earlier), !.teams = Sorted(@, ById),
            !.routes = Sorted(@, ById), !.incidents = Sorted(@, ById),
            !.sources = Sorted(@, Earlier), !.observations = Sorted(@, ById),
            !.effects = Sorted(@, ByTick)]
==============================================================================

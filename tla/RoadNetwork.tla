------------------------------ MODULE RoadNetwork ------------------------------
(***************************************************************************)
(* Roads that close and open again (packages/simulation/src/engine.ts),    *)
(* and the way through them at any moment.                                 *)
(***************************************************************************)
EXTENDS RouteGraph

CONSTANTS
  Districts,  \* the districts
  Networks    \* the road networks a scenario may have

IsNetwork(net) ==
  /\ IsFiniteSet(DOMAIN net)
  /\ \A r \in DOMAIN net :
       net[r].from \in Districts /\ net[r].to \in Districts /\ net[r].ticks \in Nat \ {0}
ASSUME NetworkAssumption == IsFiniteSet(Districts) /\ \A net \in Networks : IsNetwork(net)

VARIABLES
  roads,   \* the scenario's routes
  closed   \* those with closed = true
roadVars == <<roads, closed>>

RoadInit == roads \in Networks /\ closed = {}

(* setRouteClosed: CLOSE_ROUTE and REOPEN_ROUTE *)
CloseRoad(r) == r \notin closed /\ closed' = closed \cup {r} /\ UNCHANGED roads
ReopenRoad(r) == r \in closed /\ closed' = closed \ {r} /\ UNCHANGED roads

RoadNext == \E r \in DOMAIN roads : CloseRoad(r) \/ ReopenRoad(r)
RoadSpec == RoadInit /\ [][RoadNext]_roadVars

(* The search of graph.ts, with its loop bound and early exit, finds the   *)
(* least travel time over the open roads, and null only when none is left. *)
DijkstraIsShortest ==
  \A from, to \in Districts :
    ShortestTravel(from, to, roads, closed) =
      ReferenceTravel(from, to, Districts, Edges(roads, closed))
===============================================================================

----------------------------- MODULE MCTeamOrders -----------------------------
(***************************************************************************)
(* Two teams and three districts on a small road network for TLC: the      *)
(* verification team can be sent elsewhere while it works, the fire team   *)
(* cannot, and a longer way round remains when the direct road is closed.  *)
(***************************************************************************)
EXTENDS TeamOrders, TLC

CONSTANTS scout, crew, north, south, direct, bridge

MCTeam == {scout, crew}
MCDistrict == {north, south}
MCRoads ==
  direct :> [from |-> north, to |-> south, ticks |-> 1]
    @@ bridge :> [from |-> south, to |-> north, ticks |-> 3]

Graph == INSTANCE RouteGraph
MCTravel == Graph!TravelTable(MCDistrict, MCRoads)
MCRoute == {direct, bridge}
MCTeamType == scout :> "verification" @@ crew :> "fire"
\* Keys are only compared for equality.
Symmetry == Permutations(Key)
MCHome == scout :> north @@ crew :> south
===============================================================================

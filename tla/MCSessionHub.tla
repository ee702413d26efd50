----------------------------- MODULE MCSessionHub -----------------------------
(* Verification teams in one or both of two districts, and one observation *)
(* of each claim, one of which can be false; the cfg of a run picks the    *)
(* teams and the observations.                                             *)
EXTENDS SessionHub

CONSTANTS scout, ranger, north, south, road, fire, flood, fireReport, floodReport

MCTravel ==
  LET Graph == INSTANCE RouteGraph
  IN  Graph!TravelTable(District, road :> [from |-> north, to |-> south, ticks |-> 2])
MCTeamType == [t \in Team |-> "verification"]
MCHome == [t \in Team |-> IF t = scout THEN north ELSE south]
MCClaimOf == [o \in Obs |-> IF o = fireReport THEN fire ELSE flood]
MCDistrictOf == [c \in Claim |-> IF c = fire THEN south ELSE north]
Original == [text |-> "original", false |-> FALSE]
Wrong    == [text |-> "wrong", false |-> TRUE]
MCVariants == [o \in Obs |-> IF o = fireReport THEN {Original, Wrong} ELSE {Original}]
\* Keys are only compared for equality.
Symmetry == Permutations(Key)
===============================================================================

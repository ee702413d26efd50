-------------------------------- MODULE MCCity --------------------------------
(* One fire crew and two districts.  A fire in the north lowers its power; *)
(* an outage in the south follows when the north stays low, and a blackout *)
(* follows the outage; a repeated relief effect lifts the level now and    *)
(* then.                                                                   *)
EXTENDS City, TLC

CONSTANTS crew, north, south, road, fire, outage, blackout

MCTravel == [c \in SUBSET {road} |-> [f \in {north, south} |-> [t \in {north, south} |->
              IF f = t THEN 0 ELSE IF road \in c THEN NoPath ELSE 1]]]
MCTeamType == crew :> "fire"
MCHome == crew :> south
MCScripted == <<blackout, fire, outage>>
Hit(d, at, sev, delta) ==
  [district |-> d, atTick |-> at, severity |-> sev, attribute |-> "power", delta |-> delta,
   handledBy |-> {"hazard_control"}]
MCDef == fire :> Hit(north, 1, 6, -20)
           @@ outage :> Hit(south, 99, 6, -30)
           @@ blackout :> Hit(south, 99, 12, -5)
MCChainOf ==
  outage :> [source |-> fire, attribute |-> "power", below |-> 45, forTicks |-> 2]
    @@ blackout :> [source |-> outage, attribute |-> "power", below |-> 50, forTicks |-> 1]
\* By default the source's district is watched.
MCWatched == outage :> north @@ blackout :> south
MCEffects == <<[at |-> 2, every |-> 2, district |-> north, attribute |-> "power", delta |-> 25],
               [at |-> 3, every |-> NoTick, district |-> south, attribute |-> "hazardLevel", delta |-> 60]>>
MCStartLevel == [d \in {north, south} |-> [a \in Attribute |-> IF a = "power" THEN 60 ELSE 0]]
Symmetry == Permutations(Key)
===============================================================================

---------------------------- MODULE MCObservations ----------------------------
(* A prompt report and a slow one that goes stale on a schedule of their   *)
(* own, and a report that follows its incident; two incidents of different *)
(* districts.                                                              *)
EXTENDS Observations, TLC

CONSTANTS prompt, slow, follow, fire, flood, north, south

MCIncidentOf == prompt :> flood @@ slow :> fire @@ follow :> fire
MCPlaceOf == fire :> north @@ flood :> south
MCAtTick == prompt :> 2 @@ slow :> 1 @@ follow :> 1
MCBaseDelay == prompt :> 0 @@ slow :> 1 @@ follow :> 1
MCDegradedFactor == prompt :> 1 @@ slow :> 2 @@ follow :> 1
MCStaleAfter == prompt :> NoTick @@ slow :> 2 @@ follow :> NoTick
===============================================================================

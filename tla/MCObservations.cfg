\* Three reports of two incidents over 4 ticks.
CONSTANTS
  prompt = prompt
  slow = slow
  follow = follow
  fire = fire
  flood = flood
  north = north
  south = south
  NoTick = NoTick
  Obs = {prompt, slow, follow}
  Incident = {fire, flood}
  District = {north, south}
  IncidentOf <- MCIncidentOf
  PlaceOf <- MCPlaceOf
  AtTick <- MCAtTick
  Relative = {follow}
  BaseDelay <- MCBaseDelay
  DegradedFactor <- MCDegradedFactor
  StaleAfter <- MCStaleAfter
  Losable = {prompt, follow}
  TotalTicks = 4
  Priorities = {2}
SPECIFICATION Spec
INVARIANTS
  LandsOnTime
  CreatedOnSchedule
PROPERTY FateIsFinal
\* The run ends.
CHECK_DEADLOCK FALSE

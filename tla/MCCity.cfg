\* One crew, two districts, three incidents; 3 commands under 2 keys, 6 ticks.
CONSTANTS
  crew = crew
  north = north
  south = south
  road = road
  fire = fire
  outage = outage
  blackout = blackout
  Team = {crew}
  District = {north, south}
  Route = {road}
  Key = {k1, k2, k3}
  TeamType <- MCTeamType
  Home <- MCHome
  Reschedulable = {crew}
  Task = {"hazard_control"}
  Travel <- MCTravel
  NoPath = NoPath
  NoOrder = NoOrder
  NoTick = NoTick
  TotalTicks = 6
  MaxCommands = 3
  Incident = {fire, outage, blackout}
  Scripted <- MCScripted
  Def <- MCDef
  ChainOf <- MCChainOf
  Watched <- MCWatched
  Effects <- MCEffects
  StartLevel <- MCStartLevel
  Generators = 2
  Advisories = 1
  BackupTicks = 3
  GraceTicks = 1
  PointsPerTick = 2
  MaxPoints = 5
SYMMETRY Symmetry
SPECIFICATION CitySpec
INVARIANTS
  ChainsOnSustained
PROPERTIES
  NeglectIsCharged
  OutcomeIsFinal
  BackupHoldsFloor
\* A completed run, or one whose command budget is spent, may stop.
CHECK_DEADLOCK FALSE

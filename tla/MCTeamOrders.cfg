\* Teams, orders and the command intake: 4 commands under 4 keys over 4 ticks.
CONSTANTS
  scout = scout
  crew = crew
  north = north
  south = south
  direct = direct
  bridge = bridge
  Team <- MCTeam
  District <- MCDistrict
  Route <- MCRoute
  Key = {k1, k2, k3, k4}
  TeamType <- MCTeamType
  Home <- MCHome
  Reschedulable = {scout}
  Task = {"verify", "hazard_control"}
  Travel <- MCTravel
  NoPath = NoPath
  NoOrder = NoOrder
  NoTick = NoTick
  TotalTicks = 4
  MaxCommands = 4
SYMMETRY Symmetry
SPECIFICATION Spec
INVARIANTS
  Punctual
  HeldOrderIsLatest
  StatusMatchesOrder
  WasteIsCancelledTravel
  ExecutedOnce
PROPERTY ImplementsLifecycle
\* A completed run, or one whose command budget is spent, may stop.
CHECK_DEADLOCK FALSE

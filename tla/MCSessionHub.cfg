\* One team, two claims and a restart: 3 commands under 2 keys over 3 ticks.
CONSTANTS
  scout = scout
  ranger = ranger
  north = north
  south = south
  road = road
  fire = fire
  flood = flood
  fireReport = fireReport
  floodReport = floodReport
  Team = {scout}
  District = {north, south}
  Route = {road}
  Key = {k1, k2}
  TeamType <- MCTeamType
  Home <- MCHome
  Reschedulable = {scout}
  Task = {"verify"}
  Travel <- MCTravel
  NoPath = NoPath
  NoOrder = NoOrder
  NoTick = NoTick
  TotalTicks = 3
  MaxCommands = 3
  Obs = {fireReport, floodReport}
  Claim = {fire, flood}
  ClaimOf <- MCClaimOf
  Variants <- MCVariants
  Unseen = Unseen
  NoClaim = NoClaim
  DistrictOf <- MCDistrictOf
  NoJob = NoJob
  MaxResumes = 1
SYMMETRY Symmetry
SPECIFICATION HubSpec
INVARIANTS
  PublicMirrorsEngine
  JobBoundToLiveOrder
  ResolvedByOwnOrder
  AnsweredUnlessForgotten
  TerminalEventIsLast
\* A completed run, or one whose command budget is spent, may stop.
CHECK_DEADLOCK FALSE

\* The rule that a rejected command has no side effects, against the server.
CONSTANTS
  scout = scout
  ranger = ranger
  north = north
  south = south
  road = road
  fire = fire
  flood = flood
  fireReport = fireReport
  floodReport = floodReport
  Team = {scout}
  District = {north, south}
  Route = {road}
  Key = {k1, k2}
  TeamType <- MCTeamType
  Home <- MCHome
  Reschedulable = {scout}
  Task = {"verify"}
  Travel <- MCTravel
  NoPath = NoPath
  NoOrder = NoOrder
  NoTick = NoTick
  TotalTicks = 3
  MaxCommands = 3
  Obs = {fireReport}
  Claim = {fire}
  ClaimOf <- MCClaimOf
  Variants <- MCVariants
  Unseen = Unseen
  NoClaim = NoClaim
  DistrictOf <- MCDistrictOf
  NoJob = NoJob
  MaxResumes = 0
SYMMETRY Symmetry
SPECIFICATION HubSpec
INVARIANT AcceptedVerificationAnswered
\* A completed run, or one whose command budget is spent, may stop.
CHECK_DEADLOCK FALSE

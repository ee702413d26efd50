CONSTANTS
  scout = scout
  north = north
  south = south
  fire = fire
  early = early
  late = late
  rumour = rumour
  claim = claim
  k1 = k1
  k2 = k2
  extra = extra
  NoTick = NoTick
  NoOrder = NoOrder
  Unseen = Unseen
  NoClaim = NoClaim
  NoJob = NoJob
  Nothing = Nothing
  Session = Session
  Damaged = Damaged
  NoSnapshot = NoSnapshot
  Scenario <- MCScenario
  Requests <- MCRequests
  Seeds = {1}
  Keys = {k1, k2}
  Beliefs = {30, 100}
  MaxActions = 2
  MaxRestarts = 1
SPECIFICATION RecordSpec
INVARIANT LedgerRebuildsRun
INVARIANT TruthRebuildsRun
INVARIANT AcceptedIsARun
INVARIANT VerifiersNest
INVARIANT MetricsTellTheRun
PROPERTY ScrubbedIsRun
CHECK_DEADLOCK FALSE
SYMMETRY Symmetry

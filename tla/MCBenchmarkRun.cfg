CONSTANTS
  MaxAttempts = 2
  TotalTicks = 2
  MaxPerDecision = 1
  k1 = k1
  k2 = k2
  NoKey = NoKey
  NoCall = NoCall
  NoAnswer = NoAnswer
  Decisions <- MCDecisions
SPECIFICATION RunSpec
INVARIANTS CallsTakeEffectOnce RecordIsTrue
PROPERTY RunEnds

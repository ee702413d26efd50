\* Routes, scenarios and scores on small inputs.
CONSTANTS
  a = a
  b = b
  c = c
  d = d
  r1 = r1
  r2 = r2
  r3 = r3
  r4 = r4
  i1 = i1
  i2 = i2
  i3 = i3
  other = other
  NoPath = NoPath
  NoTrigger = NoTrigger
  Alphabet <- MCAlphabet
  Mean <- MCMean
  Count <- MCCount
  MaxEdits = 2
  Districts <- MCDistricts
  Networks <- MCNetworks
SPECIFICATION Spec
INVARIANT DijkstraIsShortest
INVARIANT CompiledIsPlayable
INVARIANT ScoreIsExplained
INVARIANT PlayersSeeTheTotal
CHECK_DEADLOCK FALSE
INVARIANT SchemasAgree

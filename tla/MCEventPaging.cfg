\* Pages of two or more events, some above the ceiling of one reply.
CONSTANTS
  MaxEvents = 6
  Limits = {2, 3}
  MaxListItems = 2
  ClaimLimits = {1, 3}
  Claim = {c1, c2, c3}
SPECIFICATION PagingSpec
INVARIANT
  ClaimsMissedOnlyByChange
PROPERTY EveryEventRead

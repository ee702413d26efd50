\* Evidence, claims and verdicts: every order of four observations.
CONSTANTS
  fire1 = fire1
  fire2 = fire2
  fire3 = fire3
  flood1 = flood1
  fire = fire
  flood = flood
  Obs = {fire1, fire2, fire3, flood1}
  Claim = {fire, flood}
  ClaimOf <- MCClaimOf
  Variants <- MCVariants
  Unseen = Unseen
  NoClaim = NoClaim
SPECIFICATION BridgeSpec
INVARIANTS
  StatusReflectsEvidence
  RefutedForCause
PROPERTY VerdictStands

SPECIFICATION SetSpec
CONSTANTS
  Radix = 2
  MaxSuffix = 3
  Text <- MCText
  Lookup <- MCLookup
  MaxRange = 3
  Careful = TRUE
  FreedLo = {0}
  MaxHosts = 4
  MaxRanges = 4
  MaxLooks = 12
INVARIANTS
  TruncationIsTold

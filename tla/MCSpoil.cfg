SPECIFICATION SetSpec
CONSTANTS
  Radix = 2
  MaxSuffix = 3
  Text <- MCMixed
  Lookup <- MCLookup
  MaxRange = 3
  Careful = FALSE
  FreedLo = {0, 4}
  MaxHosts = 5
  MaxRanges = 4
  MaxLooks = 12
PROPERTIES
  SortKeepsHosts

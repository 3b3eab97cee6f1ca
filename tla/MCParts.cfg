SPECIFICATION MCSpec
CONSTANTS
  a = a
  b = b
  c = c
  Item = {a, b, c}
  Iter = {i1, i2}
  Top = Top
  Nil = Nil
  Rank <- MCRank
  Key <- MCKey
  HashKey <- MCHashKey
  Piece <- MCPiece
  Name <- MCName
  File <- MCFile
  InitSize = 1
  MaxSize = 4
INVARIANTS
  IteratorsAgree
  ListIsWhole
  HashHolds
  ReadsAsMeant
  SimpleValuesFit
PROPERTIES
  SortIsStable
  TraversalsAreWhole

SPECIFICATION Spec
CONSTANTS
  Letter = {"a", "b"}
  Node <- MCNode
  Rank <- MCRank
  Found <- MCFound
  Crowded <- MCCrowded
  Wide <- MCWide
  Text <- MCText
  Length = {1, 3}
  PipeSize = 8
  MaxRest = 2
CHECK_DEADLOCK FALSE
INVARIANT
  SyntaxErrorsAreItsOwn

SPECIFICATION Spec
CONSTANTS
  n1 = n1
  n2 = n2
  n3 = n3
  a1 = a1
  a2 = a2
  Node = {n1, n2, n3}
  Attr = {a1, a2}
  Value <- MCValue
  NoValue = NoValue
  Absent = Absent
  File <- MCFile
  Reading <- MCReading
  Rank <- MCRank
  AfterSort <- MCAfterSort
  PrintedLen <- MCPrintedLen
  Self = n3
  MaxOptions = 3
  MaxNodes = 2
INVARIANTS
  OptionsAreUsed
  OutputReadsBack
  DiffCounts
  AnswersAreRight
CHECK_DEADLOCK FALSE

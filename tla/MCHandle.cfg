SPECIFICATION Spec
CONSTANTS
  Node <- MCNode
  Attr <- MCAttr
  Value <- MCValue
  Result <- MCResult
  NoValue = NoValue
  Absent = Absent
  NOVALUE = NOVALUE
  NULL = NULL
  Handle = {h1}
  Loadable <- MCLoadable
  Subst = {"%n", "xxx%n"}
  NodeSubst = {"%n", "xxx%n"}
  Expand <- MCExpand
  NodeLen <- MCNodeLen
  StrLen <- MCStrLen
  Rank <- MCRank
  Length = {0, 1, 2, 4}
INVARIANTS
  TypeOK
  IndexIsRight
  NodesAreRight
  TestsAgree
  AttrsAreRight
  RoomForAll
PROPERTIES
  IndexKept
  CallsReturn

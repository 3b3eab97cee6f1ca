SPECIFICATION Spec
CONSTANTS
  Node <- MCNode
  Attr = {"a", "b"}
  Value = {"%n", "1", "xxx%n"}
  Result <- MCResult
  NoValue = NoValue
  Absent = Absent
  NOVALUE = NOVALUE
  NULL = NULL
  Handle = {h1, h2}
  Loadable <- MCLoadable
  Subst = {"%n", "xxx%n"}
  NodeSubst = {"%n", "xxx%n"}
  Expand <- MCExpand
  NodeLen <- MCNodeLen
  StrLen <- MCStrLen
  Rank <- MCRank
  Length = {2}
INVARIANTS
  CopyIsEqual

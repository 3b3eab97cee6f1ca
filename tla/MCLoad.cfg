SPECIFICATION Spec
CONSTANTS
  Node <- MCNode
  Attr <- MCAttr
  Value <- MCValue
  NoValue = NoValue
  Absent = Absent
  EmptyAttr = EmptyAttr
  EmptyValue = EmptyValue
  File <- MCFile
  NodeLen <- MCNodeLen
  AttrLen <- MCAttrLen
  ValueLen <- MCValueLen
  SubstValue = {"x%n"}
  MAXHOSTNAMELEN = 4
  LocalLen = 3
  MaxUnnoticed = 1
INVARIANTS
  TypeOK
  NoDuplicateAttrs
  LoadedIsConsistent
  AllOrNothing
  Verdicts
PROPERTIES
  ImplementsTable
  CallsReturn

SPECIFICATION Spec
CONSTANTS
  Language = {"java", "cpp", "python", "perl", "php", "cfengine"}
  LoadErrors = {"open", "read", "parse", "outmem"}
  QueryErrors =
    {"notfound", "syntax", "parameters", "overflow", "outmem", "internal"}
INVARIANTS
  EverythingIsReleased
  ErrorsAreReported

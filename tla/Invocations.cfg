SPECIFICATION Spec
CONSTANTS
  Dirs = {"."}
  Stems = {"a", "output", "x", "y", "z"}
  Exts = {"", "v", "ll", "o", "out"}
  Argvs <- MCArgvs
INVARIANTS OutputsAsAsked OwnBinary SourcesSurvive
PROPERTIES ImplementsBatch NoOutputAfterError Terminates

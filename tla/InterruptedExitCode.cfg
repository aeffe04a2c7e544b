SPECIFICATION Spec
CONSTANTS
  FailConditions = {}
  Met = {"ioerror", "negative"}
  SigBuffer = 8
  Exporting = FALSE
  MaxSignals = 1
INVARIANTS
  ZeroByDefault

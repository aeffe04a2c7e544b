SPECIFICATION FairSpec
CONSTANTS
  w1 = w1
  w2 = w2
  Workers <- MCWorkers
  RcodeSet <- MCRcodes
  QtypeSet <- MCQtypes
  Names <- MCNames
  EdeCodes <- MCEde
  Errs <- MCErrs
  HttpErrs <- MCHttpErrs
  CountRcodes = TRUE
  UseDoH = TRUE
  Count = 2
  Questions <- OneQuestion
  QTypes <- TwoTypes
  Limiters = {}
  SkipOutcomes = {FALSE}
  Logging = TRUE
  Prometheus = FALSE
  UseCookies = TRUE
  Replies <- Few
  RequestCap = 0
INVARIANTS
  TypeOK
  LogAgrees
  CompleteUnlessStopped
PROPERTIES
  Termination
  ImplementsLedger

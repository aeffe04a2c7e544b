SPECIFICATION FairSpec
CONSTANTS
  w1 = w1
  w2 = w2
  Workers <- MCWorkers
  RcodeSet <- MCRcodes
  QtypeSet <- MCQtypes
  Names <- MCNames
  EdeCodes <- MCEde
  Errs <- MCErrs
  HttpErrs <- MCHttpErrs
  CountRcodes = TRUE
  UseDoH = TRUE
  Count = 1
  Questions <- OneQuestion
  QTypes <- OneType
  Limiters = {}
  SkipOutcomes = {FALSE}
  Logging = FALSE
  Prometheus = FALSE
  UseCookies = FALSE
  Replies <- Few
  RequestCap = 0
INVARIANTS
  CancelledNotCounted

SPECIFICATION PromptSpec
CONSTANTS
  w1 = w1
  w2 = w2
  Workers <- MCWorkers
  RcodeSet <- MCRcodes
  QtypeSet <- MCQtypes
  Names <- MCNames
  EdeCodes <- MCEde
  Errs <- MCErrs
  HttpErrs <- MCHttpErrs
  CountRcodes = TRUE
  UseDoH = TRUE
  Count = 0
  Questions <- OneQuestion
  QTypes <- OneType
  Limiters = {"global","own"}
  SkipOutcomes = {TRUE,FALSE}
  Logging = FALSE
  Prometheus = FALSE
  UseCookies = FALSE
  Replies <- Few
  RequestCap = 2
INVARIANTS
  EveryQueryAccounted
  OnlyLateFailuresDropped
  ExtraAtMostOne
  RateRespected
PROPERTIES
  TerminatesInTime
  InterruptHeeded

SPECIFICATION Spec
CONSTANTS
  Workers <- MCWorkers
  RcodeSet <- MCRcodes
  QtypeSet <- MCQtypes
  Names <- MCNames
  EdeCodes <- MCEde
  Errs <- MCErrs
  HttpErrs <- MCHttpErrs
  CountRcodes = TRUE
  UseDoH = TRUE
  DNSSEC = TRUE
  ErrString <- MCErrString
  HistMax = 3500
  Entries <- MCEntries
  MaxResults = 4
  Microsecond = 20
  Millisecond = 200
  Second = 2000
  Minute = 20000
  BenchStart = 1
  TicksPerSecond = 2
  Named <- MCNamed
  Listed <- MCListed
  BarWidth = 128
INVARIANTS
  MergeCountsEverythingOnce
  TopErrorsAreTop
  LinesShowEverything
  LatenciesUpToEachSecond
  CodesReported
  LatenciesReported

SPECIFICATION CommandSpec
CONSTANTS
  w1 = w1
  w2 = w2
  FailConditions = {"ioerror", "negative"}
  Met = {"ioerror", "negative"}
  SigBuffer = 2
  Exporting = TRUE
  MaxSignals = 2
  Workers <- MCWorkers
  Outcomes = {"negative", "ioerror"}
  Share <- MCShare
  Sources = 2
  Urls = {1}
  Servers = {"prometheus"}
  RequestLog = TRUE
  Timed = TRUE
  Ticking = TRUE
  Plots <- MCPlots
  Drawn <- MCDrawn
  Wishes <- MCWishes
INVARIANTS
  PartsTypeOK
  StatusIsHonest
  ReportOfWholeRun
  ReportedMeansAll
  NothingServedAfterRun
PROPERTIES
  InterruptsEnd
  InterruptedIsReported
  HelpersEnd

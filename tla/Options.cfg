SPECIFICATION Spec
CONSTANTS
  Starts <- Everything
  Numbers <- MCNumbers
  Words <- MCWords
  Prefixed <- MCPrefixed
  MaxRuns = 2
INVARIANTS
  AnnouncedIsDialled
  WarnedIffIgnored
  ReadyForWorkers
  WellFormedRequests
  DelaysFromInterval
  ServerAsked
  ArgumentsKept

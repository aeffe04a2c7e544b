------------------------------- MODULE Plots --------------------------------
(***************************************************************************)
(* The points of the line plots (pkg/reporter/plot.go): what is drawn of   *)
(* the datapoints that Merge returns, second by second of the run.  A      *)
(* second is one of the wall clock (time.Unix), not of the run.            *)
(***************************************************************************)
EXTENDS MergedResults, Durations

CONSTANTS
  BenchStart,     \* the run starts that many ticks into a second
  TicksPerSecond

ASSUME PlotsAssumption ==
  TicksPerSecond \in Nat \ {0} /\ BenchStart \in 0..TicksPerSecond - 1

Offset(d) == (BenchStart + d.at) \div TicksPerSecond

Count(S, P(_)) == Cardinality({k \in DOMAIN S : P(S[k])})

(***************************************************************************)
(* Throughput and error rate: datapoints per second, in the order of time. *)
(***************************************************************************)
(* The k-th of a set of seconds, as they are sorted.                       *)
Kth(S, k) == CHOOSE x \in S : Cardinality({y \in S : y < x}) = k - 1

(* Mutant: the first datapoint of a second is counted twice.               *)
FirstCountsTwice(s) ==
  LET seconds == {Offset(d) : d \in ToSet(s)}
  IN  [k \in 1..Cardinality(seconds) |->
        LET x == Kth(seconds, k)
        IN  [X |-> x, Y |-> 1 + Count(s, LAMBDA d : Offset(d) = x)]]

PerSecond(s) ==
  LET seconds == {Offset(d) : d \in ToSet(s)}
  IN  [k \in 1..Cardinality(seconds) |->
        LET x == Kth(seconds, k)
        IN  [X |-> x, Y |-> Count(s, LAMBDA d : Offset(d) = x)]]

Throughput(t) == PerSecond(t.Timings)
ErrorRate(t)  == PerSecond([k \in DOMAIN t.Errors |-> t.Errors[k].start])

(***************************************************************************)
(* Latencies.                                                              *)
(***************************************************************************)
(* stats.Percentile of github.com/montanaflynn/stats, doubled: of a        *)
(* percentage that falls between two values it takes the mean, and of one  *)
(* that falls before the first it has none.                                *)
None == -1

(* The i-th of some timings, as they are sorted.                           *)
Ranked(timings, i) ==
  CHOOSE t \in ToSet(timings) :
    /\ Cardinality({k \in DOMAIN timings : timings[k] < t}) < i
    /\ Cardinality({k \in DOMAIN timings : timings[k] <= t}) >= i

Percentile(timings, percent) ==
  LET index == percent * Len(timings)
      i     == index \div 100
  IN  IF Len(timings) = 0 THEN None
      ELSE IF Len(timings) = 1 THEN 2 * timings[1]
      ELSE IF index % 100 = 0 THEN 2 * Ranked(timings, i)
      ELSE IF index > 100 THEN Ranked(timings, i) + Ranked(timings, i + 1)
      ELSE None

Percentages == {99, 95, 90, 50}

CollectMeasurements(timings) == [p \in Percentages |-> Percentile(timings, p)]

With(points, x, y) ==
  [z \in DOMAIN points \union {x} |-> IF z = x THEN y ELSE points[z]]

(* Mutant: the datapoint that opens a second is added too early.           *)
AddFirst(m, d) ==
  LET timings == Append(m.timings, Milliseconds(d.took))
  IN  [ last    |-> Offset(d),
        timings |-> timings,
        points  |-> IF Offset(d) = m.last THEN m.points
                    ELSE With(m.points, m.last, CollectMeasurements(timings)) ]

(* One turn of the loop.  The timings are those of the run so far: they    *)
(* are not reset when a second is over.                                    *)
Measure(m, d) ==
  [ last    |-> Offset(d),
    timings |-> Append(m.timings, Milliseconds(d.took)),
    points  |-> IF Offset(d) = m.last THEN m.points
                ELSE With(m.points, m.last, CollectMeasurements(m.timings)) ]

(* plotLineLatencies: the measurements of each second.                     *)
Latencies(s) ==
  IF s = << >> THEN << >>
  ELSE LET m == FoldLeft(Measure, [last |-> Offset(s[1]), timings |-> << >>,
                                   points |-> << >>], s)
       IN  With(m.points, m.last, CollectMeasurements(m.timings))

(***************************************************************************)
(* Properties.                                                             *)
(***************************************************************************)
(* Each line runs forward in time and shows each datapoint in exactly one  *)
(* second.  A second without any has no point: the line goes straight over *)
(* it.                                                                     *)
LineOf(line, total) ==
  /\ \A j, k \in DOMAIN line : j < k => line[j].X < line[k].X
  /\ \A k \in DOMAIN line : line[k].Y > 0
  /\ FoldLeft(LAMBDA sum, p : sum + p.Y, 0, line) = total

LinesShowEverything ==
  /\ LineOf(Throughput(Merged), whole.Success + whole.Negative + whole.Error)
  /\ LineOf(ErrorRate(Merged), whole.IOError)

(* The latencies shown for a second are those of all queries started up to *)
(* the end of it, whichever worker made them, and the percentages of a     *)
(* second are in order.                                                    *)
LatenciesUpToEachSecond ==
  LET s    == Merged.Timings
      line == Latencies(s)
  IN
  /\ DOMAIN line = {Offset(d) : d \in DOMAIN whole.Timings}
  /\ \A x \in DOMAIN line :
       LET past == {k \in DOMAIN s : Offset(s[k]) <= x}
       IN  line[x] = CollectMeasurements([k \in past |-> Milliseconds(s[k].took)])
  /\ \A x \in DOMAIN line :
       /\ 0 <= line[x][50] /\ line[x][50] <= line[x][90]
       /\ line[x][90] <= line[x][95] /\ line[x][95] <= line[x][99]
=============================================================================

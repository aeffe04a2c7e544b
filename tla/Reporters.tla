----------------------------- MODULE Reporters ------------------------------
(***************************************************************************)
(* The figures of the two reports: jsonReporter and standardReporter       *)
(* (pkg/reporter/jsonreporter.go, stdreporter.go), of the totals that      *)
(* Merge returns.  Their wording and layout are left out.                  *)
(***************************************************************************)
EXTENDS MergedResults, Durations

CONSTANTS
  Named,     \* the response codes in dns.RcodeToString
  Listed,    \* those the standard report goes through: 0 to 23
  BarWidth   \* width of a bucket of the histogram

ASSUME ReportersAssumption ==
  /\ Named \subseteq Listed /\ Listed \subseteq RcodeSet
  /\ "" \notin RcodeSet /\ BarWidth \in Nat \ {0}

(***************************************************************************)
(* Response codes.  A code without a name is printed as "", so several of  *)
(* them share an entry of the JSON map, of which the last one visited      *)
(* stays.                                                                  *)
(***************************************************************************)
Recorded(codes) == {c \in RcodeSet : codes[c] > 0}

(* Mutant: a code without a name is given that of its lower four bits.     *)
LowerBits(c) == IF c \in Named THEN c ELSE NOERROR

CodeName(c) == IF c \in Named THEN c ELSE ""

JsonCodes(codes) ==
  LET names == {CodeName(c) : c \in Recorded(codes)}
      last  == {f \in [names -> Recorded(codes)] : \A n \in names : CodeName(f[n]) = n}
  IN  {[n \in names |-> codes[f[n]]] : f \in last}

StdCodes(codes) == [c \in Recorded(codes) \intersect Listed |-> codes[c]]

(***************************************************************************)
(* The histogram, of github.com/HdrHistogram/hdrhistogram-go.  Its bars    *)
(* begin at 0 and end with the last one that is not empty; a value is      *)
(* known by its bar.  Sorted, the values in its range come first.          *)
(***************************************************************************)
Held(t) ==
  LET took   == [k \in DOMAIN t.Timings |-> t.Timings[k].took]
      sorted == SortedBy(took, [d \in ToSet(took) |-> d])
  IN  SubSeq(sorted, 1, Cardinality({k \in DOMAIN took : took[k] <= HistMax}))

Bar(k, values) ==
  [ From |-> k * BarWidth, To |-> (k + 1) * BarWidth - 1,
    Count |-> Cardinality({i \in DOMAIN values : values[i] \div BarWidth = k}) ]

Distribution(values) ==
  IF values = << >> THEN << >>
  ELSE [k \in 1..(Last(values) \div BarWidth + 1) |-> Bar(k - 1, values)]

LowestEquivalent(v)  == (v \div BarWidth) * BarWidth
HighestEquivalent(v) == LowestEquivalent(v) + BarWidth - 1

HistMin(values)  == IF values = << >> THEN 0 ELSE LowestEquivalent(Head(values))
HistHigh(values) == IF values = << >> THEN 0 ELSE HighestEquivalent(Last(values))

ValueAtQuantile(values, q) ==
  IF values = << >> THEN 0
  ELSE HighestEquivalent(values[(q * Len(values) + 50) \div 100])

Middle(bar) == bar.To \div 2 + bar.From \div 2

Ms(d) == Milliseconds(RoundDuration(d))

(* Mutant: bars are merged with the first point instead of the latest.     *)
MergeWithFirst(points, bar) ==
  LET p == [LatencyMs |-> Ms(Middle(bar)), Count |-> bar.Count] IN
  IF points # << >> /\ Head(points).LatencyMs = p.LatencyMs
  THEN [points EXCEPT ![1].Count = @ + p.Count]
  ELSE Append(points, p)

(* latencyDistribution: bars with the same rounded latency are one point.  *)
AddPoint(points, bar) ==
  LET p == [LatencyMs |-> Ms(Middle(bar)), Count |-> bar.Count] IN
  IF points # << >> /\ Last(points).LatencyMs = p.LatencyMs
  THEN [points EXCEPT ![Len(points)].Count = @ + p.Count]
  ELSE Append(points, p)

LatencyDistribution(bars) == FoldLeft(AddPoint, << >>, bars)

(* latencyStats, from the smallest to the largest.                         *)
LatencyStats(values) ==
  << Ms(HistMin(values)),
     Ms(ValueAtQuantile(values, 50)), Ms(ValueAtQuantile(values, 75)),
     Ms(ValueAtQuantile(values, 90)), Ms(ValueAtQuantile(values, 95)),
     Ms(ValueAtQuantile(values, 99)), Ms(HistHigh(values)) >>

(***************************************************************************)
(* printBars: the bars of the standard report, without the empty ones in   *)
(* front, drawn by makeBar in proportion to the fullest one.               *)
(***************************************************************************)
BarLength == 43

Fullest(bars) == Max({bars[k].Count : k \in DOMAIN bars})

MakeBar(count, max) == IF count = 0 THEN 0 ELSE (2 * BarLength * count + max) \div (2 * max)

Trimmed(bars) ==
  LET first == Min({k \in DOMAIN bars : bars[k].Count > 0})
  IN  SubSeq(bars, first, Len(bars))

PrintBars(bars) ==
  LET shown == Trimmed(bars)
  IN  [k \in DOMAIN shown |->
        [ Latency |-> RoundDuration(Middle(shown[k])), Count |-> shown[k].Count,
          Length |-> MakeBar(shown[k].Count, Fullest(shown)) ]]

(* print: nothing is drawn of a single duration.                           *)
StdDistribution(values) ==
  IF Len(values) > 1 THEN PrintBars(Distribution(values)) ELSE << >>

(***************************************************************************)
(* Properties.                                                             *)
(***************************************************************************)
SumCounts(s) == FoldLeft(LAMBDA sum, e : sum + e.Count, 0, s)

(* A code that has a name has its own count in both reports, whatever else *)
(* was received.  If codes are counted, those of the JSON report add up to *)
(* the responses only as long as at most one code has no name; those of    *)
(* the standard report only if no code is beyond its list.                 *)
CodesReported ==
  LET codes == Merged.Codes IN
  /\ \A json \in JsonCodes(codes) :
       /\ \A c \in Named \intersect Recorded(codes) :
            json[c] = whole.Codes[c] /\ StdCodes(codes)[c] = whole.Codes[c]
       /\ CountRcodes =>
            (SumFunction(json) = BagCardinality(whole.Timings)
               <=> Cardinality(Recorded(codes) \ Named) <= 1)
  /\ CountRcodes =>
       (SumFunction(StdCodes(codes)) = BagCardinality(whole.Timings)
          <=> Recorded(codes) \subseteq Listed)

(* The distribution of the JSON report is a function of the latency and    *)
(* counts every recorded duration once, although rounding makes bars fall  *)
(* together.  No rounding turns the statistics around: minimum,            *)
(* percentiles, maximum.                                                   *)
JsonInOrder ==
  LET points == LatencyDistribution(Distribution(Held(Merged)))
      s      == LatencyStats(Held(Merged))
  IN  /\ \A j, k \in DOMAIN points : j < k => points[j].LatencyMs < points[k].LatencyMs
      /\ SumCounts(points) = whole.Hist
      /\ \A k \in 1..Len(s) - 1 : s[k] <= s[k + 1]

(* The standard report draws every recorded duration if there are two,     *)
(* between two bars that are not empty; the fullest bar has the full       *)
(* length and no fuller bar is shorter than another.                       *)
BarsDrawn ==
  LET bars == StdDistribution(Held(Merged)) IN
  /\ SumCounts(bars) = IF whole.Hist > 1 THEN whole.Hist ELSE 0
  /\ bars # << >> =>
       /\ Head(bars).Count > 0 /\ Last(bars).Count > 0
       /\ Max({bars[k].Length : k \in DOMAIN bars}) = BarLength
  /\ \A j, k \in DOMAIN bars :
       bars[j].Count <= bars[k].Count => bars[j].Length <= bars[k].Length
  /\ \A j, k \in DOMAIN bars : j < k => bars[j].Latency <= bars[k].Latency

(* So both reports show every duration, where it belongs.                  *)
LatenciesReported == JsonInOrder /\ BarsDrawn
=============================================================================

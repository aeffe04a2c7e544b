--------------------------- MODULE MergedResults ----------------------------
(***************************************************************************)
(* The reporters' view of a run: Merge (pkg/reporter/merge.go) puts the    *)
(* results of all workers together, PrintReport (report.go) selects the    *)
(* top errors from them.  The state is that of the workers while they      *)
(* record; every state is one in which Merge might be called.              *)
(***************************************************************************)
EXTENDS ResultStats, SequencesExt, Bags

CONSTANTS
  Workers,     \* a sequence: Merge goes through the workers in this order
  DNSSEC,      \* Benchmark.DNSSEC
  ErrString,   \* errString: the text under which an error is grouped
  HistMax,     \* Benchmark.HistMax
  Entries,     \* what a worker may record: question, reply, start, duration
  MaxResults   \* bound of the model: results recorded in all

(* A run ends with finitely many errors, so with as many texts of them.    *)
ASSUME MergedResultsAssumption ==
  /\ Workers \in Seq(Range(Workers)) /\ Workers # << >> /\ DNSSEC \in BOOLEAN
  /\ IsFiniteSet(Errs)
  /\ DOMAIN ErrString = Errs
  /\ Entries \subseteq [ query : [name : Names, qtype : QtypeSet], reply : Reply,
                         at : Nat, took : Nat ]
  /\ HistMax \in Nat
  /\ \A e \in Entries : e.reply.inRange <=> e.took <= HistMax
  /\ MaxResults \in Nat

ErrTexts == Range(ErrString)

(***************************************************************************)
(* Merge.                                                                  *)
(***************************************************************************)
Empty ==
  [f \in {"GroupedErrors"} \union DOMAIN NewResultStats |->
     IF f = "GroupedErrors" THEN [t \in ErrTexts |-> 0] ELSE NewResultStats[f]]

(* Mutant: a later entry replaces an earlier one.                          *)
LastOf(f, g) == g

Plus(f, g) == Pointwise(f, g, LAMBDA m, n : m + n)

Grouped(errors) ==
  [t \in ErrTexts |-> Cardinality({k \in DOMAIN errors : ErrString[errors[k].err] = t})]

AddGroups(groups, s) == Plus(groups, Grouped(s.Errors))

(* One turn of the loop over the results of the workers.                   *)
MergeOne(t, s) ==
  [ GroupedErrors |-> AddGroups(t.GroupedErrors, s),
    Errors  |-> t.Errors \o s.Errors,
    Hist    |-> t.Hist + s.Hist,
    Timings |-> t.Timings \o s.Timings,
    Codes   |-> Plus(t.Codes, s.Codes),
    Qtypes  |-> Plus(t.Qtypes, s.Qtypes),
    DoHStatusCodes |-> Plus(t.DoHStatusCodes, s.DoHStatusCodes),
    EDECodes   |-> Plus(t.EDECodes, s.EDECodes),
    Total      |-> t.Total + s.Total,
    IOError    |-> t.IOError + s.IOError,
    Success    |-> t.Success + s.Success,
    Negative   |-> t.Negative + s.Negative,
    Error      |-> t.Error + s.Error,
    IDmismatch |-> t.IDmismatch + s.IDmismatch,
    Truncated  |-> t.Truncated + s.Truncated,
    AuthenticatedDomains |-> t.AuthenticatedDomains
                             \union IF DNSSEC THEN s.AuthenticatedDomains ELSE {} ]

(* sort.SliceStable by start time: equal starts keep their order.          *)
SortedBy(s, start) ==
  FoldLeft(LAMBDA done, e :
             LET n == Cardinality({k \in DOMAIN done : start[done[k]] <= start[e]})
             IN  InsertAt(done, n + 1, e),
           << >>, s)

Merge(results) ==
  LET totals == FoldLeft(MergeOne, Empty, results)
  IN [totals EXCEPT !.Timings = SortedBy(@, [d \in ToSet(@) |-> d.at]),
                    !.Errors  = SortedBy(@, [e \in ToSet(@) |-> e.start.at])]

(***************************************************************************)
(* The choice of at most three top errors: each turn takes an error of the *)
(* greatest count among those not taken yet.  Which one of several is left *)
(* to the order in which Go visits a map.                                  *)
(***************************************************************************)
(* Mutant: the errors that were taken before are not left out.             *)
MostFrequentOfAll(groups, taken) ==
  {t \in ErrTexts : groups[t] > 0 /\ \A u \in ErrTexts : groups[u] <= groups[t]}

MostFrequent(groups, taken) ==
  {t \in ErrTexts \ taken :
     groups[t] > 0 /\ \A u \in ErrTexts \ taken : groups[u] <= groups[t]}

Extended(groups, order) ==
  LET next == MostFrequent(groups, ToSet(order))
  IN  IF next = {} THEN {order} ELSE {Append(order, t) : t \in next}

TopErrors(groups) ==
  FoldLeft(LAMBDA orders, turn : UNION {Extended(groups, o) : o \in orders},
           {<< >>}, <<1, 2, 3>>)

(* "Total Errors" of the standard report.                                  *)
TotalErrors(groups, order) == FoldLeft(LAMBDA sum, t : sum + groups[t], 0, order)

(***************************************************************************)
(* The workers: each records what it gets for queries it starts one after  *)
(* the other, while a query of another worker started later may be over    *)
(* before.                                                                 *)
(***************************************************************************)
VARIABLES
  results,  \* ResultStats of each worker, in the order of Workers
  clock,    \* earliest start time of the next query of each worker
  whole     \* history: one ResultStats that recorded everything, its
            \* datapoints in no order

vars == <<results, clock, whole>>

Init ==
  /\ results = [k \in DOMAIN Workers |-> NewResultStats]
  /\ clock = [k \in DOMAIN Workers |-> 0]
  /\ whole = [NewResultStats EXCEPT !.Timings = EmptyBag, !.Errors = EmptyBag]

(* A datapoint has the start of its query and, if it was answered, how     *)
(* long it took.                                                           *)
Stamp(e) == [at |-> e.at, took |-> IF Answered(e.reply) THEN e.took ELSE 0]

Unordered(st, e) ==
  LET now == Record([st EXCEPT !.Timings = << >>, !.Errors = << >>],
                    e.query, e.reply, Stamp(e))
  IN  [now EXCEPT !.Timings = st.Timings (+) ToBag(@), !.Errors = st.Errors (+) ToBag(@)]

RecordOne(k, e) ==
  /\ whole.Total < MaxResults /\ clock[k] <= e.at
  /\ results' = [results EXCEPT ![k] = Record(@, e.query, e.reply, Stamp(e))]
  /\ clock' = [clock EXCEPT ![k] = e.at]
  /\ whole' = Unordered(whole, e)

Terminating == whole.Total = MaxResults /\ UNCHANGED vars

Next ==
  \/ Terminating
  \/ \E k \in DOMAIN Workers, e \in Entries : RecordOne(k, e)

Spec == Init /\ [][Next]_vars

(***************************************************************************)
(* Properties.                                                             *)
(***************************************************************************)
Merged == Merge(results)

Counts == {"Total", "IOError", "Success", "Negative", "Error", "IDmismatch",
           "Truncated", "Codes", "Qtypes", "DoHStatusCodes", "EDECodes", "Hist"}

InOrder(s, Start(_)) ==
  \A j, k \in DOMAIN s : j < k => Start(s[j]) <= Start(s[k])

(* How the queries were spread over the workers makes no difference: every *)
(* count of the report is what a single worker would have counted, and the *)
(* plots get every datapoint exactly once, oldest first.                   *)
MergeCountsEverythingOnce ==
  /\ \A f \in Counts : Merged[f] = whole[f]
  /\ ToBag(Merged.Timings) = whole.Timings
  /\ ToBag(Merged.Errors) = whole.Errors
  /\ InOrder(Merged.Timings, LAMBDA d : d.at)
  /\ InOrder(Merged.Errors, LAMBDA e : e.start.at)

(* The groups are a partition of the errors, and whatever order Go visits  *)
(* the map in, the top errors are distinct, in descending order, and leave *)
(* out nothing that is more frequent than one of them.  The sum of them,   *)
(* printed as the total of errors, is that only if there are no others.    *)
TopErrorsAreTop ==
  LET groups == Merged.GroupedErrors IN
  /\ SumFunction(groups) = Merged.IOError
  /\ \A order \in TopErrors(groups) :
       /\ IsInjective(order)
       /\ \A j, k \in DOMAIN order : j < k => groups[order[j]] >= groups[order[k]]
       /\ \A t \in ErrTexts \ ToSet(order) :
            groups[t] > 0 => Len(order) = 3 /\ groups[t] <= groups[order[3]]
       /\ TotalErrors(groups, order) = Merged.IOError
            <=> Cardinality({t \in ErrTexts : groups[t] > 0}) <= 3
=============================================================================

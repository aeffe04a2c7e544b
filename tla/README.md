# dnspyre in TLA+

dnspyre benchmarks DNS servers: a number of workers send queries over plain DNS,
DoT, DoH or DoQ until they have sent what was asked for, until a duration is
over, or until they are interrupted; what they recorded is merged and reported.
These modules model that program, TLC checks them on small instances, and the
TLA+ proof system checks theorems about them for every value of their constants.

    tlc -config Counted.cfg MCBenchmark     # one run; PROJECT.json lists them all
    tlapm BenchmarkProofs.tla               # the proofs about Benchmark

## The system

| Part | State | Operations | Interacts with |
|---|---|---|---|
| `Benchmark.Run` (pkg/dnsbench/benchmark.go) | context, per worker its loops, cookie and results | spawn, loop, wait for limiters, query, log, record, export, delay, wait for all | the context of the command, two kinds of rate limiters, a query function per worker, the results, the log, the metrics |
| `Benchmark.init`, `network`, warnings, request delay | the Benchmark struct, changed in place | normalise, refuse, warn | runs first in every `Run`; decides the client, the address and the requests |
| requests (`createReqMsg`, EDNS, cookies) | the OPT record of one message | add option, set DO | settings, cookie of the worker |
| `ResultStats.record` (result.go) | counters, maps, datapoints of one worker | record one outcome | written by one worker, read by the reporters once all workers are gone |
| query functions (query_factory.go) | plain DNS and DoT: connection and call counter per worker; DoH and DoQ: a client, shared or not | dial, exchange, rotate, give up | the network |
| request log, metrics | lines written; counters | log, measure | one call each per outcome |
| set-up of `Run`: log file, HTTP servers for metrics and pprof, domain sources, progress bar | file, servers, deferred calls, goroutines | open, serve, download, shut down | the context, the clients of the servers, the workers |
| `Merge`, reports, plots, CSV (pkg/reporter) | merged results | merge, select top errors, print, draw, round | the results of all workers, the file system |
| `cmd.Execute` (cmd/root.go) | channel of signals, two goroutines | run, report, fail conditions, first and second SIGINT | context of the run, exit status |
| arguments (`preprocessArgs`), system name server | - | rewrite, read resolv.conf | settings |
| coloured output | - | print | - |

What is hard here:

* **The end of a run.** A deadline, an interrupt and the end of the loops race
  with workers that wait for a limiter, wait for an answer or write results. No
  result may be lost or added twice, a failure that only the end of the run has
  caused may not be counted, and Run must not return while a worker still writes.
* **Two limiters in a row**, each of whose `Take` runs in a goroutine that
  outlives the wait.
* **Reused connections**, errors on them, late responses and the call counter
  that rotates them.
* **Bookkeeping**: `record` has early returns, three consumers (log, results,
  metrics) see one outcome, and reports assume that the numbers fit together.
* **Two closers of one channel** in the command.
* **Undoing**: `Run` opens files and servers before it can fail, and its deferred
  calls, one of which waits for strangers, run on every way out.
* **A report that can fail in parts**, after a run that may have taken hours.
* **Decisions taken in several places**: the transport in `network`,
  `getDNSClient` and `dohQuery`, the port in `addPortIfMissing`, the validity of
  EDNS options in `init` and in the functions that use them.

`PROJECT.json` lists these hazards line by line with the properties that watch
them.

## The modules

| Module | Models | Checked by |
|---|---|---|
| `ResultStats` | `ResultStats`, `newResultStats`, `record` | through `Benchmark` and `MergedResults` |
| `Benchmark` | `Run` after `init` | `MCBenchmark` with `Counted`, `Kinds`, `Timed` and four violated expectations |
| `QueryLedger` | what the workers promise the caller of `Run` | refined by `Benchmark` in `Counted` |
| `DnsConnection` | the closure of `dnsQueryFactory` | `Connection` |
| `Execute` | `cmd.Execute` | in `Command`; `InterruptedExitCode` |
| `RunLifecycle` | `Run` around its workers: set-up, servers, sources, ticker, deferred calls | in `Command` |
| `Report` | the course of `PrintReport` | in `Command` |
| `Command` | the four above, composed | `MCCommand` with `Command` |
| `MergedResults` | `Merge` and the top errors of `PrintReport` | `MCMerge` with `Merging` |
| `Durations` | `roundDuration` | through `Plots` and `Reporters` |
| `Plots` | the points of the line plots | `MCMerge` with `Merging` |
| `Reporters` | codes, statistics and distributions of `jsonReporter` and `standardReporter` | `MCMerge` with `Merging` |
| `RequestMessage` | `createReqMsg` and its options | through `Settings` |
| `Startup` | `preprocessArgs`, `DefaultNameServer` | through `Settings` |
| `Settings` | `init`, `network`, `addPortIfMissing`, warnings, `delay`, choice of the client | `MCSettings` with `Options` |
| `ResultStatsProofs`, `BenchmarkProofs`, `DnsConnectionProofs`, `CommandProofs`, `SettingsProofs` | | theorems about the modules of those names, in `CommandProofs` also about `Execute`, `RunLifecycle` and `Report`, in `SettingsProofs` about `Startup` |
| `LedgerProofs` | | theorems about `Benchmark` that need sums: breakdowns, metrics, completeness, the refinement of `QueryLedger` |
| `ReportingProofs` | | theorems about `MergedResults`, `Reporters`, `Plots` and `Durations` |
| `SumTheorems` | | lemmas about `SumFunction` and about folds over sequences, by induction over finite sets and indices |

### ResultStats

A query ends in a *reply*: an error or a response, reduced to what the program
looks at (code, ID, whether it answers, flags, EDE options, question section,
cookie). `Record` is `record`; its conditions have names (`Kept`, `Mismatched`,
`IsNegative`, ...), so that a counter and the datapoint that belongs to it are
seen to have the same condition, or not. The histogram is the number of its
values; a datapoint is the stamp of its query: in `Benchmark` whether it was started
in time, in `MergedResults` when it started and how long it took.

### Benchmark

`pc` says where a worker is:

| pc | in the code |
|---|---|
| `unborn` | before line 466 |
| `loop` | at the heads of the three loops (491-499); `iter` is `i`, `slot` the position in the two inner ones |
| `global`, `own` | in `checkLimit` (501, 506) for the limiter of all workers, its own one |
| `send`, `wait` | before and after `start := time.Now()` (513): the query is out in `wait` |
| `log`, `record`, `measure` | before lines 532, 535, 536 |
| `done` | `wg.Done` has been called |

`taking` is the helper goroutine of `checkLimit`: it may get its token long
after the worker has left (`Abandon` leaves `taking` alone). When a token is
there and the context is done, Go's select may choose either branch, hence
`Acquire` and `Abandon` are both enabled. The context and the clock are two
variables: the deadline passes (`ClockPasses`) before its timer fires
(`Expire`). A query started in between may still be answered, and is then recorded
like any other; its failure is the one that line 518 is about (`TooLate`, `Drop`).
`start` keeps of a start time only what had happened to the run by then.
`Respond` picks any reply of `Replies`: what the server, the network and the
library's timeouts make of a query is external.

The delay between queries only makes the next step come later and is interrupted
by the context, so it is no step of its own. `Respond` also adopts the cookie of the
response, and `CookieIsOwn` says that it spreads to no other worker.
Settings with a negative `--number` or `--duration` are not considered.

`tokens`, `sent`, `dropped` and `extra` are history variables.

### QueryLedger

Four sentences: each worker books outcomes up to its share; after a stop, at most
one more; books are delivered only when all workers are gone, and nothing is
booked after that; a stopped run winds down. `Benchmark` implements it with a
worker's book counting its datapoints, errors and mismatches.

### DnsConnection

`co` and `i` are the variables of the closure. Sockets and network are external:
responses are in flight, then readable on their connection, and a read takes any
readable one. That is pessimistic about message IDs, which are random numbers of
16 bits and may coincide (the dns package skips responses with another ID).

### Execute

The channel `sigsInt` is `queued` and `closed`; a receive on a closed channel
still yields queued signals first; the os/signal package drops a signal when the
channel is full and panics when it is closed, since nothing calls `signal.Stop`.
`Run` and `PrintReport` are one step each that succeeds or fails; a `Run` that exports
metrics may also panic in one of its workers (`RunPanics`). A fail
condition is met or not.

### Command

`Command` replaces those two steps by what the functions do. It composes, over
shared variables:

| Part | Instance of | Shares |
|---|---|---|
| main goroutine and signal handler | `Execute` (extended) | `canceled`, which the first interrupt sets |
| `Run` before and after its workers | `RunLifecycle` | reads `canceled`; its `stage` says when workers may work |
| the workers | `QueryLedger` with `stopped` as "cancelled or past the deadline" | `book`, which the report reads |
| `PrintReport` | `Report` | `Merge` takes the books as they are when it runs |

The workers appear by their promise (`QueryLedger`), which `Benchmark` keeps; so
the composition stays small while the details are checked in `Benchmark`. When
the process exits (`exit # -1`) everything stops where it is.

In `RunLifecycle`, `source` counts the sources that were read and `loaded` is the set
of those whose questions are all there, and `stage` is the place in `Run`: `init` up to line 384,
`questions` in `prepareQuestions`, `workers` from the first spawn to the end of
`wg.Wait`, then `unwind` while `deferred`, the stack of deferred calls, is worked
off. Every way out of `Run` goes through `unwind`. `down` and `server` keep apart
what `Shutdown` has done from where the goroutine of a server is, since a server
may still be on its way to its listener; net/http promises that it then gives up.
`scraped` are servers with a request in progress: `Shutdown` waits for it unless
the context is cancelled. The client of a download has a time limit and is not
given the context, so an interrupt does not end it. Reading a source is one step that
yields all its questions or fails: whether a body that breaks off is noticed inside
`downloadURL` is not a question these modules can answer.

In `Report`, `step` is the place in `PrintReport`, `made` what exists of the
outputs and `complained` the plots an error was printed of. Whether plots have
data depends on what was merged. The errors of writing the CSV file are not
looked at by the code, so `made` means created.

The panic of a worker that exports a response without a question section
(`Benchmark!Panic`) is `WorkerPanics`: it ends the process with status 2 while the
other workers are still at work or are gone, and no one reads their books any more.

### MergedResults

State: the results of each worker, plus what one worker would have recorded had
it seen everything. Every state is a possible input of `Merge`. `TopErrors`
gives the set of selections over all orders in which Go may visit the map.

### Durations, Plots and Reporters

They are operators over the same state: what is drawn and printed of `Merged`.
`Plots!PerSecond` and `Plots!Latencies` are the maps from seconds to points that
the line plots build; a second is one of the wall clock, so a run starts somewhere
in it (`BenchStart`). `Percentile` is that of the statistics library.
`Reporters` takes the histogram as the sequence of its values, known by bars of a
constant width, as its library promises for values of one magnitude. `StdDistribution`
is what the standard report draws of it: nothing of a single value.
`JsonCodes` is the set of maps that may be printed, over all orders in which Go
may visit the map of codes. A time unit is a constant of which the next one is a
multiple, so that small durations pass all the limits of `roundDuration`.

### Settings and RequestMessage

The state is one `Benchmark` struct that is run up to twice, since `init`
rewrites it in place. Texts are records of what `init` tells apart: scheme,
host, port and path of the server, the parts of an `--ednsopt`, the form and ends
of a `--request-delay`. Accepted settings are those with which `RunStarts` is
possible; `RunRefused` keeps the changes made before the error. Fields to which
`init` only gives a default (timeouts, probability, histogram bounds, writers,
paths) are left out, as are unparsable URLs. `Startup` gives what it begins with:
a bare `--edns0` is rewritten and then parsed as kingpin does (external), and without
a server the one of resolv.conf is taken. A line of that file is the sequence of its
parts between single spaces, a part the sequence of its words between tabs, so that
both readers of the file can be modelled: `DefaultNameServer` is the code's,
`SystemNameServers` the system's (resolv.conf(5), external). `JoinHost` puts brackets
around every host with a colon, also around one that has them; the result no longer
splits into host and port, and `Garbled` stands for all such texts.

## What the runs check

| Run | Instance | Shows |
|---|---|---|
| `Counted` | 2 workers, 1 question, 2 types, count 2, log and cookies on, no limiter | every run ends; log and results agree; complete unless stopped; implements `QueryLedger` with its liveness, so at most one extra result after a stop |
| `Kinds` | 2 workers, count 2, 8 kinds of replies, metrics on | counters, breakdowns, datapoints and metrics are consistent; a worker sends only cookies of its own responses; the panic of `measureProm` is reached |
| `Timed` | 2 workers, both limiters, skipping, at most 2 queries each | no query lost or counted twice; of late queries only the failures are dropped, and nothing else is; at most one result after a stop; both rate limits; the end by the deadline, and by an interrupt even if neither time nor limiters go on |
| `Connection` | 5 calls, 2 queries per connection | no leak, own answers only, limit kept, and exact without failures |
| `Command` | 2 interrupts, 2 workers with a query each, a downloaded and a plain source, log, a server, deadline and ticker, 2 plots, CSV and text or CSV only, 2 fail conditions, metrics exported | status 0 is never a lie and every other status has a cause, status 2 an interrupt or a worker's panic; the report is of all that was recorded and whoever is told so gets it all; the workers had all questions or the run failed; nothing is left open, and no goroutine of the set-up lives on; one interrupt ends the command, whatever it finds `Run` doing, and reports what there is; two end it even if nothing else moves |
| `Merging` | 4 results of 12 kinds, 5 of them errors with 4 texts, over 4 ticks of 2 seconds, 2 workers | the merge does not depend on the workers; datapoints complete and sorted; top errors right for any map order; lines show every datapoint; latencies are those up to each second; codes, distribution, statistics and bars are exact and in order |
| `Options` | 10 server formats with all transport flags; EDNS options, sizes, delays and stop conditions; resolv.conf files of up to two lines of 12 kinds; argument lists of three, with `--edns0` bare, attached or before a value; each run twice | announced = dialled, and in the first run as the server's scheme asks; warned exactly of flags without effect, `--tcp` beside `--dot` and `--separate-worker-connections` with plain DNS or a single worker excepted; accepted settings start a run that `Benchmark` can model, requests are well formed, delays can be drawn; the server that was given, or the system's of a plainly spaced file, is asked at the right port; no argument is lost |

Why these bounds are enough: workers share nothing but the context, the global
limiter and the metrics, and each of those is reached by two workers. Two types,
two rounds and two queries per worker exercise every wrap-around of the three
loops and a second query after a stop. The replies reach every branch of `record`
(including the truncated, the out-of-range and the cookie ones). Five calls with
a limit of two contain a rotation, a failure before and after it, and one more
rotation. In `Command` each deferred call occurs, both sources can be read, one can
fail, and each of the interrupts can fall on every step; a second server would
behave like the first, and the theorems below hold for both. Four results fill
two seconds, tie in every count, and reach the fourth group of errors.
`RequestCap`, `MaxCalls`, `MaxSignals`, `MaxClock`, `MaxResults` and
`MaxRuns` are bounds of the models only.

Every property is checked against at least one mutant: a definition under a
comment "Mutant:" in the modules is a plausible bug, and the property fails when
it takes the place of the definition below it.

### Expectations that do not hold

Five runs check what a comment or a page of the documentation says, and TLC
finds the behaviour that contradicts it. `PROJECT.json` quotes the lines.

| Run | What happens |
|---|---|
| `EmptyDomainList` | a timed run over an empty list never looks at the context and spins for ever |
| `CancelledInFlight` | after SIGINT a worker records its cancelled query as an I/O error |
| `MismatchedNegative` | the ID is compared for NOERROR responses only |
| `NoQuestionSection` | a response without a question ends the process when metrics are exported |
| `InterruptedExitCode` | one SIGINT can end in a panic on the closed channel |

Reading the source for the models showed more differences, which the models
follow (they do what the code does) and no run is devoted to:

* a worker adopts whatever cookie a response carries (benchmark.go:525-530;
  docs/dnscookies.md:19 says its client cookie is reused for all requests);
* after an error the new connection is rotated early, since the call counter is
  not reset (query_factory.go:35; benchmark.go:102);
* "Total Errors" is the total of the three most frequent ones (stdreporter.go:131;
  `TopErrorsAreTop` says exactly when that is wrong);
* response codes without a name share one entry of the JSON map (jsonreporter.go:53;
  `CodesReported` says when the codes no longer add up), and the standard report
  leaves out those beyond its list;
* the latency plot shows the percentiles of the run so far, not of each second
  (plot.go:225-241; `LatenciesUpToEachSecond`);
* a directory for plots that does not exist is noticed after the run, whose report
  is then lost (report.go:61);
* `--separate-worker-connections` is silently ignored with plain DNS, and `--tcp` beside
  `--dot` (`WarnedIffIgnored`);
* a `nameserver` line of resolv.conf with a tab or a second space before the address,
  or a comment after it, is passed over, so that 127.0.0.1 or the server of a later line
  is asked (system_nameserver_unix.go:33; docs/index.md:50 and cmd/root.go:50 say that the
  system resolver is used, or 127.0.0.1). `ServerAsked` compares with what the system
  reads where every such line is plainly spaced (`WellSpaced`); of other files it only
  says that later runs ask the same server as the first;
* an address that is given in brackets but without a port becomes one that cannot be
  dialled (benchmark.go:773-784; `ServerAsked` has it as its exception);
* the second `Run` of a `quic://` Benchmark is plain DNS, as the first one strips
  the prefix (benchmark.go:268-270; 77). Announcement and dialling agree in that, so
  `AnnouncedIsDialled` compares with the scheme that was given only in the first run;
* a delay of `0s-2s` never waits (benchmark.go:613; docs/requestdelay.md:24), and
  `2s-0s` is accepted as a constant delay (benchmark.go:920; 921);
* `--ednsopt code` without data is refused (benchmark.go:306; 114);
* `--cookie` with `--ednsopt 10:...` sends two COOKIE options (benchmark.go:317;
  docs/dnscookies.md:20).

## Fairness

* `Benchmark!FairSpec`: goroutines are scheduled (weak fairness of `Step(w)`), `Take`
  returns, timers fire, and every query ends, which the read, write and request
  timeouts see to. Nobody has to press Ctrl-C: `Interrupt` is not fair.
* `Benchmark!PromptSpec` drops everything but the scheduling: neither time nor
  limiters need to advance. `InterruptHeeded` is checked under it;
  `TerminatesInTime` adds the rest (`TimeAdvances`) as an assumption.
* `CommandSpec` is fair to the goroutine of the signal handler only, which is all
  that the second interrupt needs in `InterruptsEnd`. `HelpersEnd` has the scheduling
  of the helpers as its premise, whatever the main goroutine does meanwhile.
  `Progress` is the premise of `InterruptedIsReported` and of the rest of `InterruptsEnd`:
  the main goroutine and the helpers are scheduled, which for `ReadSource` includes
  that a download ends by the time limit of its client, and a worker leaves once it
  is stopped, which is `InterruptHeeded` of `Benchmark` and `FairSpec` of
  `QueryLedger`. Neither the deadline nor a client of a server ever has to do anything.
* `QueryLedger!FairSpec`: a stopped worker leaves, and books of workers that are
  gone are delivered.

## What is proved

Every theorem holds for all values of the constants that satisfy the `ASSUME` of
the module: `BenchmarkAssumption` (a finite set of workers, questions and types
as sequences, any set of replies) with `ResultStatsAssumption` (the two response
codes `record` names exist; error values are not response values; response codes,
query types and HTTP statuses are finite sets, being numbers of 16 bits and of
three digits),
`DnsConnectionAssumption` and `ExecuteAssumption` (numbers are natural, the
channel has a capacity, metrics are exported or not), `DurationsAssumption` (ten times each unit divides the
next) and `CommandAssumption` (types of the parameters; finitely many workers; no plot is called "csv" or
"text"; the conditions to fail on are among the outcomes; metrics are exported when they
have a server), `SettingsAssumption` (the
settings an owner starts with have the types of their fields and no delay or client
yet; an address with colons has a port only if it is in brackets; `--edns0` is at most once among the arguments, since the parser refuses a flag that
is repeated), `StartupAssumption` (`--edns0` is neither a number nor a word; "nameserver" begins with itself),
`MergedResultsAssumption` (the workers are a sequence; a run ends with finitely many
errors; a duration is in range when it does not exceed the largest the histogram takes),
`ReportersAssumption` (named codes are listed ones; a bar is not empty) and `PlotsAssumption` (a run
starts within a second, which has ticks). The bounds of the models are constants too, so the
theorems hold for any of them.

| Theorem | States | Rests on |
|---|---|---|
| `RecordAccounted` | `record` keeps `Accounted`, for any reply | a reply falls into exactly one of five classes (`FiveClasses`) |
| `TypeCorrect` | `Spec => []TypeOK` of `Benchmark` | `TypeInv`: inside the loop body a worker is at an existing question, else `record` and `measureProm` would index past the list |
| `ResultsAccounted` | `[]WorkersAccounted` | `RecordAccounted`; `OnlyRecordResultRecords`: no other step writes results |
| `QueriesAccounted` | `[]EveryQueryAccounted` | `BalanceInv`: a start can only be late when the deadline has passed |
| `AtMostOneExtra` | `[]ExtraAtMostOne` | `ExtraInv`: a worker with an extra result is past its query and cannot pass the next check |
| `RateLimited` | `[]RateRespected` | `TokenInv`: how many tokens of each limiter a worker holds at each `pc`; `TakingInv`: a `Take` under way belongs to the worker's current wait, or to one it gave up for good |
| `LateFailuresNeverRecorded` | `[]OnlyLateFailuresDropped` | `LateInv`: what reaches the log was started in time or answered, and a worker that dropped something has left with its late failure |
| `LogComplete` | `[]LogAgrees` | inductive as it stands |
| `NoSocketLeaks`, `AnswersAreOwn`, `LimitKept`, `LimitExact` | `OnlyCurrentOpen`, `OwnAnswer`, `AtMostQperConn`, `RotatedWhenFull` of `DnsConnection` | `Wire`: on the current connection there is at most the response to the current call; `Load`: a connection has served no more than the remainder of the call counter; `ModStep`: that remainder starts again only at a rotation |
| `RecordBrokenDown`, `BreakdownsKept` | `[]WorkersBrokenDown` | `BrokenDown` is inductive for `record`: what one reply adds to a map it adds to its sum (`SumAdded`) |
| `CookiesAreOwn` | `[]CookieIsOwn` | `CookieInv`: a worker with a cookie that is not its own is about to record the response that carried it, or has left a trace of one in its results; results only grow, so the trace stays (`TraceStays`) |
| `MetricsAgreed` | `[]MetricsAgree` | `MetricsInv`: at any moment the counters of the metrics lack what has been recorded but not measured; a worker in `measure` is due one of each (`RecordedIsDue`, `MeasuredIsShown`). When `Run` has returned nothing is due |
| `RunsAreComplete` | `[]CompleteUnlessStopped` | `AskedInv`: how often a worker has recorded a type, as a function of round, question and type it is at (`Asked`, `Before`); `PlaceInv`: between rounds it is at the first slot; `ThroughInv`: with nothing to stop it a worker is only done after its last round |
| `RunKeepsLedger` | `Spec => Ledger!Spec`, the safety half of `ImplementsLedger` | `Books`: a worker's results as a book of outcomes, which `record` increases in one place (`RecordBooks`); `ShareInv`: it never holds more than the pairs the worker has passed (`PassedSteps`), so never more than its share; `ExtraOnTheWayOut` for the single result after a stop |
| `ZeroIsGood`, `OneIsCaused` | `ZeroMeansGood`, `OneHasACause` of `Execute` | `Received`: how many signals the handler must have received to be where it is; `Closers`: a channel closed while the main goroutine has yet to close it was closed by the handler |
| `CommandIsExecute` | `CommandSpec` implements `Spec` of `Execute`, so the two theorems above hold of the command with its parts | `StepOfExecute`: every step of a part is a step or a stutter of `Execute` |
| `StatusOfTheCommand` | `[]StatusIsHonest` | the theorems above; `Panics`: a status of 2 has a signal or a crashed worker before it, and a crash leaves nothing made. Without a crash only the closed channel panics, and `Closers` finds the signal behind it (`OthersPanicOnSignals`) |
| `RunLeavesNothingOpen` | `[]NothingServedAfterRun` | `LifeInv`: whatever was opened is closed or its deferred call is due; `OthersStayDue`, `StaysDueBelow`: calls and returns keep what is due |
| `ReportIsOfWholeRun` | `[]ReportOfWholeRun` | `Handed`: `Run` has returned without error only if it read every source and the books were delivered, and nobody writes them after that |
| `PartsFitTogether` | `[]PartsTypeOK` | `Counted`: the books hold numbers, so their totals do (`SumType`), and what is drawn are plots |
| `StatusZeroMeansAll` | `[]ReportedMeansAll` | `Outputs`: what exists of the outputs at each step of `PrintReport`; the invariant of `Execute` (`Inv`) for the exit status |
| `RoundingKeepsOrder` | `roundDuration` is monotone, for any units and any durations | the limits between the units are multiples of the units on both sides (`UnitsFit`), so no rounding crosses one (`LimitKept`) |
| `WholeIsTheSum` | `Spec => []MergeInv` of `MergedResults`: counter by counter, map entry by map entry and datapoint by datapoint, what one worker would have recorded of all replies is the sum of what the workers did record | a reply adds the same whatever was recorded before (`RecordGains`); one of the workers gains it (`OneGains`). `Accounted`, `Partitioned`, `CodesFit`: the datapoints, the error groups and the response codes of each worker fit its counters |
| `MergeIsComplete` | `[]MergeCountsEverythingOnce` | `MergeFold`: `Merge` is a sequence of turns, each adding one worker (`MergeOneFields`, `TotalsAdd`); `SortFold`: inserting one datapoint after the other orders them and neither loses nor repeats any (`InsertSorted`, `InsertedOccurs`) |
| `ReportsTheTopErrors` | `[]TopErrorsAreTop`, for any number of texts and any order in which the map is visited | `TopOf`: after each turn the errors taken are distinct, in order, and none that is left is more frequent; there are fewer than the turns only if no error is left |
| `CodesAreReported` | `[]CodesReported` | `CodesAdd`: codes add up to the responses; `JsonCodesOK`, `StdCodesOK`: what a report leaves out of that sum, and when it is nothing |
| `LatenciesAreReported` | `[]LatenciesReported`, for any number of durations, any width of a bar and any range of the histogram | `HeldOK`: sorted, the durations in range are a prefix, as long as the counter of the merged results says (`HistFits`); `DistributionOK`, `BarsCountAll`: the bars share the values out among them (`CountByValue`), and trimming drops only empty ones (`BarsFrom`); `AddPointFold`: a turn of the loop over the bars moves the last point or adds one after it, and keeps the sum; `EquivalentRises`, `MsRises`, `MakeBarOK` and `RoundingKeepsOrder`: none of the roundings turns two values around |
| `LinesShowTheRun` | `[]LinesShowEverything`, for any number of datapoints and seconds | `KthOK`: sorted, the seconds come each once and in order; `PerSecondOK`: the points of a line are the bag of the seconds of its datapoints in another order (`SumRearranged`), so they add up to the datapoints; `TotalsCounted`: these are as many as the counters of the merged results say |
| `LatenciesShowTheRun` | `[]LatenciesUpToEachSecond`, for any number of datapoints, seconds and latencies | `RankedOK`: there is a timing of each rank, as fewer than `i` are smaller and at least `i` are not greater; `PercentagesInOrder`: ranks grow with the percentage, also where a percentile is the mean of two; `LatenciesOK`: an invariant of the loop says which seconds are drawn already and which datapoints the one being filled has |
| `TransportAsAnnounced`, `AcceptedRunsCanStart`, `DelaysCanBeDrawn` | `[]AnnouncedIsDialled`, `[]ReadyForWorkers`, `[]DelaysFromInterval` of `Settings` | `Settled`: a running Benchmark is what `init` accepted of settings of the right shape, so an earlier run leaves nothing behind that harms a later one; one lemma says what `init` does to each field |
| `WarnedOfWhatIsIgnored` | `[]WarnedIffIgnored` | `FlagPassed`: `init` passes each transport flag on as it is and, but for the port of `--dot`, lets it decide nothing else; so two settings that differ in one flag are told apart by the query functions or not at all |
| `TheServerIsAsked` | `[]ServerAsked`, for any server and any resolv.conf | `ServerInv`: the server is as it was given, or has been put in with its port (`PortAdded`), and then no later run touches it (`ServerPut`); `PlainlyRead`: of a plainly spaced file the code and the system read the same server |
| `NoArgumentIsLost` | `[]ArgumentsKept`, for argument lists of any length | `ParseRuns`: the parser is a sequence of steps; `NowAt`: where it is after each argument, before, at and after `--edns0` and its value |
| `RequestsCarryWhatWasAsked` | `[]WellFormedRequests` | `Carries`: at most one OPT record, with one option for each flag that was given; `AddedOption`: a flag appends its option to the record there is, or to a new one, and changes nothing else |

The invariants are inductive strengthenings: none of `ExtraAtMostOne`,
`RateRespected`, `OwnAnswer`, `AtMostQperConn` or `OneHasACause` says enough about
the place of a worker, the wire or the handler to be preserved by itself.

The proofs about sums are inductions over data without an induction theorem, whose
operator parameter no prover here can instantiate: `SumTheorems` derives from the
well-foundedness of strict inclusion that a set of subsets of a finite set has a
minimal element, and applies that to the set of counterexamples. It also shows that
the recursive function behind a fold exists, which its definition by `CHOOSE` leaves
open. For a fold over a sequence that function is defined on sets of indices, of which
only the first `k` are ever reached: `FoldRuns` turns it into a sequence of values, one
for each element, about which `PrefixInduction` proves what an invariant would say of
a loop. `Merge`, its insertion sort, the choice of the top errors, the loop over the latencies and
the flag parser are all reasoned about in that way.

Three proofs failed for a good reason and corrected a property. `CompleteUnlessStopped`
was stated of timed runs as well, but a worker of a timed run may drop a late query
and leave while the context is not yet done, so it is about counted runs. And
`WarnedIffIgnored` did not except `--separate-worker-connections` with a single worker,
which has nobody to share with; `Options` now contains that case. `CodesReported` said of
runs with `--codes=false` as well that the codes add up to the responses; they are then
not counted at all.

TLC only: liveness and everything under fairness (out of the provers' reach), so of
`ImplementsLedger` the fair half. Every other invariant and action property that a passing
run checks is also stated by a theorem.

## Not modelled

* Coloured output and the declarations of the flags: no state and no decision.
* The drawing of plots, the bins of the latency histogram and the box plot: floating
  point and a graphics library. Of `PrintReport` wording and layout, mean, standard
  deviation and queries per second.
* The name server of a Windows system: a call of the system's API.
* Connections of DoH and DoQ: libraries; of this code the choice of the client, and
  who shares it. What an HTTP server answers.
* Fields of the settings to which `init` only gives a default.
* The random source of a worker (seeded with the clock): IDs, flags and names that are
  drawn do not occur in any property.
* Numbers are unbounded: counters are 64 bit and count queries of one run.

## Plan

Order of work, the most important behaviour first.

1. *Done.* `ResultStats`, `Benchmark`, `QueryLedger`: the run, its end and its books.
2. *Done.* `DnsConnection`, `Execute`, `MergedResults`, `Settings`, `RequestMessage`.
3. *Done.* `RunLifecycle`, `Report` and `Command`: the command as its user sees it, from
   the set-up to the report of what was booked.
4. *Done.* `Durations`, `Reporters`, `Plots`: what the reports and plots show.
5. *Done.* `Startup`: bare `--edns0`, resolv.conf; who shares a client in `Settings`.
6. *Done.* Theorems about `Command`, rounding and what `Settings` accepts.
7. *Done.* Theorems about sums: breakdowns, metrics, completeness, and the safety half
   of the refinement of `QueryLedger` by `Benchmark`.
8. *Done.* Theorems about folds over sequences: `Merge`, the top errors, the response codes,
   the lines of the plots and their percentiles, the statistics and the bars of the latencies;
   resolv.conf and the arguments.

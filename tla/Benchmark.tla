----------------------------- MODULE Benchmark ------------------------------
(***************************************************************************)
(* Benchmark.Run (pkg/dnsbench/benchmark.go): the workers, the context     *)
(* that stops them, the rate limiters they wait for, the counters they     *)
(* share with the Prometheus exporter and with the request log.            *)
(*                                                                         *)
(* One action is a stretch of a goroutine between two points where what    *)
(* the others do can be noticed: a look at the context, a wait, a call     *)
(* that leaves the process, a write to something shared.                   *)
(***************************************************************************)
EXTENDS ResultStats

CONSTANTS
  Workers,      \* the goroutines, one per Benchmark.Concurrency
  Questions,    \* what prepareQuestions returned: a sequence of names
  QTypes,       \* Benchmark.Types: a sequence of query types
  Count,        \* Benchmark.Count after init; 0 exactly when Duration is set
  Limiters,     \* the configured ones of "global" (Rate), "own" (RateLimitWorker)
  SkipOutcomes, \* outcomes of rando.Float64() > Probability
  Logging,      \* Benchmark.RequestLogEnabled
  Prometheus,   \* Benchmark.PrometheusMetricsAddr is set
  UseCookies,   \* Benchmark.Cookie
  Replies,      \* the replies a query can end in
  RequestCap    \* bound of the model: queries a worker of a timed run sends

ASSUME BenchmarkAssumption ==
  /\ IsFiniteSet(Workers) /\ Workers # {}
  /\ Questions \in Seq(Names)
  /\ QTypes \in Seq(QtypeSet) /\ QTypes # << >>
  /\ Count \in Nat /\ RequestCap \in Nat
  /\ Limiters \subseteq {"global", "own"}
  /\ SkipOutcomes \subseteq BOOLEAN /\ SkipOutcomes # {}
  /\ {Logging, Prometheus, UseCookies} \subseteq BOOLEAN
  /\ Replies \subseteq Reply /\ Replies # {}

Timed == Count = 0
Gates == {"global", "own"}

(* The two inner loops visit every pair of a question and a type.          *)
Slots == [q : 1..(Len(Questions) + 1), t : 1..Len(QTypes)]
FirstSlot == [q |-> 1, t |-> 1]

(* Mutant: the inner loop leaves out the last type.                        *)
NextSlotShort(s) == IF s.t + 1 < Len(QTypes) THEN [s EXCEPT !.t = @ + 1]
                    ELSE [q |-> s.q + 1, t |-> 1]

(* Mutant: the bound of the inner loop is off by one.                      *)
NextSlotTooFar(s) == IF s.t <= Len(QTypes) THEN [s EXCEPT !.t = @ + 1]
                     ELSE [q |-> s.q + 1, t |-> 1]

NextSlot(s) == IF s.t < Len(QTypes) THEN [s EXCEPT !.t = @ + 1]
               ELSE [q |-> s.q + 1, t |-> 1]
Query(s) == [name |-> Questions[s.q], qtype |-> QTypes[s.t]]

Unset == CHOOSE r \in Replies : TRUE   \* reply while there is none

VARIABLES
  ctx,      \* "live", "canceled" (an interrupt) or "expired" (the deadline)
  overdue,  \* the clock is past the deadline of the run
  pc,       \* where a worker is
  iter,     \* i of its outer loop
  slot,     \* q and qt of its inner loops
  taking,   \* the limiter whose Take its helper goroutine is waiting in
  start,    \* what had happened to the run when it started its latest query
  reply,    \* what its latest query ended in
  cookie,   \* where the cookie it sends comes from
  stats,    \* what it has recorded
  logged,   \* request log lines it has written
  prom,     \* the exported metrics
  panicked, \* a worker panicked, which ends the process
  returned, \* Run has returned
  (* history *)
  tokens,   \* tokens it was granted by each limiter
  sent,     \* queries it started
  dropped,  \* queries whose outcome it did not record
  extra     \* outcomes it recorded after the context was done

world   == <<ctx, overdue, panicked, returned>>
place   == <<iter, slot>>
request == <<start, reply, cookie>>
results == <<stats, logged, prom>>
history == <<tokens, sent, dropped, extra>>
vars == <<world, pc, place, taking, request, results, history>>

Init ==
  /\ ctx = "live" /\ overdue = FALSE
  /\ pc = [w \in Workers |-> "unborn"]
  /\ iter = [w \in Workers |-> 0] /\ slot = [w \in Workers |-> FirstSlot]
  /\ taking = [w \in Workers |-> "none"]
  /\ start = [w \in Workers |-> "live"]
  /\ reply = [w \in Workers |-> Unset]
  /\ cookie = [w \in Workers |-> "client"]
  /\ stats = [w \in Workers |-> NewResultStats]
  /\ logged = [w \in Workers |-> 0]
  /\ prom = [ requests  |-> [t \in QtypeSet |-> 0],
              responses |-> [c \in RcodeSet |-> 0], errors |-> 0 ]
  /\ panicked = FALSE /\ returned = FALSE
  /\ tokens = [w \in Workers |-> [l \in Gates |-> 0]]
  /\ sent = [w \in Workers |-> 0] /\ dropped = [w \in Workers |-> 0]
  /\ extra = [w \in Workers |-> 0]

(***************************************************************************)
(* The world around the workers.                                           *)
(***************************************************************************)
Alive == ~panicked

(* Time reaches the deadline; the timer of the context fires after that.   *)
ClockPasses ==
  /\ Alive /\ ~returned /\ Timed /\ ~overdue
  /\ overdue' = TRUE
  /\ UNCHANGED <<ctx, panicked, returned, pc, place, taking, request, results, history>>

ContextDone(how) ==
  /\ Alive /\ ~returned /\ ctx = "live"
  /\ ctx' = how
  /\ UNCHANGED <<overdue, panicked, returned, pc, place, taking, request, results, history>>

Expire    == overdue /\ ContextDone("expired")
Interrupt == ContextDone("canceled")      \* the cancel function of the caller

(* limiter.Take returns in the helper goroutine of checkLimit, whether or  *)
(* not the worker still waits for it.                                      *)
Grant(w) ==
  /\ Alive /\ taking[w] # "none"
  /\ tokens' = [tokens EXCEPT ![w][taking[w]] = @ + 1]
  /\ taking' = [taking EXCEPT ![w] = "none"]
  /\ UNCHANGED <<world, pc, place, request, results, sent, dropped, extra>>

(***************************************************************************)
(* One worker.                                                             *)
(***************************************************************************)
At(w, p)   == Alive /\ pc[w] = p
GoTo(w, p) == pc' = [pc EXCEPT ![w] = p]

Spawn(w) ==
  /\ At(w, "unborn")
  /\ GoTo(w, "loop")
  /\ UNCHANGED <<world, place, taking, request, results, history>>

(* The condition of the outer loop.                                        *)
RoundWanted(w) == Timed \/ iter[w] < Count

(* i is never read in a timed run: only its lowest bit is kept there.      *)
EndRound(w) ==
  /\ At(w, "loop") /\ RoundWanted(w) /\ slot[w].q > Len(Questions)
  /\ iter' = [iter EXCEPT ![w] = IF Timed THEN (@ + 1) % 2 ELSE @ + 1]
  /\ slot' = [slot EXCEPT ![w] = FirstSlot]
  /\ UNCHANGED <<world, pc, taking, request, results, history>>

Leave(w) ==
  /\ GoTo(w, "done")
  /\ UNCHANGED <<world, place, taking, request, results, tokens, sent, extra>>

(* Mutant: a worker with nothing left to ask waits for the context.        *)
FinishWhenTold(w) ==
  At(w, "loop") /\ ~RoundWanted(w) /\ ctx # "live" /\ Leave(w) /\ UNCHANGED dropped

Finish(w) == At(w, "loop") /\ ~RoundWanted(w) /\ Leave(w) /\ UNCHANGED dropped

AtPair(w) == At(w, "loop") /\ RoundWanted(w) /\ slot[w].q <= Len(Questions)

(* Mutant: the return is a break, which leaves the inner loops only.       *)
StoppedByBreak(w) ==
  /\ AtPair(w) /\ ctx # "live"
  /\ slot' = [slot EXCEPT ![w].q = Len(Questions) + 1]
  /\ UNCHANGED <<world, pc, iter, taking, request, results, history>>

Stopped(w) == AtPair(w) /\ ctx # "live" /\ Leave(w) /\ UNCHANGED dropped

Skip(w) ==
  /\ AtPair(w) /\ ctx = "live" /\ TRUE \in SkipOutcomes
  /\ slot' = [slot EXCEPT ![w] = NextSlot(@)]
  /\ UNCHANGED <<world, pc, iter, taking, request, results, history>>

(* Mutant: a worker that waited for the shared limiter skips its own.       *)
AfterOneLimiter(p) ==
  CASE p = "loop" /\ "global" \in Limiters -> "global"
    [] p = "loop" /\ Limiters = {"own"}    -> "own"
    [] OTHER -> "send"

(* Where a worker goes from the top of the loop or from a limiter.         *)
After(p) ==
  CASE p = "loop" /\ "global" \in Limiters -> "global"
    [] p = "loop" /\ Limiters = {"own"}    -> "own"
    [] p = "global" /\ "own" \in Limiters  -> "own"
    [] OTHER -> "send"

(* The worker goes on, calling Take in a new goroutine if a limiter is next. *)
Advance(w) ==
  LET p == After(pc[w]) IN
  /\ GoTo(w, p)
  /\ taking' = [taking EXCEPT ![w] = IF p \in Limiters THEN p ELSE "none"]
  /\ UNCHANGED <<world, place, request, results, history>>

(* Mutant: the context is looked at only where a query is skipped.         *)
ProceedAnyway(w) ==
  /\ AtPair(w) /\ FALSE \in SkipOutcomes
  /\ Timed => sent[w] < RequestCap
  /\ Advance(w)

Proceed(w) ==
  /\ AtPair(w) /\ ctx = "live" /\ FALSE \in SkipOutcomes
  /\ Timed => sent[w] < RequestCap
  /\ Advance(w)

(* checkLimit: both branches of its select may be ready.                   *)
Waiting(w) == Alive /\ pc[w] \in Gates
Acquire(w) == Waiting(w) /\ taking[w] = "none" /\ Advance(w)

(* Mutant: the worker waits for the limiter alone.                         *)
NeverAbandon(w) == FALSE

Abandon(w) == Waiting(w) /\ ctx # "live" /\ Leave(w) /\ UNCHANGED dropped

Send(w) ==
  /\ At(w, "send")
  /\ GoTo(w, "wait")
  /\ start' = [start EXCEPT ![w] = IF overdue THEN "overdue" ELSE ctx]
  /\ sent' = [sent EXCEPT ![w] = @ + 1]
  /\ UNCHANGED <<world, place, taking, reply, cookie, results, tokens, dropped, extra>>

(* Mutant: the start of a query is not compared with the deadline.         *)
NeverTooLate(w, r) == FALSE

(* err != nil and start.After(deadline): the deadline of the request is    *)
(* that of the run, as the one set for the request alone lies after start. *)
TooLate(w, r) == ~Answered(r) /\ start[w] = "overdue"

(* A failure of a query that was started past the deadline ends the worker.*)
Drop(w) ==
  /\ At(w, "wait")
  /\ GoTo(w, "done")
  /\ \E r \in Replies : TooLate(w, r) /\ reply' = [reply EXCEPT ![w] = r]
  /\ dropped' = [dropped EXCEPT ![w] = @ + 1]
  /\ UNCHANGED <<world, place, taking, start, cookie, results, tokens, sent, extra>>

(* Mutant: a worker ends when a query fails.                               *)
RespondOrLeave(w) ==
  /\ At(w, "wait")
  /\ \E r \in Replies :
       /\ ~TooLate(w, r)
       /\ reply' = [reply EXCEPT ![w] = r]
       /\ GoTo(w, IF Answered(r) THEN "log" ELSE "done")
  /\ UNCHANGED <<world, place, taking, start, cookie, results, history>>

(* Mutant: the workers share their cookie.                                 *)
RespondToAll(w) ==
  /\ At(w, "wait")
  /\ GoTo(w, "log")
  /\ \E r \in Replies :
       /\ ~TooLate(w, r)
       /\ reply' = [reply EXCEPT ![w] = r]
       /\ cookie' = IF UseCookies /\ Answered(r) /\ r.cookie # "none"
                    THEN [v \in Workers |-> r.cookie] ELSE cookie
  /\ UNCHANGED <<world, place, taking, start, results, history>>

(* The query goes on: as long as the timer of the context has not fired, a *)
(* query that was started past the deadline may well be answered.          *)
Respond(w) ==
  /\ At(w, "wait")
  /\ GoTo(w, "log")
  /\ \E r \in Replies :
       /\ ~TooLate(w, r)
       /\ reply' = [reply EXCEPT ![w] = r]
       /\ cookie' = [cookie EXCEPT ![w] =
            IF UseCookies /\ Answered(r) /\ r.cookie # "none" THEN r.cookie ELSE @]
  /\ UNCHANGED <<world, place, taking, start, results, history>>

(* Mutant: only answered queries are logged.                               *)
LogAnswered(w) ==
  /\ At(w, "log")
  /\ GoTo(w, "record")
  /\ logged' = [logged EXCEPT ![w] = @ + OneIf(Logging /\ Answered(reply[w]))]
  /\ UNCHANGED <<world, place, taking, request, stats, prom, history>>

Log(w) ==
  /\ At(w, "log")
  /\ GoTo(w, "record")
  /\ logged' = [logged EXCEPT ![w] = @ + OneIf(Logging)]
  /\ UNCHANGED <<world, place, taking, request, stats, prom, history>>

RecordResult(w) ==
  /\ At(w, "record")
  /\ GoTo(w, "measure")
  /\ stats' = [stats EXCEPT ![w] = Record(@, Query(slot[w]), reply[w], start[w])]
  /\ extra' = [extra EXCEPT ![w] = @ + OneIf(ctx # "live")]
  /\ UNCHANGED <<world, place, taking, request, logged, prom, tokens, sent, dropped>>

(* Mutant: measureProm returns after counting an error.                    *)
ExportedUpToError(p, q, r) ==
  [ requests  |-> [p.requests EXCEPT ![q.qtype] = @ + OneIf(Answered(r))],
    responses |-> [p.responses EXCEPT ![r.rcode] = @ + OneIf(Answered(r))],
    errors    |-> p.errors + OneIf(IsFailure(r)) ]

(* measureProm: the counters one result adds to.                           *)
Exported(p, q, r) ==
  [ requests  |-> [p.requests EXCEPT ![q.qtype] = @ + 1],
    responses |-> [p.responses EXCEPT ![r.rcode] = @ + OneIf(Answered(r))],
    errors    |-> p.errors + OneIf(IsFailure(r)) ]

Unmeasurable(r) == Prometheus /\ Answered(r) /\ ~r.question

(* The end of the loop body; a delay only makes the next step come later.  *)
Measure(w) ==
  /\ At(w, "measure")
  /\ ~Unmeasurable(reply[w])
  /\ GoTo(w, "loop")
  /\ prom' = IF Prometheus THEN Exported(prom, Query(slot[w]), reply[w]) ELSE prom
  /\ slot' = [slot EXCEPT ![w] = NextSlot(@)]
  /\ reply' = [reply EXCEPT ![w] = Unset]
  /\ start' = [start EXCEPT ![w] = "live"]
  /\ UNCHANGED <<world, iter, taking, cookie, stats, logged, history>>

(* resp.Question[0] of a response without a question section.              *)
Panic(w) ==
  /\ At(w, "measure") /\ Unmeasurable(reply[w])
  /\ panicked' = TRUE
  /\ UNCHANGED <<ctx, overdue, returned, pc, place, taking, request, results, history>>

(* Mutant: Run waits for the first worker that ends.                       *)
ReturnsWithFirst ==
  /\ Alive /\ ~returned /\ \E w \in Workers : pc[w] = "done"
  /\ returned' = TRUE
  /\ UNCHANGED <<ctx, overdue, panicked, pc, place, taking, request, results, history>>

(* wg.Wait returns and Run with it.                                        *)
RunReturns ==
  /\ Alive /\ ~returned /\ \A w \in Workers : pc[w] = "done"
  /\ returned' = TRUE
  /\ UNCHANGED <<ctx, overdue, panicked, pc, place, taking, request, results, history>>

Ended == panicked \/ returned
Terminating == Ended /\ UNCHANGED vars

Step(w) ==
  \/ Spawn(w) \/ EndRound(w) \/ Finish(w) \/ Stopped(w) \/ Skip(w) \/ Proceed(w)
  \/ Acquire(w) \/ Abandon(w) \/ Send(w) \/ Drop(w) \/ Respond(w)
  \/ Log(w) \/ RecordResult(w) \/ Measure(w) \/ Panic(w)

Next ==
  \/ ClockPasses \/ Expire \/ Interrupt \/ RunReturns \/ Terminating
  \/ \E w \in Workers : Step(w) \/ Grant(w)

Spec == Init /\ [][Next]_vars

(* Goroutines are scheduled, timers fire, Take returns and every query ends *)
(* by its timeouts; nobody has to interrupt the program.                   *)
Fairness ==
  /\ \A w \in Workers : WF_vars(Step(w)) /\ WF_vars(Grant(w))
  /\ WF_vars(ClockPasses) /\ WF_vars(Expire) /\ WF_vars(RunReturns)

FairSpec == Spec /\ Fairness

(* Only what the program itself does is fair: time may stand still.        *)
PromptSpec ==
  Spec /\ WF_vars(RunReturns) /\ \A w \in Workers : WF_vars(Step(w))

TimeAdvances ==
  WF_vars(ClockPasses) /\ WF_vars(Expire) /\ \A w \in Workers : WF_vars(Grant(w))

(***************************************************************************)
(* Properties.                                                             *)
(***************************************************************************)
Places == {"unborn", "loop", "global", "own", "send", "wait", "log", "record",
           "measure", "done"}
Starts == {"live", "canceled", "expired", "overdue"}

TypeOK ==
  /\ ctx \in {"live", "canceled", "expired"}
  /\ {overdue, panicked, returned} \subseteq BOOLEAN
  /\ pc \in [Workers -> Places]
  /\ iter \in [Workers -> Nat] /\ slot \in [Workers -> Slots]
  /\ taking \in [Workers -> Limiters \union {"none"}]
  /\ start \in [Workers -> Starts]
  /\ reply \in [Workers -> Replies]
  /\ cookie \in [Workers -> {"client", "echo", "foreign"}]
  /\ stats \in [Workers -> Stats(Starts)]
  /\ logged \in [Workers -> Nat]
  /\ prom \in [ requests : [QtypeSet -> Nat], responses : [RcodeSet -> Nat],
                errors : Nat ]
  /\ tokens \in [Workers -> [Gates -> Nat]]
  /\ sent \in [Workers -> Nat] /\ dropped \in [Workers -> Nat]
  /\ extra \in [Workers -> Nat]

InFlight == {"wait", "log", "record"}

(* The counters of every worker partition its queries, and the datapoints  *)
(* kept for the plots and the latency figures are as many as the counters  *)
(* say (record, result.go:70-145).                                         *)
WorkersAccounted == \A w \in Workers : Accounted(stats[w])

(* No query is lost and none is counted twice: what a worker started it    *)
(* recorded, is still waiting for, or dropped; and it drops at most one,   *)
(* its last, which failed after it was started late (line 518).            *)
EveryQueryAccounted ==
  \A w \in Workers :
    /\ sent[w] = stats[w].Total + OneIf(pc[w] \in InFlight) + dropped[w]
    /\ dropped[w] <= 1
    /\ dropped[w] = 1 => overdue /\ pc[w] = "done"

(* Every printed breakdown of a worker's queries adds up to its counters.   *)
WorkersBrokenDown == \A w \in Workers : BreakdownsMatchCounters(stats[w])

(* The check of line 518 tells the end of the run from trouble with the    *)
(* server: a failure of a query started past the deadline is not counted   *)
(* as an error of the server, and nothing but such a failure is thrown     *)
(* away: a query that fails in time, or is answered late, is recorded.     *)
OnlyLateFailuresDropped ==
  \A w \in Workers :
    /\ \A i \in 1..Len(stats[w].Errors) : stats[w].Errors[i].start # "overdue"
    /\ dropped[w] > 0 => start[w] = "overdue" /\ ~Answered(reply[w])

(* Once the context is done, by a signal or by the deadline, a worker adds *)
(* at most one more result, that of the query it was already committed to. *)
ExtraAtMostOne == \A w \in Workers : extra[w] <= 1

(* Both rate limits hold at once: every query was preceded by a token of   *)
(* each configured limiter, and stopping wastes at most one token each.    *)
RateRespected ==
  \A w \in Workers, l \in Limiters : tokens[w][l] - sent[w] \in {0, 1}

(* The request log and the results agree, but for the result that is being *)
(* recorded: every query counted in a report can be found in the log.      *)
LogAgrees ==
  Logging => \A w \in Workers :
    logged[w] = stats[w].Total + OneIf(pc[w] = "record")

Sum(f) == SumFunction(f)
Recorded(field) == Sum([w \in Workers |-> stats[w][field]])

(* What was scraped from the exporter when Run has returned is what the    *)
(* report is about to print: requests by type, responses and errors.       *)
MetricsAgree ==
  Prometheus /\ returned =>
    /\ \A t \in QtypeSet :
         prom.requests[t] = Sum([w \in Workers |-> stats[w].Qtypes[t]])
    /\ Sum(prom.responses) = Recorded("Total") - Recorded("IOError")
    /\ prom.errors = Recorded("IOError")

(* The cookie that a worker presents is one it was given itself: by the    *)
(* response it is about to record or by one that left its trace in what it *)
(* has recorded.  A response that is not kept counts for that, too.        *)
CookieIsOwn ==
  CountRcodes => \A w \in Workers :
    cookie[w] # "client" =>
      \E r \in Replies :
        /\ Answered(r) /\ r.cookie = cookie[w]
        /\ \/ reply[w] = r
           \/ IF Kept(r) THEN stats[w].Codes[r.rcode] > 0 ELSE stats[w].IDmismatch > 0

Occurrences(e, s) == Cardinality({i \in DOMAIN s : s[i] = e})

(* A counted run that nothing stopped has asked every question with every  *)
(* type Count times from every worker, and its report says so.             *)
CompleteUnlessStopped ==
  returned /\ ~Timed /\ ctx = "live" /\ SkipOutcomes = {FALSE} =>
    \A w \in Workers, t \in QtypeSet :
      stats[w].Qtypes[t] = Count * Len(Questions) * Occurrences(t, QTypes)

(* Run ends: a counted run by itself, a timed one by its deadline, and any *)
(* run once it is interrupted, even while its workers wait for a limiter.  *)
Termination == <>Ended

(* The same, where the passing of time is not part of the specification.   *)
TerminatesInTime == TimeAdvances => Termination

(* An interrupt ends the run although no limiter ever grants a token and   *)
(* the deadline never comes: checked under PromptSpec, where time may stop. *)
InterruptHeeded == ctx = "canceled" ~> Ended

(* Run keeps the books as QueryLedger says.                                *)
Outcomes == {"answered", "failed", "mismatched"}
Share    == IF Timed THEN Nat ELSE 0..(Count * Len(Questions) * Len(QTypes))

BookOf(st) ==
  [o \in Outcomes |->
     CASE o = "answered"   -> Len(st.Timings)
       [] o = "failed"     -> Len(st.Errors)
       [] o = "mismatched" -> st.IDmismatch]

Books == [w \in Workers |-> BookOf(stats[w])]
Gone  == {w \in Workers : pc[w] = "done"}
Phase == IF panicked THEN "crashed" ELSE IF returned THEN "delivered" ELSE "running"

Ledger == INSTANCE QueryLedger WITH
  book <- Books, stopped <- ctx # "live", tail <- extra, gone <- Gone, phase <- Phase

(* Run keeps the promise of QueryLedger, its liveness included: what it    *)
(* hands to the reporters is complete and no worker still writes into it.  *)
ImplementsLedger == Ledger!FairSpec

(***************************************************************************)
(* What the documentation says and the code does not do.                   *)
(***************************************************************************)
(* benchmark.go:519: a query of a run that was cancelled before it was     *)
(* sent is not counted.                                                    *)
CancelledNotCounted ==
  \A w \in Workers : \A i \in 1..Len(stats[w].Errors) :
    stats[w].Errors[i].start \notin {"canceled", "expired"}

(* result.go:24: IDmismatch counts all responses whose ID is not that of   *)
(* the request.                                                            *)
EveryMismatchCounted ==
  [][\A w \in Workers :
       /\ stats'[w] # stats[w] /\ Answered(reply[w]) /\ ~reply[w].sameId
       => stats'[w].IDmismatch = stats[w].IDmismatch + 1]_vars

(* prometheusmetrics.md:16: dns_response_total is the total number of      *)
(* responses received: each one handed to measureProm is counted.          *)
EveryResponseExported ==
  [][\A w \in Workers :
       Prometheus /\ Answered(reply[w]) /\ (Measure(w) \/ Panic(w))
       => Sum(prom'.responses) = Sum(prom.responses) + 1]_vars
=============================================================================

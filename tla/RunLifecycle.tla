---------------------------- MODULE RunLifecycle ----------------------------
(***************************************************************************)
(* What Benchmark.Run does around its workers (pkg/dnsbench/benchmark.go:  *)
(* 343-455 and 549-555): it opens the request log, starts HTTP servers in  *)
(* goroutines of their own, collects the questions, starts the workers and *)
(* waits for them.  However it ends, its deferred calls undo the set-up,   *)
(* the latest first.                                                       *)
(*                                                                         *)
(* What the servers do is that of net/http: ListenAndServe gives up when   *)
(* Shutdown was called before it serves, and Shutdown closes the listener, *)
(* then waits for requests in progress or for the end of its context,      *)
(* which here is the one that an interrupt cancels.                        *)
(***************************************************************************)
EXTENDS Integers, Sequences

CONSTANTS
  Sources,    \* how many sources of questions Benchmark.Queries has
  Urls,       \* the sources that are downloaded
  Servers,    \* "prometheus" and "pprof", as far as they have an address
  RequestLog, \* Benchmark.RequestLogEnabled
  Timed,      \* Benchmark.Duration is set
  Ticking     \* Run shows a progress bar of the time

(* What the parameters have to be.                                         *)
Parameters ==
  /\ Sources \in Nat /\ Urls \subseteq 1..Sources
  /\ Servers \subseteq {"prometheus", "pprof"}
  /\ {RequestLog, Timed, Ticking} \subseteq BOOLEAN
  /\ Ticking => Timed

VARIABLES
  canceled, \* the context of the caller is cancelled
  stage,    \* "init", "questions", "workers", "unwind" or "returned"
  error,    \* Run returns an error
  source,   \* how many sources it has read
  loaded,   \* the sources from which it has got every question
  deferred, \* its deferred calls, the next one first
  logFile,  \* "none", "open" or "closed"
  server,   \* where the goroutine of each server is
  down,     \* servers on which Shutdown was called
  scraped,  \* servers that are answering a request
  timeout,  \* the context of the workers: "none", "set", "expired", "released"
  ticker    \* goroutine of the progress bar: "none", "running", "ended"

setup   == <<source, loaded, logFile>>
servers == <<server, down, scraped>>
timing  == <<timeout, ticker>>
vars    == <<stage, error, deferred, setup, servers, timing>>

Init ==
  /\ stage = "init" /\ error = FALSE
  /\ source = 0 /\ loaded = {}
  /\ deferred = << >> /\ logFile = "none"
  /\ server = [s \in Servers |-> "none"] /\ down = {} /\ scraped = {}
  /\ timeout = "none" /\ ticker = "none"

If(wanted, call) == IF wanted THEN <<call>> ELSE << >>

ReturnWith(err) == stage' = "unwind" /\ error' = err

(* init, or the opening of the log file, fails: nothing is deferred yet.   *)
SetUpFails ==
  /\ stage = "init"
  /\ ReturnWith(TRUE)
  /\ UNCHANGED <<deferred, setup, servers, timing>>

(* Mutant: the servers are only shut down when the workers have run.       *)
DeferLogOnly == deferred' = If(RequestLog, "log")

DeferSetUp ==
  deferred' = If("pprof" \in Servers, "pprof")
              \o If("prometheus" \in Servers, "prometheus") \o If(RequestLog, "log")

SetUp ==
  /\ stage = "init" /\ stage' = "questions"
  /\ logFile' = IF RequestLog THEN "open" ELSE "none"
  /\ server' = [s \in Servers |-> "starting"]
  /\ DeferSetUp
  /\ UNCHANGED <<error, source, loaded, down, scraped, timing>>

(* prepareQuestions: one source after the other.  Nothing but its time     *)
(* limit of two minutes ends a download.                                   *)
ReadSource ==
  /\ stage = "questions" /\ source < Sources
  /\ source' = source + 1
  /\ loaded' = loaded \union {source'}
  /\ UNCHANGED <<stage, error, deferred, logFile, servers, timing>>

(* No connection, a status that is not 2xx, or a body that breaks off: the *)
(* lines read so far are lost.                                             *)
DownloadFails ==
  /\ stage = "questions" /\ source + 1 \in Urls
  /\ ReturnWith(TRUE)
  /\ UNCHANGED <<deferred, setup, servers, timing>>

StartWorkers ==
  /\ stage = "questions" /\ source = Sources
  /\ stage' = "workers"
  /\ timeout' = IF Timed THEN "set" ELSE "none"
  /\ ticker' = IF Ticking THEN "running" ELSE "none"
  /\ deferred' = If(Ticking, "ticker") \o If(Timed, "timeout") \o deferred
  /\ UNCHANGED <<error, setup, servers>>

Expire ==
  /\ timeout = "set" /\ timeout' = "expired"
  /\ UNCHANGED <<stage, error, deferred, setup, servers, ticker>>

(* wg.Wait returns.                                                        *)
WorkersGone ==
  /\ stage = "workers"
  /\ ReturnWith(FALSE)
  /\ UNCHANGED <<deferred, setup, servers, timing>>

(***************************************************************************)
(* The deferred calls.                                                     *)
(***************************************************************************)
Calls(call) == stage = "unwind" /\ deferred # << >> /\ Head(deferred) = call

Pop == deferred' = Tail(deferred) /\ UNCHANGED <<stage, error>>

(* A stopped ticker sends no more ticks; its goroutine does not notice.    *)
StopTicker == Calls("ticker") /\ Pop /\ UNCHANGED <<setup, servers, timing>>

ReleaseTimeout ==
  /\ Calls("timeout") /\ Pop
  /\ timeout' = "released"
  /\ UNCHANGED <<setup, servers, ticker>>

Shutdown(s) ==
  /\ Calls(s) /\ s \notin down
  /\ down' = down \union {s}
  /\ server' = [server EXCEPT ![s] = IF @ = "serving" THEN "ended" ELSE @]
  /\ UNCHANGED <<stage, error, deferred, setup, scraped, timing>>

(* Mutant: Shutdown is given a context that nothing cancels.               *)
ShutdownWaits(s) ==
  /\ Calls(s) /\ s \in down /\ s \notin scraped
  /\ Pop /\ UNCHANGED <<setup, servers, timing>>

ShutdownReturns(s) ==
  /\ Calls(s) /\ s \in down /\ (s \notin scraped \/ canceled)
  /\ Pop /\ UNCHANGED <<setup, servers, timing>>

CloseLog ==
  /\ Calls("log") /\ Pop
  /\ logFile' = "closed"
  /\ UNCHANGED <<source, loaded, servers, timing>>

Return ==
  /\ stage = "unwind" /\ deferred = << >>
  /\ stage' = "returned"
  /\ UNCHANGED <<error, deferred, setup, servers, timing>>

(***************************************************************************)
(* The other goroutines.                                                   *)
(***************************************************************************)
ServerTo(s, from, to) ==
  /\ server[s] = from /\ server' = [server EXCEPT ![s] = to]
  /\ UNCHANGED <<stage, error, deferred, setup, down, scraped, timing>>

(* The address may be taken, which is reported and changes nothing else.   *)
Listen(s) ==
  \/ s \in down /\ ServerTo(s, "starting", "ended")
  \/ s \notin down /\ \E to \in {"bound", "failed"} : ServerTo(s, "starting", to)

Serve(s) == ServerTo(s, "bound", IF s \in down THEN "ended" ELSE "serving")

(* A client asks; its request may outlive the listener.                    *)
Scrape(s) ==
  /\ server[s] = "serving" /\ s \notin scraped
  /\ scraped' = scraped \union {s}
  /\ UNCHANGED <<stage, error, deferred, setup, server, down, timing>>

ScrapeEnds(s) ==
  /\ s \in scraped /\ scraped' = scraped \ {s}
  /\ UNCHANGED <<stage, error, deferred, setup, server, down, timing>>

(* Mutant: the goroutine of the progress bar looks at its ticks only.      *)
NeverTickerEnds == FALSE

TickerEnds ==
  /\ ticker = "running" /\ (canceled \/ timeout \in {"expired", "released"})
  /\ ticker' = "ended"
  /\ UNCHANGED <<stage, error, deferred, setup, servers, timeout>>

(***************************************************************************)
(* Main is the goroutine that called Run, up to the workers and after      *)
(* them; WorkersGone is left to the specification of the workers.          *)
(***************************************************************************)
BeforeWorkers == SetUp \/ SetUpFails \/ ReadSource \/ DownloadFails \/ StartWorkers

Unwind ==
  \/ StopTicker \/ ReleaseTimeout \/ CloseLog
  \/ \E s \in Servers : Shutdown(s) \/ ShutdownReturns(s)

Helpers == TickerEnds \/ \E s \in Servers : Listen(s) \/ Serve(s)
Clients == \E s \in Servers : Scrape(s) \/ ScrapeEnds(s)

(***************************************************************************)
(* Properties.                                                             *)
(***************************************************************************)
TypeOK ==
  /\ stage \in {"init", "questions", "workers", "unwind", "returned"}
  /\ {error, canceled} \subseteq BOOLEAN
  /\ source \in 0..Sources /\ loaded \subseteq 1..Sources
  /\ deferred \in Seq(Servers \union {"ticker", "timeout", "log"})
  /\ logFile \in {"none", "open", "closed"}
  /\ server \in [Servers -> {"none", "starting", "bound", "failed", "serving", "ended"}]
  /\ down \subseteq Servers /\ scraped \subseteq Servers
  /\ timeout \in {"none", "set", "expired", "released"}
  /\ ticker \in {"none", "running", "ended"}
=============================================================================

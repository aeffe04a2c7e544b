------------------------------ MODULE Command -------------------------------
(***************************************************************************)
(* The command with its parts: Execute, in which Run and PrintReport are   *)
(* single steps, composed with what these two do.  RunLifecycle is Run     *)
(* around its workers, QueryLedger the promise of the workers (which       *)
(* Benchmark keeps), Report the course of PrintReport.  They share the     *)
(* context that the first interrupt cancels, and the process: when it      *)
(* exits, everything stops where it is.                                    *)
(***************************************************************************)
EXTENDS Execute, Sequences, FiniteSets, Functions

CONSTANTS
  Workers, Outcomes, Share,                             \* of QueryLedger
  Sources, Urls, Servers, RequestLog, Timed, Ticking,   \* of RunLifecycle
  Plots, Drawn, Wishes                                  \* of Report

VARIABLES
  book, tail, gone, phase,
  stage, error, source, loaded, deferred, logFile, server, down, scraped,
  timeout, ticker,
  asked, step, merged, drawn, made, complained

Lifecycle == INSTANCE RunLifecycle
Ledger    == INSTANCE QueryLedger WITH stopped <- canceled \/ timeout = "expired"
Printing  == INSTANCE Report

(* The workers are as many as an integer of the settings says.             *)
ASSUME CommandAssumption ==
  /\ IsFiniteSet(Workers) /\ Met \subseteq Outcomes
  /\ Exporting = ("prometheus" \in Servers)
  /\ Lifecycle!Parameters /\ Printing!Parameters

books     == <<book, tail, gone, phase>>
lifecycle == <<stage, error, source, loaded, deferred, logFile, server, down,
               scraped, timeout, ticker>>
printing  == <<asked, step, merged, drawn, made, complained>>
allVars   == <<vars, books, lifecycle, printing>>

CommandInit ==
  /\ Init /\ Lifecycle!Init /\ Printing!Init
  /\ book = [w \in Workers |-> [o \in Outcomes |-> 0]]
  /\ tail = [w \in Workers |-> 0] /\ gone = {} /\ phase = "running"

(* Merge: the results of all workers.                                      *)
Totals == [o \in Outcomes |-> SumFunction([w \in Workers |-> book[w][o]])]

MetByResults == {c \in Met : Totals[c] > 0}

(***************************************************************************)
(* The goroutines of the command.                                          *)
(***************************************************************************)
SignalStep  == Signal /\ UNCHANGED <<books, lifecycle, printing>>
HandlerStep == Handler /\ UNCHANGED <<books, lifecycle, printing>>

RunStep ==
  /\ Up /\ main = "run"
  /\ UNCHANGED <<vars, books, printing>>
  /\ Lifecycle!BeforeWorkers \/ Lifecycle!Unwind

WorkerStep(w) ==
  /\ Up /\ stage = "workers"
  /\ UNCHANGED <<vars, lifecycle, printing>>
  /\ Ledger!Close(w) \/ \E o \in Outcomes : Ledger!Book(w, o)

(* The panic of a worker in measureProm, while others are still at work or *)
(* not; their results are lost with the process.                           *)
WorkerPanics ==
  /\ RunPanics
  /\ stage = "workers" /\ gone # Workers
  /\ UNCHANGED <<lifecycle, printing>>
  /\ Ledger!Crash

(* Mutant: Run returns when it is cancelled, whoever still works.          *)
WorkersLeftBehind ==
  /\ Up /\ stage = "workers"
  /\ UNCHANGED <<vars, printing>>
  /\ Lifecycle!WorkersGone
  /\ (gone = Workers \/ canceled)
  /\ UNCHANGED books

WorkersEnd ==
  /\ Up
  /\ UNCHANGED <<vars, printing>>
  /\ Lifecycle!WorkersGone
  /\ Ledger!Deliver

RunReturns ==
  /\ Lifecycle!Return
  /\ \/ error /\ RunFails
     \/ ~error /\ RunSucceeds /\ met' = MetByResults
  /\ UNCHANGED <<books, printing>>

ReportStep ==
  /\ Up /\ main = "report"
  /\ Printing!Merge(Totals) \/ Printing!Next
  /\ UNCHANGED <<vars, books, lifecycle>>

(* Mutant: the error of PrintReport is not looked at.                      *)
ErrorIgnored ==
  /\ step \in {"done", "failed"} /\ ReportSucceeds
  /\ UNCHANGED <<books, lifecycle, printing>>

ReportReturns ==
  /\ \/ step = "done" /\ ReportSucceeds
     \/ step = "failed" /\ ReportFails
  /\ UNCHANGED <<books, lifecycle, printing>>

EndStep ==
  (MainCloses \/ MainFails \/ Check) /\ UNCHANGED <<books, lifecycle, printing>>

HelperStep ==
  /\ Up /\ Lifecycle!Helpers
  /\ UNCHANGED <<vars, books, printing>>

(* Deadline and clients of the servers: nothing has to happen.              *)
ClockOrClient ==
  /\ Up /\ (Lifecycle!Expire \/ Lifecycle!Clients)
  /\ UNCHANGED <<vars, books, printing>>

MainStep ==
  RunStep \/ WorkersEnd \/ RunReturns \/ ReportStep \/ ReportReturns \/ EndStep

CommandEnds == ~Up /\ UNCHANGED allVars

CommandNext ==
  \/ SignalStep \/ HandlerStep \/ MainStep \/ HelperStep \/ ClockOrClient
  \/ WorkerPanics \/ CommandEnds \/ \E w \in Workers : WorkerStep(w)

(* Only the goroutine of the handler has to be scheduled.                  *)
CommandSpec == CommandInit /\ [][CommandNext]_allVars /\ WF_allVars(HandlerStep)

(* The other goroutines are scheduled, downloads end by their time limit,  *)
(* and stopped workers leave, as QueryLedger has it.                       *)
Progress ==
  /\ WF_allVars(MainStep) /\ WF_allVars(HelperStep)
  /\ \A w \in Workers :
       WF_allVars((canceled \/ timeout = "expired") /\ WorkerStep(w) /\ w \in gone')

(***************************************************************************)
(* Properties.                                                             *)
(***************************************************************************)
PartsTypeOK == TypeOK /\ Lifecycle!TypeOK /\ Ledger!TypeOK /\ Printing!TypeOK

(* Zero is never a lie and one has a cause.  Two is the end of a panic:    *)
(* that of a worker, which leaves nothing reported, or one that an         *)
(* interrupt has brought about, which two goroutines deal with.            *)
StatusIsHonest ==
  /\ ZeroMeansGood /\ OneHasACause
  /\ exit = 2 => signals > 0 \/ phase = "crashed"
  /\ phase = "crashed" => exit = 2 /\ Exporting /\ made = {}

(* Whatever stopped the run, a report is about all that its workers have   *)
(* recorded: it reads their results when none of them writes any more.     *)
(* And the workers had every question of every source to ask.              *)
ReportOfWholeRun ==
  /\ main = "report" => gone = Workers /\ loaded = 1..Sources
  /\ step # "merge" => merged = Totals /\ phase = "delivered"

(* Status 0 promises the user each output that was asked for, complete but *)
(* for plots that were complained about.  So does a report on the standard *)
(* output, which comes last.                                               *)
ReportedMeansAll == exit = 0 \/ "text" \in made => Printing!Complete

(* When Run has returned, in whichever way, no server of it still answers  *)
(* and the log file is closed; a request in progress is cut off only by an *)
(* interrupt.                                                              *)
NothingServedAfterRun ==
  stage = "returned" =>
    /\ \A s \in Servers : server[s] # "serving"
    /\ logFile # "open"
    /\ scraped # {} => canceled

(* The second interrupt ends the command even if nothing but the handler   *)
(* of signals moves.  The first one does if the goroutines are scheduled,  *)
(* whatever it finds Run doing: a download ends by its time limit, workers *)
(* leave, and the shutdown of a server no longer waits for a client.       *)
InterruptsEnd ==
  /\ SecondInterruptEnds
  /\ Progress => (signals > 0 ~> exit # -1)

(* A run that is interrupted once while its workers are at work is still   *)
(* reported, unless something fails or panics or it is interrupted again.  *)
InterruptedIsReported ==
  Progress =>
    ((canceled /\ stage = "workers")
       ~> (Printing!Complete \/ failed \/ signals > 1 \/ exit = 2))

(* No goroutine that Run started for itself lives on after it: while the   *)
(* report is being made, however long that takes, the goroutines of the    *)
(* servers and of the progress bar end, if only they are scheduled.        *)
HelpersEnd ==
  WF_allVars(HelperStep) =>
    (stage = "returned" ~>
       \/ exit # -1
       \/ /\ ticker # "running"
          /\ \A s \in Servers : server[s] \in {"none", "failed", "ended"})
=============================================================================

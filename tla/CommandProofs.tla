--------------------------- MODULE CommandProofs ----------------------------
(***************************************************************************)
(* Proofs about Command, for any workers, sources, servers, plots, fail    *)
(* conditions, number of signals and capacity of their channel.  The first *)
(* part is about Execute alone.  The second is a refinement: what Execute  *)
(* takes for single steps of its main goroutine is implemented by the      *)
(* parts, so its theorems hold of the whole command.  The other parts need *)
(* invariants that relate the components to one another.                   *)
(***************************************************************************)
EXTENDS Command, SumTheorems, TLAPS

(***************************************************************************)
(* The exit status, as Execute has it.                                     *)
(***************************************************************************)

(* What the exit status rests on: which of the two goroutines has closed   *)
(* the channel, and how many signals the handler must have received to be  *)
(* where it is.  A second receive from a channel that the main goroutine   *)
(* has closed proves no signal, which is why "close" is special.           *)
Received ==
  /\ handler \in {"first", "gone"}    => signals >= queued
  /\ handler \in {"cancel", "second"} => signals >= queued + 1
  /\ handler = "close"  => signals >= 1 /\ canceled /\ (closed \/ signals >= 2)
  /\ handler = "exit"   => signals >= 2 /\ canceled /\ closed
  /\ handler = "second" => canceled

Closers ==
  closed /\ main \in {"run", "report", "close", "closeAndFail"} => handler = "exit"

Verdicts ==
  /\ failed <=> main \in {"closeAndFail", "fail"}
  /\ exit = 0 => main = "check" /\ FailConditions \intersect met = {}
  /\ OneHasACause

Inv == TypeOK /\ Received /\ Closers /\ Verdicts

(* It holds when the command starts,                                       *)
LEMMA InvInit == Init => Inv
<1> SUFFICES ASSUME Init PROVE Inv
  OBVIOUS
<1>1. TypeOK
  <2>1. {closed, canceled, failed} \subseteq BOOLEAN /\ met \subseteq Met
    BY DEF Init
  <2>2. queued \in 0..SigBuffer /\ signals \in 0..MaxSignals
    BY ExecuteAssumption DEF Init
  <2>3. exit \in {-1, 0, 1, 2}
    BY DEF Init
  <2> QED BY <2>1, <2>2, <2>3 DEF Init, TypeOK
<1>2. Received /\ Closers
  BY DEF Init, Received, Closers
<1>3. Verdicts
  BY DEF Init, Verdicts, OneHasACause
<1> QED BY <1>1, <1>2, <1>3 DEF Inv

(* and every signal and every step of the two goroutines preserves it.     *)
LEMMA InvStep == Inv /\ [Next]_vars => Inv'
<1> SUFFICES ASSUME Inv, [Next]_vars PROVE Inv'
  OBVIOUS
<1> USE ExecuteAssumption
    DEF Inv, TypeOK, Received, Closers, Verdicts, OneHasACause, Up
<1>1. CASE Signal
  BY <1>1 DEF Signal, Die
<1>2. CASE Handler
  <2>1. CASE ReceiveFirst  BY <2>1 DEF ReceiveFirst, HandlerTo
  <2>2. CASE FirstClosed   BY <2>2 DEF FirstClosed, HandlerTo
  <2>3. CASE Cancel        BY <2>3 DEF Cancel, HandlerTo
  <2>4. CASE ReceiveSecond BY <2>4 DEF ReceiveSecond, HandlerTo
  <2>5. CASE HandlerCloses
    <3>1. CASE ~closed /\ closed' = TRUE /\ HandlerTo("close", "exit")
               /\ UNCHANGED <<queued, canceled>>
      BY <3>1 DEF HandlerTo
    <3>2. CASE closed /\ Up /\ handler = "close" /\ Die(2) /\ UNCHANGED signals
      BY <3>2 DEF Die
    <3> QED BY <2>5, <3>1, <3>2 DEF HandlerCloses
  <2>6. CASE HandlerExits  BY <2>6 DEF HandlerExits, Die
  <2> QED BY <1>2, <2>1, <2>2, <2>3, <2>4, <2>5, <2>6 DEF Handler
<1>3. CASE Main
  <2>1. CASE RunSucceeds    BY <2>1 DEF RunSucceeds, MainTo
  <2>2. CASE RunFails       BY <2>2 DEF RunFails, MainTo
  <2>3. CASE ReportSucceeds BY <2>3 DEF ReportSucceeds, MainTo
  <2>4. CASE ReportFails    BY <2>4 DEF ReportFails, MainTo
  <2>5. CASE MainCloses
    <3>1. ASSUME ~closed, closed' = TRUE, UNCHANGED <<met, failed>>,
                 MainTo("close", "check") \/ MainTo("closeAndFail", "fail")
          PROVE  Inv'
      BY <3>1 DEF MainTo
    <3>2. CASE closed /\ Up /\ main \in {"close", "closeAndFail"} /\ Die(2)
               /\ UNCHANGED signals
      BY <3>2 DEF Die
    <3> QED BY <2>5, <3>1, <3>2 DEF MainCloses
  <2>6. CASE MainFails      BY <2>6 DEF MainFails, Die
  <2>7. CASE Check          BY <2>7 DEF Check, StatusOf, Die
  <2>8. CASE RunPanics      BY <2>8 DEF RunPanics, Die
  <2> QED BY <1>3, <2>1, <2>2, <2>3, <2>4, <2>5, <2>6, <2>7, <2>8 DEF Main, Run
<1>4. CASE Terminating \/ UNCHANGED vars
  BY <1>4 DEF Terminating, vars
<1> QED BY <1>1, <1>2, <1>3, <1>4 DEF Next

(* A command that exits with status 0 has run, has reported, and has found *)
(* none of the conditions it was to fail on.                               *)
THEOREM ZeroIsGood == Spec => []ZeroMeansGood
<1>1. Inv => ZeroMeansGood
  BY DEF Inv, Verdicts, ZeroMeansGood
<1> QED BY <1>1, InvInit, InvStep, PTL DEF Spec

(* One that exits with status 1 has failed, has found such a condition, or *)
(* was interrupted twice: never by its own closing of the channel.         *)
THEOREM OneIsCaused == Spec => []OneHasACause
<1>1. Inv => OneHasACause
  BY DEF Inv, Verdicts
<1> QED BY <1>1, InvInit, InvStep, PTL DEF Spec

(***************************************************************************)
(* The command implements Execute.                                         *)
(***************************************************************************)

(* What the results meet are conditions that results may meet.             *)
LEMMA RunReturnsIsRun == RunReturns => Run
<1> SUFFICES ASSUME RunReturns PROVE Run
  OBVIOUS
<1>1. CASE error /\ RunFails
  BY <1>1 DEF Run
<1>2. CASE RunSucceeds
  BY <1>2 DEF Run
<1> QED BY <1>1, <1>2 DEF RunReturns

(* Every step of the command is one of Execute, or none.                   *)
LEMMA StepOfExecute == [CommandNext]_allVars => [Next]_vars
<1> SUFFICES ASSUME [CommandNext]_allVars PROVE [Next]_vars
  OBVIOUS
<1>1. CASE SignalStep \/ HandlerStep
  BY <1>1 DEF SignalStep, HandlerStep, Next
<1>2. CASE MainStep
  <2>1. CASE RunStep       BY <2>1 DEF RunStep
  <2>2. CASE WorkersEnd    BY <2>2 DEF WorkersEnd
  <2>3. CASE RunReturns    BY <2>3, RunReturnsIsRun DEF Next, Main
  <2>4. CASE ReportStep    BY <2>4 DEF ReportStep
  <2>5. CASE ReportReturns BY <2>5 DEF ReportReturns, Next, Main
  <2>6. CASE EndStep       BY <2>6 DEF EndStep, Next, Main
  <2> QED BY <1>2, <2>1, <2>2, <2>3, <2>4, <2>5, <2>6 DEF MainStep
<1>3. CASE HelperStep \/ ClockOrClient
  BY <1>3 DEF HelperStep, ClockOrClient
<1>4. CASE \E w \in Workers : WorkerStep(w)
  BY <1>4 DEF WorkerStep
<1>5. CASE CommandEnds \/ UNCHANGED allVars
  BY <1>5 DEF CommandEnds, allVars
<1>6. CASE WorkerPanics
  BY <1>6 DEF WorkerPanics, Next, Main, Run
<1> QED BY <1>1, <1>2, <1>3, <1>4, <1>5, <1>6 DEF CommandNext

(* The command with its parts behaves as Execute has it: Run is one step   *)
(* that succeeds, fails or panics, and PrintReport one that succeeds or    *)
(* fails.                                                                  *)
THEOREM CommandIsExecute == CommandSpec => Spec
<1>1. CommandInit => Init
  BY DEF CommandInit
<1> QED BY <1>1, StepOfExecute, PTL DEF CommandSpec, Spec

(* Where the main goroutine is in Execute goes along with its conditions.  *)
LEMMA InvHolds == CommandSpec => []Inv
<1> QED BY CommandIsExecute, InvInit, InvStep, PTL DEF Spec

(***************************************************************************)
(* What Run has set up is undone.                                          *)
(***************************************************************************)

Due(call) == \E k \in 1..Len(deferred) : deferred[k] = call

(* A server that was started has had its Shutdown, or one is due; so has a *)
(* log file its Close.  Nothing is due when Run has returned.              *)
Undone ==
  /\ \A s \in Servers : server[s] # "none" => s \in down \/ Due(s)
  /\ \A s \in down : server[s] # "serving"
  /\ \A s \in scraped : Due(s) \/ canceled
  /\ logFile = "open" => Due("log")
  /\ stage = "returned" => deferred = << >>

(* Before it is set up there is nothing to undo.                           *)
NothingYet ==
  stage = "init" =>
    /\ \A s \in Servers : server[s] = "none"
    /\ down = {} /\ scraped = {} /\ logFile = "none"

LifeInv == Lifecycle!TypeOK /\ Undone /\ NothingYet

LifeStep ==
  \/ Lifecycle!BeforeWorkers \/ Lifecycle!WorkersGone
  \/ Lifecycle!Unwind \/ Lifecycle!Return
  \/ Lifecycle!Helpers \/ Lifecycle!Expire \/ Lifecycle!Clients

(* Once cancelled, the context stays so.                                   *)
LEMMA CancelStays == [Next]_vars /\ canceled => canceled'
<1> SUFFICES ASSUME [Next]_vars, canceled PROVE canceled'
  OBVIOUS
<1>1. CASE Signal
  BY <1>1 DEF Signal, Die
<1>2. CASE Handler
  BY <1>2 DEF Handler, ReceiveFirst, FirstClosed, Cancel, ReceiveSecond,
              HandlerCloses, HandlerExits, HandlerTo, Die
<1>3. CASE Main
  BY <1>3 DEF Main, Run, RunSucceeds, RunFails, ReportSucceeds, ReportFails,
              MainCloses, MainFails, Check, RunPanics, MainTo, Die
<1>4. CASE Terminating \/ UNCHANGED vars
  BY <1>4 DEF Terminating, vars
<1> QED BY <1>1, <1>2, <1>3, <1>4 DEF Next

(* A step of the command is a step of Run around its workers, or it leaves *)
(* what Run has set up alone.                                              *)
LEMMA StepOfLife ==
  ASSUME [CommandNext]_allVars
  PROVE  \/ LifeStep /\ canceled' = canceled
         \/ UNCHANGED lifecycle /\ (canceled => canceled')
<1>0. canceled => canceled'
  BY StepOfExecute, CancelStays
<1>1. CASE SignalStep \/ HandlerStep
  BY <1>0, <1>1 DEF SignalStep, HandlerStep
<1>2. CASE MainStep
  <2>1. CASE RunStep       BY <2>1 DEF RunStep, LifeStep, vars
  <2>2. CASE WorkersEnd    BY <2>2 DEF WorkersEnd, LifeStep, vars
  <2>3. CASE RunReturns
    BY <2>3 DEF RunReturns, LifeStep, RunFails, RunSucceeds, MainTo
  <2>4. CASE ReportStep    BY <1>0, <2>4 DEF ReportStep
  <2>5. CASE ReportReturns BY <1>0, <2>5 DEF ReportReturns
  <2>6. CASE EndStep       BY <1>0, <2>6 DEF EndStep
  <2> QED BY <1>2, <2>1, <2>2, <2>3, <2>4, <2>5, <2>6 DEF MainStep
<1>3. CASE HelperStep \/ ClockOrClient
  BY <1>3 DEF HelperStep, ClockOrClient, LifeStep, vars
<1>4. CASE \E w \in Workers : WorkerStep(w)
  BY <1>0, <1>4 DEF WorkerStep
<1>5. CASE CommandEnds \/ UNCHANGED allVars
  BY <1>0, <1>5 DEF CommandEnds, allVars
<1>6. CASE WorkerPanics
  BY <1>0, <1>6 DEF WorkerPanics
<1> QED BY <1>1, <1>2, <1>3, <1>4, <1>5, <1>6 DEF CommandNext

(* What is due stays due when another call is made,                        *)
LEMMA OthersStayDue ==
  ASSUME NEW S, deferred \in Seq(S), deferred # << >>, deferred' = Tail(deferred),
         NEW call, call # Head(deferred), Due(call)
  PROVE  Due(call)'
<1>1. PICK k \in 1..Len(deferred) : deferred[k] = call
  BY DEF Due
<1>2. k # 1
  BY <1>1
<1>3. k - 1 \in 1..Len(deferred') /\ deferred'[k - 1] = call
  BY <1>1, <1>2
<1> QED BY <1>3 DEF Due

(* and when calls are deferred after it.                                   *)
LEMMA StaysDueBelow ==
  ASSUME NEW S, deferred \in Seq(S), NEW more \in Seq(S),
         deferred' = more \o deferred, NEW call, Due(call)
  PROVE  Due(call)'
<1>1. PICK k \in 1..Len(deferred) : deferred[k] = call
  BY DEF Due
<1>2. Len(more) + k \in 1..Len(deferred') /\ deferred'[Len(more) + k] = call
  BY <1>1
<1> QED BY <1>2 DEF Due

(* At the start there is nothing to undo,                                  *)
LEMMA LifeInit == CommandInit => LifeInv
<1> SUFFICES ASSUME CommandInit PROVE LifeInv
  OBVIOUS
<1>1. Lifecycle!Parameters
  BY CommandAssumption
<1>2. Lifecycle!TypeOK
  <2>1. Sources \in Nat
    BY <1>1 DEF Lifecycle!Parameters
  <2>2. << >> \in Seq(Servers \union {"ticker", "timeout", "log"})
    OBVIOUS
  <2>3. canceled = FALSE
    BY DEF CommandInit, Init
  <2>4. /\ source \in 0..Sources /\ loaded = {} /\ error = FALSE
        /\ stage = "init" /\ logFile = "none" /\ timeout = "none" /\ ticker = "none"
        /\ deferred = << >> /\ down = {} /\ scraped = {}
        /\ server = [s \in Servers |-> "none"]
    BY <2>1 DEF CommandInit, Lifecycle!Init
  <2> QED BY <2>2, <2>3, <2>4 DEF Lifecycle!TypeOK
<1>3. Undone /\ NothingYet
  BY DEF CommandInit, Init, Lifecycle!Init, Undone, NothingYet
<1> QED BY <1>2, <1>3 DEF LifeInv

Calls == Servers \union {"ticker", "timeout", "log"}

(* What If makes of a call is a sequence of calls.                         *)
LEMMA OneCall ==
  ASSUME NEW call \in Calls
  PROVE  <<call>> \in Seq(Calls) /\ << >> \in Seq(Calls)
<1> QED OBVIOUS

(* Two sequences of calls, one after the other.                            *)
LEMMA CallsAfterCalls ==
  ASSUME NEW s \in Seq(Calls), NEW t \in Seq(Calls)
  PROVE  /\ s \o t \in Seq(Calls) /\ Len(s \o t) = Len(s) + Len(t)
         /\ \A i \in 1..Len(s) : (s \o t)[i] = s[i]
         /\ \A i \in 1..Len(t) : (s \o t)[Len(s) + i] = t[i]
<1> HIDE DEF Calls
<1> QED OBVIOUS

(* The calls that SetUp defers.                                            *)
LEMMA SetUpDefers ==
  ASSUME Lifecycle!Parameters, Lifecycle!DeferSetUp
  PROVE  /\ deferred' \in Seq(Calls)
         /\ \A s \in Servers : Due(s)'
         /\ RequestLog => Due("log")'
<1> DEFINE f == Lifecycle!If("pprof" \in Servers, "pprof")
           p == Lifecycle!If("prometheus" \in Servers, "prometheus")
           l == Lifecycle!If(RequestLog, "log")
<1>1. f \in Seq(Calls) /\ p \in Seq(Calls) /\ l \in Seq(Calls)
  <2>1. << >> \in Seq(Calls)
    OBVIOUS
  <2>2. "pprof" \in Servers => <<"pprof">> \in Seq(Calls)
    BY OneCall DEF Calls
  <2>3. "prometheus" \in Servers => <<"prometheus">> \in Seq(Calls)
    BY OneCall DEF Calls
  <2>4. <<"log">> \in Seq(Calls)
    BY OneCall DEF Calls
  <2> QED BY <2>1, <2>2, <2>3, <2>4 DEF Lifecycle!If
<1>2. deferred' = (f \o p) \o l
  BY DEF Lifecycle!DeferSetUp
<1>3. /\ "pprof" \in Servers => Len(f) = 1 /\ f[1] = "pprof"
      /\ "prometheus" \in Servers => Len(p) = 1 /\ p[1] = "prometheus"
      /\ RequestLog => Len(l) = 1 /\ l[1] = "log"
  BY DEF Lifecycle!If
<1> HIDE DEF f, p, l
<1> Len(f) \in Nat /\ Len(p) \in Nat /\ Len(l) \in Nat
  BY <1>1
<1> HIDE DEF Calls
<1> DEFINE fp == f \o p
<1>10. /\ fp \in Seq(Calls) /\ Len(fp) = Len(f) + Len(p)
       /\ \A i \in 1..Len(f) : fp[i] = f[i]
       /\ \A i \in 1..Len(p) : fp[Len(f) + i] = p[i]
  BY <1>1, CallsAfterCalls
<1>8. deferred' = fp \o l
  BY <1>2
<1> HIDE DEF fp
<1>9. /\ deferred' \in Seq(Calls) /\ Len(deferred') = Len(fp) + Len(l)
      /\ \A i \in 1..Len(fp) : deferred'[i] = fp[i]
      /\ \A i \in 1..Len(l) : deferred'[Len(fp) + i] = l[i]
  <2>1. fp \in Seq(Calls) /\ l \in Seq(Calls)
    BY <1>1, <1>10
  <2> QED BY <1>8, <2>1, CallsAfterCalls
<1>4. deferred' \in Seq(Calls) /\ Len(deferred') = Len(f) + Len(p) + Len(l)
  BY <1>10, <1>9
<1> /\ \A i \in 1..Len(f) : deferred'[i] = f[i]
    /\ \A i \in 1..Len(p) : deferred'[Len(f) + i] = p[i]
    /\ \A i \in 1..Len(l) : deferred'[Len(f) + Len(p) + i] = l[i]
  <2>1. \A i \in 1..Len(f) : i \in 1..Len(fp)
    BY <1>10
  <2>2. \A i \in 1..Len(p) : Len(f) + i \in 1..Len(fp)
    BY <1>10
  <2>3. \A i \in 1..Len(f) : deferred'[i] = f[i]
    BY <1>10, <1>9, <2>1
  <2>4. ASSUME NEW i \in 1..Len(p) PROVE deferred'[Len(f) + i] = p[i]
    <3>1. fp[Len(f) + i] = p[i]
      BY <1>10
    <3>2. deferred'[Len(f) + i] = fp[Len(f) + i]
      BY <1>9, <2>2
    <3> QED BY <3>1, <3>2
  <2>5. \A i \in 1..Len(l) : deferred'[Len(f) + Len(p) + i] = l[i]
    BY <1>10, <1>9
  <2> QED BY <2>3, <2>4, <2>5
<1>5. ASSUME "pprof" \in Servers PROVE Due("pprof")'
  <2>1. 1 \in 1..Len(f) /\ 1 \in 1..Len(deferred')
    <3>1. Len(f) = 1
      BY ONLY <1>3, <1>5
    <3> QED BY <3>1, <1>4
  <2> QED BY <1>3, <1>5, <2>1 DEF Due
<1>6. ASSUME "prometheus" \in Servers PROVE Due("prometheus")'
  <2>1. 1 \in 1..Len(p) /\ Len(f) + 1 \in 1..Len(deferred')
    <3>1. Len(p) = 1
      BY ONLY <1>3, <1>6
    <3> QED BY <3>1, <1>4
  <2> QED BY <1>3, <1>6, <2>1 DEF Due
<1>7. ASSUME RequestLog PROVE Due("log")'
  <2>1. 1 \in 1..Len(l) /\ Len(f) + Len(p) + 1 \in 1..Len(deferred')
    <3>1. Len(l) = 1
      BY ONLY <1>3, <1>7
    <3> QED BY <3>1, <1>4
  <2> QED BY <1>3, <1>7, <2>1 DEF Due
<1> QED BY <1>4, <1>5, <1>6, <1>7 DEF Lifecycle!Parameters

(* every step of Run and of its helpers preserves the invariant,           *)
LEMMA LifeInvStep ==
  ASSUME LifeInv, LifeStep, canceled' = canceled, canceled \in BOOLEAN
  PROVE  LifeInv'
<1>0. /\ Lifecycle!Parameters
      /\ Sources \in Nat /\ Servers \subseteq {"prometheus", "pprof"}
      /\ deferred \in Seq(Calls)
  BY CommandAssumption DEF Lifecycle!Parameters, LifeInv, Lifecycle!TypeOK, Calls
<1> USE DEF LifeInv, Lifecycle!setup, Lifecycle!servers, Lifecycle!timing
<1>1. CASE Lifecycle!SetUpFails
  BY <1>1 DEF Lifecycle!SetUpFails, Lifecycle!ReturnWith, Lifecycle!TypeOK, Undone,
              NothingYet, Due
<1>2. CASE Lifecycle!SetUp
  <2>1. /\ deferred' \in Seq(Calls) /\ \A s \in Servers : Due(s)'
        /\ RequestLog => Due("log")'
    BY <1>0, <1>2, SetUpDefers DEF Lifecycle!SetUp
  <2>2. Lifecycle!TypeOK'
    BY <1>0, <1>2, <2>1 DEF Lifecycle!SetUp, Lifecycle!TypeOK, Calls
  <2>3. Undone' /\ NothingYet'
    BY <1>0, <1>2, <2>1 DEF Lifecycle!SetUp, Undone, NothingYet
  <2> QED BY <2>2, <2>3
<1>3. CASE Lifecycle!ReadSource
  <2>1. source + 1 \in 0..Sources /\ source + 1 \in 1..Sources
    BY <1>0, <1>3 DEF Lifecycle!ReadSource, Lifecycle!TypeOK
  <2> QED BY <1>3, <2>1 DEF Lifecycle!ReadSource, Lifecycle!TypeOK, Undone, NothingYet, Due
<1>4. CASE Lifecycle!DownloadFails \/ Lifecycle!WorkersGone
  <2>1. /\ stage' = "unwind" /\ stage # "init" /\ stage # "returned" /\ error' \in BOOLEAN
        /\ UNCHANGED <<deferred, source, loaded, logFile, server, down, scraped,
                       timeout, ticker>>
    BY <1>4 DEF Lifecycle!DownloadFails, Lifecycle!WorkersGone, Lifecycle!ReturnWith
  <2> QED BY <2>1 DEF Lifecycle!TypeOK, Undone, NothingYet, Due
<1>5. CASE Lifecycle!StartWorkers
  <2> DEFINE more == Lifecycle!If(Ticking, "ticker") \o Lifecycle!If(Timed, "timeout")
  <2>1. more \in Seq(Calls)
    <3>1. << >> \in Seq(Calls) /\ <<"ticker">> \in Seq(Calls) /\ <<"timeout">> \in Seq(Calls)
      BY OneCall DEF Calls
    <3>2. /\ Lifecycle!If(Ticking, "ticker") \in Seq(Calls)
          /\ Lifecycle!If(Timed, "timeout") \in Seq(Calls)
      BY <3>1 DEF Lifecycle!If
    <3> QED BY <3>2
  <2>2. deferred' = more \o deferred /\ deferred' \in Seq(Calls)
    BY <1>0, <1>5, <2>1 DEF Lifecycle!StartWorkers
  <2> HIDE DEF more
  <2>3. \A call : Due(call) => Due(call)'
    BY <1>0, <2>1, <2>2, StaysDueBelow
  <2>4. Lifecycle!TypeOK'
    BY <1>5, <2>2 DEF Lifecycle!StartWorkers, Lifecycle!TypeOK, Calls
  <2>5. Undone' /\ NothingYet'
    BY <1>5, <2>3 DEF Lifecycle!StartWorkers, Undone, NothingYet
  <2> QED BY <2>4, <2>5
<1>6. CASE Lifecycle!Unwind
  <2>0. ASSUME NEW c, Lifecycle!Calls(c), Lifecycle!Pop
        PROVE  /\ deferred' \in Seq(Calls) /\ stage' = "unwind" /\ stage = "unwind"
               /\ error' = error
               /\ \A call : call # c /\ Due(call) => Due(call)'
    <3>1. /\ deferred # << >> /\ Head(deferred) = c /\ deferred' = Tail(deferred)
          /\ deferred' \in Seq(Calls)
      BY <1>0, <2>0 DEF Lifecycle!Calls, Lifecycle!Pop
    <3>2. \A call : call # c /\ Due(call) => Due(call)'
      BY <1>0, <3>1, OthersStayDue
    <3> QED BY <2>0, <3>1, <3>2 DEF Lifecycle!Calls, Lifecycle!Pop
  <2>1. CASE Lifecycle!StopTicker
    BY <1>0, <2>0, <2>1 DEF Lifecycle!StopTicker, Lifecycle!TypeOK, Undone, NothingYet, Calls
  <2>2. CASE Lifecycle!ReleaseTimeout
    BY <1>0, <2>0, <2>2 DEF Lifecycle!ReleaseTimeout, Lifecycle!TypeOK, Undone, NothingYet,
                            Calls
  <2>3. CASE Lifecycle!CloseLog
    BY <1>0, <2>0, <2>3 DEF Lifecycle!CloseLog, Lifecycle!TypeOK, Undone, NothingYet, Calls
  <2>4. ASSUME NEW s \in Servers, Lifecycle!Shutdown(s) PROVE LifeInv'
    BY <2>4 DEF Lifecycle!Shutdown, Lifecycle!Calls, Lifecycle!TypeOK, Undone, NothingYet,
                Due
  <2>5. ASSUME NEW s \in Servers, Lifecycle!ShutdownReturns(s) PROVE LifeInv'
    BY <1>0, <2>0, <2>5 DEF Lifecycle!ShutdownReturns, Lifecycle!TypeOK, Undone, NothingYet,
                            Calls
  <2> QED BY <1>6, <2>1, <2>2, <2>3, <2>4, <2>5 DEF Lifecycle!Unwind
<1>7. CASE Lifecycle!Return
  BY <1>7 DEF Lifecycle!Return, Lifecycle!TypeOK, Undone, NothingYet, Due
<1>8. CASE Lifecycle!TickerEnds
  BY <1>8 DEF Lifecycle!TickerEnds, Lifecycle!TypeOK, Undone, NothingYet, Due
<1>9. ASSUME NEW s \in Servers, Lifecycle!Listen(s) \/ Lifecycle!Serve(s)
      PROVE  LifeInv'
  <2>1. /\ server' \in [Servers -> {"none", "starting", "bound", "failed", "serving", "ended"}]
        /\ server[s] # "none"
        /\ \A r \in Servers \ {s} : server'[r] = server[r]
        /\ s \in down => server'[s] # "serving"
        /\ UNCHANGED <<stage, error, deferred, source, loaded, logFile, down, scraped,
                       timeout, ticker>>
    BY <1>9 DEF Lifecycle!Listen, Lifecycle!Serve, Lifecycle!ServerTo, Lifecycle!TypeOK
  <2>2. Lifecycle!TypeOK'
    BY <1>0, <2>1 DEF Lifecycle!TypeOK
  <2>3. Undone' /\ NothingYet'
    BY <2>1 DEF Lifecycle!TypeOK, Undone, NothingYet, Due
  <2> QED BY <2>2, <2>3
<1>10. CASE Lifecycle!Expire
  BY <1>10 DEF Lifecycle!Expire, Lifecycle!TypeOK, Undone, NothingYet, Due
<1>11. ASSUME NEW s \in Servers, Lifecycle!Scrape(s) \/ Lifecycle!ScrapeEnds(s)
       PROVE  LifeInv'
  <2>1. /\ scraped' \subseteq Servers /\ \A r \in scraped' \ scraped : server[r] = "serving"
        /\ UNCHANGED <<stage, error, deferred, source, loaded, logFile, server, down,
                       timeout, ticker>>
    BY <1>11 DEF Lifecycle!Scrape, Lifecycle!ScrapeEnds, Lifecycle!TypeOK
  <2>2. Lifecycle!TypeOK'
    BY <1>0, <2>1 DEF Lifecycle!TypeOK
  <2>3. Undone' /\ NothingYet'
    BY <1>11, <2>1 DEF Lifecycle!Scrape, Lifecycle!ScrapeEnds, Lifecycle!TypeOK, Undone,
                       NothingYet, Due
  <2> QED BY <2>2, <2>3
<1> QED BY <1>1, <1>2, <1>3, <1>4, <1>5, <1>6, <1>7, <1>8, <1>9, <1>10, <1>11
           DEF LifeStep, Lifecycle!BeforeWorkers, Lifecycle!Helpers, Lifecycle!Clients

(* and so does every step of the command.                                  *)
LEMMA LifeInvStays == Inv /\ LifeInv /\ [CommandNext]_allVars => LifeInv'
<1> SUFFICES ASSUME Inv, LifeInv, [CommandNext]_allVars PROVE LifeInv'
  OBVIOUS
<1>1. CASE LifeStep /\ canceled' = canceled
  BY <1>1, LifeInvStep DEF Inv, TypeOK
<1>2. CASE UNCHANGED lifecycle /\ (canceled => canceled')
  <2>1. Undone' /\ NothingYet'
    BY <1>2 DEF LifeInv, lifecycle, Undone, NothingYet, Due
  <2>2. canceled' \in BOOLEAN
    BY StepOfExecute, InvStep DEF Inv, TypeOK
  <2>3. Lifecycle!TypeOK'
    BY <1>2, <2>2 DEF LifeInv, lifecycle, Lifecycle!TypeOK
  <2> QED BY <2>1, <2>3 DEF LifeInv
<1> QED BY <1>1, <1>2, StepOfLife

(* However Run returns, by an error before its workers started, after all  *)
(* of them, or early because it was interrupted: no server of it answers   *)
(* any more, the log is closed, and no client was cut off without an       *)
(* interrupt.                                                              *)
THEOREM RunLeavesNothingOpen == CommandSpec => []NothingServedAfterRun
<1>1. LifeInv => NothingServedAfterRun
  <2> SUFFICES ASSUME LifeInv, stage = "returned"
               PROVE  /\ \A s \in Servers : server[s] # "serving"
                      /\ logFile # "open" /\ (scraped # {} => canceled)
    BY DEF NothingServedAfterRun
  <2>1. \A call : ~Due(call)
    BY DEF LifeInv, Undone, Due
  <2> QED BY <2>1 DEF LifeInv, Undone, Lifecycle!TypeOK
<1> QED BY <1>1, InvHolds, LifeInit, LifeInvStays, PTL DEF CommandSpec

(***************************************************************************)
(* What is reported is what the workers have recorded.                     *)
(***************************************************************************)

(* How far Run is goes along with the books of its workers, and where the  *)
(* caller is with whether Run has returned an error.                       *)
Handed ==
  /\ main = "run" <=> stage # "returned"
  /\ stage \in {"init", "questions", "workers"} => ~error /\ (Up => phase = "running")
  /\ stage \in {"unwind", "returned"} /\ ~error => phase = "delivered"
  /\ phase = "delivered" => gone = Workers
  /\ main = "report" => ~error
  /\ step # "merge" => main # "run" /\ phase = "delivered" /\ merged = Totals
  /\ loaded = 1..source
  /\ stage \in {"workers", "unwind", "returned"} /\ ~error => source = Sources

(* It holds before the command has done anything.                          *)
LEMMA HandedInit == CommandInit => Handed
<1> QED BY DEF CommandInit, Init, Lifecycle!Init, Printing!Init, Handed

(* Merge reads the books when they are closed; nobody writes them later.   *)
LEMMA HandedStays == LifeInv /\ Handed /\ [CommandNext]_allVars => Handed'
<1> SUFFICES ASSUME LifeInv, Handed, [CommandNext]_allVars PROVE Handed'
  OBVIOUS
<1> USE DEF Up
<1>0. /\ error \in BOOLEAN /\ source \in Nat
      /\ stage \in {"init", "questions", "workers", "unwind", "returned"}
  BY DEF LifeInv, Lifecycle!TypeOK
<1>1. ASSUME UNCHANGED book PROVE Totals' = Totals
  BY <1>1 DEF Totals
<1>2. CASE SignalStep
  BY <1>1, <1>2 DEF SignalStep, Signal, Die, Handed, books, lifecycle, printing
<1>3. CASE HandlerStep
  <2>1. main' = main
    BY <1>3 DEF HandlerStep, Handler, ReceiveFirst, FirstClosed, Cancel, ReceiveSecond,
                HandlerCloses, HandlerExits, HandlerTo, Die
  <2>2. Up
    BY <1>3 DEF HandlerStep, Handler, ReceiveFirst, FirstClosed, Cancel, ReceiveSecond,
                HandlerCloses, HandlerExits, HandlerTo
  <2> QED BY <1>1, <1>3, <2>1, <2>2 DEF HandlerStep, Handed, books, lifecycle, printing
<1>4. CASE RunStep
  <2>1. UNCHANGED <<main, exit, book, gone, phase, step, merged>> /\ main = "run"
    BY <1>4 DEF RunStep, vars, books, printing
  <2>2. CASE Lifecycle!SetUp \/ Lifecycle!SetUpFails \/ Lifecycle!DownloadFails
    BY <1>0, <1>1, <2>1, <2>2 DEF Lifecycle!SetUp, Lifecycle!SetUpFails,
       Lifecycle!DownloadFails, Lifecycle!ReturnWith, Lifecycle!setup, Handed
  <2>3. CASE Lifecycle!ReadSource
    <3>1. loaded' = 1..source'
      <4>1. loaded' = 1..source \union {source + 1} /\ source' = source + 1
        BY <2>3 DEF Lifecycle!ReadSource, Handed
      <4> QED BY <1>0, <4>1
    <3>2. UNCHANGED <<stage, error>> /\ stage = "questions"
      BY <2>3 DEF Lifecycle!ReadSource
    <3> QED BY <1>1, <2>1, <3>1, <3>2 DEF Handed
  <2>4. CASE Lifecycle!StartWorkers
    BY <1>1, <2>1, <2>4 DEF Lifecycle!StartWorkers, Lifecycle!setup, Handed
  <2>5. CASE Lifecycle!Unwind
    <3>1. UNCHANGED <<stage, error, source, loaded>> /\ stage = "unwind"
      BY <2>5 DEF Lifecycle!Unwind, Lifecycle!StopTicker, Lifecycle!ReleaseTimeout,
         Lifecycle!CloseLog, Lifecycle!Shutdown, Lifecycle!ShutdownReturns,
         Lifecycle!Calls, Lifecycle!Pop, Lifecycle!setup
    <3> QED BY <1>0, <1>1, <2>1, <3>1 DEF Handed
  <2> QED BY <1>4, <2>2, <2>3, <2>4, <2>5 DEF RunStep, Lifecycle!BeforeWorkers
<1>5. CASE \E w \in Workers : WorkerStep(w)
  <2>1. /\ UNCHANGED <<main, exit, stage, error, source, loaded, step, merged>>
        /\ Up /\ stage = "workers"
    BY <1>5 DEF WorkerStep, vars, lifecycle, printing
  <2>2. phase' = phase
    BY <1>5 DEF WorkerStep, Ledger!Close, Ledger!Book
  <2> QED BY <2>1, <2>2 DEF Handed
<1>6. CASE WorkersEnd
  BY <1>1, <1>6 DEF WorkersEnd, Lifecycle!WorkersGone, Lifecycle!ReturnWith,
     Ledger!Deliver, Ledger!End, Lifecycle!setup, Handed, vars, printing
<1>7. CASE RunReturns
  <2>1. /\ stage = "unwind" /\ stage' = "returned" /\ error' = error
        /\ UNCHANGED <<book, gone, phase, step, merged, source, loaded>>
        /\ main = "run" /\ main' = IF error THEN "closeAndFail" ELSE "report"
    BY <1>7 DEF RunReturns, Lifecycle!Return, Lifecycle!setup, RunFails, RunSucceeds, MainTo, books, printing
  <2> QED BY <1>0, <1>1, <2>1 DEF Handed
<1>8. CASE ReportStep
  <2>1. UNCHANGED <<main, stage, error, source, loaded, book, gone, phase>> /\ main = "report"
    BY <1>8 DEF ReportStep, vars, books, lifecycle
  <2>2. CASE Printing!Merge(Totals)
    BY <1>1, <2>1, <2>2 DEF Printing!Merge, Handed
  <2>3. CASE Printing!Next
    <3>1. step # "merge" /\ step' # "merge" /\ merged' = merged
      BY <2>3 DEF Printing!Next, Printing!MakeDirectory, Printing!Draw, Printing!Complain,
                  Printing!AfterPlot, Printing!ExportCsv, Printing!PrintOut
    <3> QED BY <1>1, <2>1, <3>1 DEF Handed
  <2> QED BY <1>8, <2>2, <2>3 DEF ReportStep
<1>9. CASE ReportReturns
  BY <1>1, <1>9 DEF ReportReturns, ReportSucceeds, ReportFails, MainTo, Handed,
                    books, lifecycle, printing
<1>10. CASE EndStep
  <2>1. main # "run" /\ main' # "run" /\ (main' = "report" => main = "report")
    BY <1>10 DEF EndStep, MainCloses, MainFails, Check, MainTo, Die
  <2> QED BY <1>1, <1>10, <2>1 DEF EndStep, Handed, books, lifecycle, printing
<1>11. CASE HelperStep \/ ClockOrClient
  <2>1. UNCHANGED <<stage, error, source, loaded>>
    BY <1>11 DEF HelperStep, ClockOrClient, Lifecycle!Helpers, Lifecycle!TickerEnds,
       Lifecycle!Listen, Lifecycle!Serve, Lifecycle!ServerTo, Lifecycle!Expire,
       Lifecycle!Clients, Lifecycle!Scrape, Lifecycle!ScrapeEnds, Lifecycle!setup
  <2> QED BY <1>1, <1>11, <2>1 DEF HelperStep, ClockOrClient, Handed, vars, books, printing
<1>12. CASE CommandEnds \/ UNCHANGED allVars
  BY <1>1, <1>12 DEF CommandEnds, allVars, vars, books, lifecycle, printing, Handed
<1>13. CASE WorkerPanics
  <2>1. /\ stage = "workers" /\ main = "run" /\ main' = main /\ exit' = 2 /\ phase' = "crashed"
        /\ UNCHANGED <<stage, error, source, loaded, book, gone, step, merged>>
    BY <1>13 DEF WorkerPanics, RunPanics, Die, Ledger!Crash, Ledger!End, lifecycle, printing
  <2> QED BY <1>1, <2>1 DEF Handed
<1> QED BY <1>2, <1>3, <1>4, <1>5, <1>6, <1>7, <1>8, <1>9, <1>10, <1>11, <1>12, <1>13
           DEF CommandNext, MainStep

(* Whether the workers ended by themselves, by the time limit or by an     *)
(* interrupt, a report sums up all that they have recorded.                *)
THEOREM ReportIsOfWholeRun == CommandSpec => []ReportOfWholeRun
<1>1. LifeInv /\ Handed => ReportOfWholeRun
  BY DEF Handed, ReportOfWholeRun, LifeInv, Lifecycle!TypeOK
<1> QED BY <1>1, InvHolds, LifeInit, LifeInvStays, HandedInit, HandedStays, PTL
           DEF CommandSpec

(***************************************************************************)
(* Who is told that all went well has got everything.                      *)
(***************************************************************************)

(* How far PrintReport is goes along with what it has made.                *)
Outputs ==
  /\ asked \in Wishes /\ drawn \in 0..Len(Plots)
  /\ \A k \in 1..drawn : Plots[k] \in made \union complained \/ ~Printing!HasData(Plots[k])
  /\ step \in {"merge", "directory"} => drawn = 0
  /\ step = "merge" => made = {}
  /\ step \in {"csv", "print", "done"} /\ "plots" \in asked => drawn = Len(Plots)
  /\ step \in {"print", "done"} /\ "csv" \in asked => "csv" \in made
  /\ step = "done" /\ "text" \in asked => "text" \in made
  /\ "text" \in made => step = "done"
  /\ main \in {"close", "check"} => step = "done"

(* Nothing is made before PrintReport starts.                              *)
LEMMA OutputsInit == CommandInit => Outputs
<1> SUFFICES ASSUME CommandInit PROVE Outputs
  OBVIOUS
<1>1. Len(Plots) \in Nat
  BY CommandAssumption DEF Printing!Parameters
<1> QED BY <1>1 DEF CommandInit, Init, Printing!Init, Outputs

(* PrintReport keeps to its course,                                        *)
LEMMA OutputsStep ==
  ASSUME Outputs, Printing!Merge(Totals) \/ Printing!Next, main = "report", main' = main
  PROVE  Outputs'
<1>0. /\ Plots \in Seq(STRING \ {"csv", "text"}) /\ Plots # << >> /\ Len(Plots) \in Nat
      /\ \A w \in Wishes : w \subseteq {"plots", "csv", "text"}
  BY CommandAssumption DEF Printing!Parameters
<1>1. CASE Printing!Merge(Totals)
  BY <1>1 DEF Printing!Merge, Outputs
<1>2. CASE Printing!MakeDirectory
  BY <1>2 DEF Printing!MakeDirectory, Outputs, Printing!HasData
<1>3. CASE Printing!Draw
  <2>1. /\ step = "draw" /\ drawn < Len(Plots) /\ drawn' = drawn + 1
        /\ UNCHANGED <<asked, merged>>
        /\ step' = IF drawn' = Len(Plots) THEN "csv" ELSE "draw"
    BY <1>3 DEF Printing!Draw, Printing!Complain, Printing!AfterPlot
  <2> DEFINE p == Plots[drawn + 1]
  <2>2. p # "text"
    BY <1>0, <2>1 DEF Outputs
  <2>3. \/ /\ made' = IF Printing!HasData(p) THEN made \union {p} ELSE made
           /\ complained' = complained
        \/ made' = made /\ complained' = complained \union {p}
    BY <1>3 DEF Printing!Draw, Printing!Complain
  <2> HIDE DEF p
  <2>4. "text" \notin made' /\ drawn' \in 0..Len(Plots)
    BY <1>0, <2>1, <2>2, <2>3 DEF Outputs
  <2>5. \A q : Printing!HasData(q)' = Printing!HasData(q)
    BY <2>1 DEF Printing!HasData
  <2>6. ASSUME NEW k \in 1..drawn'
        PROVE  Plots[k] \in made' \union complained' \/ ~Printing!HasData(Plots[k])
    <3>1. CASE k = drawn + 1
      BY <2>3, <3>1 DEF p
    <3>2. CASE k # drawn + 1
      <4>1. k \in 1..drawn
        BY <2>1, <3>2 DEF Outputs
      <4> QED BY <2>3, <4>1 DEF Outputs
    <3> QED BY <3>1, <3>2
  <2> QED BY <2>1, <2>4, <2>5, <2>6 DEF Outputs
<1>4. CASE Printing!ExportCsv
  BY <1>4 DEF Printing!ExportCsv, Outputs, Printing!HasData
<1>5. CASE Printing!PrintOut
  BY <1>5 DEF Printing!PrintOut, Outputs, Printing!HasData
<1> QED BY <1>1, <1>2, <1>3, <1>4, <1>5 DEF Printing!Next

(* and only its own end lets the command go on to its verdict.             *)
LEMMA OutputsStay == Outputs /\ [CommandNext]_allVars => Outputs'
<1> SUFFICES ASSUME Outputs, [CommandNext]_allVars PROVE Outputs'
  OBVIOUS
<1>0. ASSUME UNCHANGED printing, main' \in {"close", "check"} => step = "done"
      PROVE  Outputs'
  BY <1>0 DEF printing, Outputs, Printing!HasData
<1>1. CASE SignalStep
  BY <1>0, <1>1 DEF SignalStep, Signal, Die, Outputs
<1>2. CASE HandlerStep
  <2>1. main' = main
    BY <1>2 DEF HandlerStep, Handler, ReceiveFirst, FirstClosed, Cancel, ReceiveSecond,
                HandlerCloses, HandlerExits, HandlerTo, Die
  <2> QED BY <1>0, <1>2, <2>1 DEF HandlerStep, Outputs
<1>3. CASE \/ RunStep \/ WorkersEnd \/ HelperStep \/ ClockOrClient
           \/ \E w \in Workers : WorkerStep(w)
  BY <1>0, <1>3 DEF RunStep, WorkersEnd, HelperStep, ClockOrClient, WorkerStep, vars, Outputs
<1>4. CASE RunReturns
  BY <1>0, <1>4 DEF RunReturns, RunFails, RunSucceeds, MainTo
<1>5. CASE ReportStep
  BY <1>5, OutputsStep DEF ReportStep, vars
<1>6. CASE ReportReturns
  BY <1>0, <1>6 DEF ReportReturns, ReportSucceeds, ReportFails, MainTo
<1>7. CASE EndStep
  <2>1. main' \in {"close", "check"} => main \in {"close", "check"}
    BY <1>7 DEF EndStep, MainCloses, MainFails, Check, MainTo, Die
  <2> QED BY <1>0, <1>7, <2>1 DEF EndStep, Outputs
<1>8. CASE CommandEnds \/ UNCHANGED allVars
  BY <1>0, <1>8 DEF CommandEnds, allVars, vars, Outputs
<1>9. CASE WorkerPanics
  BY <1>0, <1>9 DEF WorkerPanics, RunPanics, Die
<1> QED BY <1>1, <1>2, <1>3, <1>4, <1>5, <1>6, <1>7, <1>8, <1>9 DEF CommandNext, MainStep

(* Exit status 0 promises every output that was asked for, complete but    *)
(* for plots that were complained about, and so does a report on the       *)
(* standard output.                                                        *)
THEOREM StatusZeroMeansAll == CommandSpec => []ReportedMeansAll
<1>1. ASSUME Outputs, step = "done" PROVE Printing!Complete
  <2>1. /\ Plots \in Seq(STRING \ {"csv", "text"})
        /\ \A w \in Wishes : w \subseteq {"plots", "csv", "text"}
    BY CommandAssumption DEF Printing!Parameters
  <2>2. asked \intersect {"csv", "text"} \subseteq made
    BY <1>1 DEF Outputs
  <2>3. ASSUME "plots" \in asked, NEW p \in Printing!PlotSet
        PROVE  p \in made \union complained \/ ~Printing!HasData(p)
    <3>1. PICK k \in 1..Len(Plots) : p = Plots[k]
      BY <2>1 DEF Printing!PlotSet
    <3> QED BY <1>1, <2>3, <3>1 DEF Outputs
  <2> QED BY <2>2, <2>3 DEF Printing!Complete
<1>2. Inv /\ Outputs => ReportedMeansAll
  <2> SUFFICES ASSUME Inv, Outputs, exit = 0 \/ "text" \in made PROVE step = "done"
    BY <1>1 DEF ReportedMeansAll
  <2> QED BY DEF Inv, Verdicts, Outputs
<1> QED BY <1>2, InvHolds, OutputsInit, OutputsStay, PTL DEF CommandSpec

(***************************************************************************)
(* What a panic means.                                                     *)
(***************************************************************************)

(* A panic of the command is that of a worker, whose process reports       *)
(* nothing, or comes with an interrupt.                                    *)
Panics ==
  /\ exit = 2 => signals > 0 \/ phase = "crashed"
  /\ phase = "crashed" => exit = 2 /\ Exporting /\ step = "merge"

(* The two goroutines of the command panic only when there was a signal.   *)
LEMMA OthersPanicOnSignals ==
  ASSUME Inv, [CommandNext]_allVars, ~WorkerPanics, Up, exit' = 2
  PROVE  signals' > 0
<1> USE DEF Inv, TypeOK, Up
<1>1. signals \in Nat
  BY ExecuteAssumption
<1>2. CASE SignalStep
  BY <1>1, <1>2 DEF SignalStep, Signal
<1>3. CASE HandlerStep
  <2>1. handler = "close" /\ signals' = signals
    BY <1>3 DEF HandlerStep, Handler, ReceiveFirst, FirstClosed, Cancel, ReceiveSecond,
                HandlerCloses, HandlerExits, HandlerTo, Die
  <2> QED BY <1>1, <2>1 DEF Received
<1>4. CASE EndStep
  <2>1. closed /\ main \in {"close", "closeAndFail"} /\ signals' = signals
    BY <1>4 DEF EndStep, MainCloses, MainFails, Check, StatusOf, MainTo, Die
  <2> QED BY <1>1, <2>1 DEF Closers, Received
<1>5. CASE \/ RunStep \/ WorkersEnd \/ RunReturns \/ ReportStep \/ ReportReturns
           \/ HelperStep \/ ClockOrClient \/ CommandEnds \/ UNCHANGED allVars
           \/ \E w \in Workers : WorkerStep(w)
  <2>1. exit' = exit
    BY <1>5 DEF RunStep, WorkersEnd, RunReturns, RunFails, RunSucceeds, ReportStep,
       ReportReturns, ReportSucceeds, ReportFails, MainTo, HelperStep, ClockOrClient,
       CommandEnds, WorkerStep, allVars, vars
  <2> QED BY <2>1
<1> QED BY <1>2, <1>3, <1>4, <1>5 DEF CommandNext, MainStep

(* When the process has ended nothing happens any more.                    *)
LEMMA EndIsFinal == ~Up /\ [CommandNext]_allVars => UNCHANGED allVars
BY DEF CommandNext, SignalStep, Signal, HandlerStep, Handler, ReceiveFirst, FirstClosed,
       Cancel, ReceiveSecond, HandlerCloses, HandlerExits, HandlerTo, MainStep, RunStep,
       WorkersEnd, RunReturns, RunFails, RunSucceeds, ReportStep, ReportReturns,
       ReportSucceeds, ReportFails, EndStep, MainCloses, MainFails, Check, MainTo,
       HelperStep, ClockOrClient, WorkerStep, WorkerPanics, RunPanics, CommandEnds

(* Only the panic of a worker crashes the books of the run.                *)
LEMMA PanicsStay == Inv /\ Handed /\ Panics /\ [CommandNext]_allVars => Panics'
<1> SUFFICES ASSUME Inv, Handed, Panics, [CommandNext]_allVars PROVE Panics'
  OBVIOUS
<1>1. CASE ~Up
  BY <1>1, EndIsFinal DEF Panics, allVars, vars, books, printing
<1>2. CASE WorkerPanics
  BY <1>2 DEF WorkerPanics, RunPanics, Die, Ledger!Crash, Ledger!End, printing, Handed, Panics
<1>3. CASE Up /\ ~WorkerPanics
  <2>1. exit' = 2 => signals' > 0
    BY <1>3, OthersPanicOnSignals
  <2>2. phase # "crashed"
    BY <1>3 DEF Panics, Up
  <2>3. phase' # "crashed"
    BY <1>3, <2>2 DEF CommandNext, MainStep, SignalStep, HandlerStep, RunStep, WorkersEnd,
       RunReturns, ReportStep, ReportReturns, EndStep, HelperStep, ClockOrClient, WorkerStep,
       CommandEnds, Ledger!Deliver, Ledger!End, Ledger!Close, Ledger!Book, books, allVars
  <2> QED BY <2>1, <2>3 DEF Panics
<1> QED BY <1>1, <1>2, <1>3

(* The exit status of the command, with all its parts and in whichever way *)
(* it ends, means what it should: zero is never a lie, one has a cause, and *)
(* two is an interrupt or a crash of a worker, which is never reported.    *)
THEOREM StatusOfTheCommand == CommandSpec => []StatusIsHonest
<1>1. CommandInit => Panics
  BY DEF CommandInit, Init, Panics
<1>2. CommandSpec => [](Inv /\ Handed /\ Outputs)
  BY InvHolds, LifeInit, LifeInvStays, HandedInit, HandedStays, OutputsInit, OutputsStay,
     PTL DEF CommandSpec
<1>3. CommandSpec => []Panics
  BY <1>1, <1>2, PanicsStay, PTL DEF CommandSpec
<1>4. Inv /\ Outputs /\ Panics => StatusIsHonest
  BY DEF Inv, Verdicts, Outputs, Panics, ZeroMeansGood, StatusIsHonest
<1> QED BY <1>2, <1>3, <1>4, PTL

(***************************************************************************)
(* All parts keep their types together.                                    *)
(***************************************************************************)

(* The books of the workers and what is reported, which is their sum.      *)
Counted ==
  /\ book \in [Workers -> [Outcomes -> Nat]]
  /\ tail \in [Workers -> {0, 1}]
  /\ gone \subseteq Workers
  /\ phase \in {"running", "delivered", "crashed"}
  /\ Printing!TypeOK

(* What the workers have counted adds up to numbers.                       *)
LEMMA TotalsType ==
  ASSUME book \in [Workers -> [Outcomes -> Nat]]
  PROVE  Totals \in [Outcomes -> Nat]
<1> SUFFICES ASSUME NEW o \in Outcomes
             PROVE  SumFunction([w \in Workers |-> book[w][o]]) \in Nat
  BY DEF Totals
<1>1. [w \in Workers |-> book[w][o]] \in [Workers -> Nat]
  OBVIOUS
<1> QED BY <1>1, SumType, CommandAssumption

(* Before anything is counted,                                             *)
LEMMA CountedInit == CommandInit => Counted
<1> SUFFICES ASSUME CommandInit PROVE Counted
  OBVIOUS
<1>1. Len(Plots) \in Nat
  BY CommandAssumption DEF Printing!Parameters
<1>2. drawn \in 0..Len(Plots)
  BY <1>1 DEF CommandInit, Printing!Init
<1> QED BY <1>2 DEF CommandInit, Printing!Init, Counted, Printing!TypeOK

(* and with every step of PrintReport                                      *)
LEMMA PrintedStep ==
  ASSUME Counted, Printing!Merge(Totals) \/ Printing!Next
  PROVE  Printing!TypeOK'
<1>0. Plots \in Seq(STRING \ {"csv", "text"}) /\ Len(Plots) \in Nat
  BY CommandAssumption DEF Printing!Parameters
<1>1. CASE Printing!Merge(Totals)
  BY <1>1, TotalsType DEF Printing!Merge, Counted, Printing!TypeOK
<1>2. CASE Printing!MakeDirectory
  BY <1>2 DEF Printing!MakeDirectory, Counted, Printing!TypeOK
<1>3. CASE Printing!Draw
  <2>1. /\ drawn < Len(Plots) /\ drawn' = drawn + 1 /\ UNCHANGED <<asked, merged>>
        /\ step' \in {"csv", "draw"}
        /\ made' \subseteq made \union {Plots[drawn + 1]}
        /\ complained' \subseteq complained \union {Plots[drawn + 1]}
    BY <1>3 DEF Printing!Draw, Printing!Complain, Printing!AfterPlot
  <2>2. drawn' \in 0..Len(Plots) /\ drawn + 1 \in DOMAIN Plots
    BY <1>0, <2>1 DEF Counted, Printing!TypeOK
  <2>3. Plots[drawn + 1] \in Printing!PlotSet
    BY <2>2 DEF Printing!PlotSet
  <2> QED BY <2>1, <2>2, <2>3 DEF Counted, Printing!TypeOK
<1>4. CASE Printing!ExportCsv
  BY <1>4 DEF Printing!ExportCsv, Counted, Printing!TypeOK
<1>5. CASE Printing!PrintOut
  BY <1>5 DEF Printing!PrintOut, Counted, Printing!TypeOK
<1> QED BY <1>1, <1>2, <1>3, <1>4, <1>5 DEF Printing!Next

(* and of the workers.                                                     *)
LEMMA CountedStays == Counted /\ [CommandNext]_allVars => Counted'
<1> SUFFICES ASSUME Counted, [CommandNext]_allVars PROVE Counted'
  OBVIOUS
<1>0. ASSUME UNCHANGED printing PROVE Printing!TypeOK'
  BY <1>0 DEF printing, Counted, Printing!TypeOK
<1>1. ASSUME UNCHANGED <<books, printing>> PROVE Counted'
  BY <1>0, <1>1 DEF books, printing, Counted
<1>2. CASE \E w \in Workers : WorkerStep(w)
  <2> PICK w \in Workers : WorkerStep(w)
    BY <1>2
  <2>0. Printing!TypeOK'
    BY <1>0 DEF WorkerStep
  <2>1. CASE Ledger!Close(w)
    BY <2>0, <2>1 DEF Ledger!Close, Counted
  <2>2. CASE \E o \in Outcomes : Ledger!Book(w, o)
    <3> PICK o \in Outcomes : Ledger!Book(w, o)
      BY <2>2
    <3>1. book' = [book EXCEPT ![w][o] = @ + 1]
      BY DEF Ledger!Book
    <3>2. book[w] \in [Outcomes -> Nat] /\ book[w][o] + 1 \in Nat
      BY DEF Counted
    <3>3. book' \in [Workers -> [Outcomes -> Nat]]
      BY <3>1, <3>2 DEF Counted
    <3>4. tail' \in [Workers -> {0, 1}] /\ UNCHANGED <<gone, phase>>
      BY DEF Ledger!Book, Counted
    <3> QED BY <2>0, <3>3, <3>4 DEF Counted
  <2> QED BY <2>1, <2>2 DEF WorkerStep
<1>3. CASE WorkersEnd
  BY <1>0, <1>3 DEF WorkersEnd, Ledger!Deliver, Ledger!End, Counted
<1>4. CASE ReportStep
  BY <1>4, PrintedStep DEF ReportStep, books, Counted
<1>5. CASE SignalStep \/ HandlerStep
  BY <1>1, <1>5 DEF SignalStep, HandlerStep
<1>6. CASE RunStep \/ RunReturns \/ ReportReturns \/ EndStep
  BY <1>1, <1>6 DEF RunStep, RunReturns, ReportReturns, EndStep
<1>7. CASE HelperStep \/ ClockOrClient \/ CommandEnds \/ UNCHANGED allVars
  BY <1>1, <1>7 DEF HelperStep, ClockOrClient, CommandEnds, allVars
<1>8. CASE WorkerPanics
  BY <1>0, <1>8 DEF WorkerPanics, Ledger!Crash, Ledger!End, Counted
<1> QED BY <1>2, <1>3, <1>4, <1>5, <1>6, <1>7, <1>8 DEF CommandNext, MainStep

(* The command, Run, the workers and PrintReport, each with the state that *)
(* the others share with it, stay what their modules say they are.         *)
THEOREM PartsFitTogether == CommandSpec => []PartsTypeOK
<1>1. Inv /\ LifeInv /\ Counted => PartsTypeOK
  BY DEF Inv, LifeInv, Counted, TypeOK, Ledger!TypeOK, PartsTypeOK
<1> QED BY <1>1, InvHolds, LifeInit, LifeInvStays, CountedInit, CountedStays, PTL
           DEF CommandSpec
=============================================================================

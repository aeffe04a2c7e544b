------------------------------ MODULE Execute -------------------------------
(***************************************************************************)
(* The command: cmd.Execute (cmd/root.go:199-263).  The main goroutine     *)
(* runs the benchmark, prints the report and applies the fail conditions;  *)
(* a second goroutine turns the first SIGINT into a cancellation and the   *)
(* second one into an exit.  Both close the channel of signals, into which *)
(* the os/signal package goes on sending.                                  *)
(*                                                                         *)
(* An unrecovered panic ends a Go program with status 2.                   *)
(***************************************************************************)
EXTENDS Integers

CONSTANTS
  FailConditions, \* the --fail flags
  Met,            \* conditions the results of a run may meet
  SigBuffer,      \* capacity of sigsInt: 8
  Exporting,      \* the Prometheus metrics are exported
  MaxSignals      \* bound of the model: SIGINTs sent to the process

ASSUME ExecuteAssumption ==
  SigBuffer \in Nat \ {0} /\ MaxSignals \in Nat /\ Exporting \in BOOLEAN

VARIABLES
  main,     \* "run", "report", "close", "closeAndFail", "check" or "exited"
  handler,  \* "first", "cancel", "second", "close", "exit" or "gone"
  queued,   \* signals in sigsInt
  closed,   \* sigsInt is closed
  canceled, \* the context of the run is cancelled
  met,      \* the conditions that the results of the run meet
  exit,     \* exit status, -1 while the process runs
  (* history *)
  signals,  \* SIGINTs received so far
  failed    \* Run or PrintReport returned an error

vars == <<main, handler, queued, closed, canceled, met, exit, signals, failed>>

Init ==
  /\ main = "run" /\ handler = "first"
  /\ queued = 0 /\ closed = FALSE
  /\ canceled = FALSE /\ met = {} /\ exit = -1
  /\ signals = 0 /\ failed = FALSE

Up == exit = -1

(* The process ends: with a status of its choice or, by a panic, with 2.   *)
Die(status) ==
  /\ exit' = status
  /\ UNCHANGED <<main, handler, queued, closed, canceled, met, failed>>

(* The signal package never blocks on a full channel, and panics on a      *)
(* closed one.                                                             *)
Signal ==
  /\ Up /\ signals < MaxSignals
  /\ signals' = signals + 1
  /\ \/ closed /\ Die(2)
     \/ /\ ~closed
        /\ queued' = IF queued < SigBuffer THEN queued + 1 ELSE queued
        /\ UNCHANGED <<main, handler, closed, canceled, met, exit, failed>>

(***************************************************************************)
(* The handler goroutine.                                                  *)
(***************************************************************************)
HandlerTo(from, to) ==
  /\ Up /\ handler = from /\ handler' = to
  /\ UNCHANGED <<main, met, exit, signals, failed>>

(* A receive takes a signal that is queued, also from a closed channel.    *)
ReceiveFirst ==
  /\ queued > 0
  /\ queued' = queued - 1
  /\ HandlerTo("first", "cancel")
  /\ UNCHANGED <<closed, canceled>>

(* ok is false: the main goroutine has closed the channel.                 *)
FirstClosed ==
  /\ queued = 0 /\ closed
  /\ HandlerTo("first", "gone")
  /\ UNCHANGED <<queued, closed, canceled>>

Cancel ==
  /\ canceled' = TRUE
  /\ HandlerTo("cancel", "second")
  /\ UNCHANGED <<queued, closed>>

(* Mutant: a receive from the closed channel is taken for a signal.        *)
ReceiveSecondAnyhow ==
  /\ queued > 0 \/ closed
  /\ queued' = queued - 1
  /\ HandlerTo("second", "close")
  /\ UNCHANGED <<closed, canceled>>

(* Nobody looks whether this receive got a signal or a closed channel.     *)
ReceiveSecond ==
  /\ queued > 0 \/ closed
  /\ queued' = IF queued > 0 THEN queued - 1 ELSE 0
  /\ HandlerTo("second", "close")
  /\ UNCHANGED <<closed, canceled>>

HandlerCloses ==
  \/ /\ ~closed
     /\ closed' = TRUE
     /\ HandlerTo("close", "exit")
     /\ UNCHANGED <<queued, canceled>>
  \/ closed /\ Up /\ handler = "close" /\ Die(2) /\ UNCHANGED signals

HandlerExits == Up /\ handler = "exit" /\ Die(1) /\ UNCHANGED signals

(***************************************************************************)
(* The main goroutine.                                                     *)
(***************************************************************************)
MainTo(from, to) ==
  /\ Up /\ main = from /\ main' = to
  /\ UNCHANGED <<handler, queued, canceled, exit, signals>>

RunSucceeds ==
  /\ MainTo("run", "report")
  /\ met' \in SUBSET Met
  /\ UNCHANGED <<closed, failed>>

RunFails ==
  /\ MainTo("run", "closeAndFail")
  /\ failed' = TRUE
  /\ UNCHANGED <<closed, met>>

(* Nobody recovers the panic of a worker that exports a response without a *)
(* question section (Benchmark!Panic): it ends the process at once.        *)
RunPanics ==
  /\ Up /\ main = "run" /\ Exporting
  /\ Die(2)
  /\ UNCHANGED signals

ReportSucceeds == MainTo("report", "close") /\ UNCHANGED <<closed, met, failed>>

ReportFails ==
  /\ MainTo("report", "closeAndFail")
  /\ failed' = TRUE
  /\ UNCHANGED <<closed, met>>

MainCloses ==
  \/ /\ ~closed
     /\ closed' = TRUE
     /\ \/ MainTo("close", "check")
        \/ MainTo("closeAndFail", "fail")
     /\ UNCHANGED <<met, failed>>
  \/ /\ closed /\ Up /\ main \in {"close", "closeAndFail"}
     /\ Die(2) /\ UNCHANGED signals

(* os.Exit(1) after the error message.                                     *)
MainFails == Up /\ main = "fail" /\ Die(1) /\ UNCHANGED signals

(* Mutant: every condition has to be met for the command to fail.          *)
StatusOfAll(conditions) ==
  IF conditions # {} /\ conditions \subseteq met THEN 1 ELSE 0

StatusOf(conditions) == IF conditions \intersect met # {} THEN 1 ELSE 0

Check == Up /\ main = "check" /\ Die(StatusOf(FailConditions)) /\ UNCHANGED signals

Terminating == ~Up /\ UNCHANGED vars

Handler == ReceiveFirst \/ FirstClosed \/ Cancel \/ ReceiveSecond
           \/ HandlerCloses \/ HandlerExits
Run  == RunSucceeds \/ RunFails \/ RunPanics
Main == Run \/ ReportSucceeds \/ ReportFails \/ MainCloses \/ MainFails \/ Check

Next == Signal \/ Handler \/ Main \/ Terminating
Spec == Init /\ [][Next]_vars

(***************************************************************************)
(* Properties.                                                             *)
(***************************************************************************)
TypeOK ==
  /\ main \in {"run", "report", "close", "closeAndFail", "check", "fail"}
  /\ handler \in {"first", "cancel", "second", "close", "exit", "gone"}
  /\ queued \in 0..SigBuffer /\ {closed, canceled, failed} \subseteq BOOLEAN
  /\ met \subseteq Met /\ exit \in {-1, 0, 1, 2}
  /\ signals \in 0..MaxSignals

(* Status 0 is never a lie: the run and its report succeeded and no fail   *)
(* condition holds of the results.                                         *)
ZeroMeansGood ==
  exit = 0 => main = "check" /\ ~failed /\ FailConditions \intersect met = {}

(* Status 1 always has a cause: an error, a fail condition that is met, or *)
(* a user who interrupted twice, after the first had cancelled the run.    *)
OneHasACause ==
  exit = 1 =>
    \/ failed
    \/ main = "check" /\ FailConditions \intersect met # {}
    \/ signals >= 2 /\ canceled

(* The second interrupt ends it even if the run never comes back.          *)
SecondInterruptEnds == signals > 1 ~> exit # -1

(* failoncondition.md:10: by default the exit code is zero; an interrupt   *)
(* is one of the ways in which a run ends by itself (basics.md:12).        *)
ZeroByDefault ==
  ~failed /\ signals <= 1 /\ FailConditions = {} => exit \in {-1, 0}
=============================================================================

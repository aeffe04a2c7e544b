------------------------------- MODULE Report -------------------------------
(***************************************************************************)
(* The course of reporter.PrintReport (pkg/reporter/report.go:35-133):     *)
(* merge the results, draw the plots, export the histogram, print.  Some   *)
(* failures end it, others are complained about and some go unnoticed.     *)
(* What the outputs contain is in MergedResults, Plots and Reporters.      *)
(***************************************************************************)
EXTENDS Integers, Sequences

CONSTANTS
  Plots,    \* the plots, in the order in which they are drawn
  Outcomes, \* how a query can end
  Drawn,    \* for each plot the outcomes it shows
  Wishes    \* what users ask for: sets of "plots" (PlotDir), "csv", "text" (not Silent)

PlotSet == {Plots[k] : k \in DOMAIN Plots}

(* What the parameters have to be.                                         *)
Parameters ==
  /\ Plots \in Seq(STRING \ {"csv", "text"}) /\ Plots # << >>
  /\ Drawn \in [PlotSet -> SUBSET Outcomes]
  /\ Wishes \subseteq SUBSET {"plots", "csv", "text"}

VARIABLES
  asked,      \* the outputs this user asked for
  step,       \* what PrintReport does next, or "done" or "failed"
  merged,     \* how many results of each outcome Merge returned
  drawn,      \* how many of the plots it has been through
  made,       \* the outputs that exist
  complained  \* the plots that could not be drawn

vars == <<asked, step, merged, drawn, made, complained>>

TypeOK ==
  /\ asked \in Wishes
  /\ step \in {"merge", "directory", "draw", "csv", "print", "done", "failed"}
  /\ merged \in [Outcomes -> Nat]
  /\ drawn \in 0..Len(Plots)
  /\ made \subseteq PlotSet \union {"csv", "text"}
  /\ complained \subseteq PlotSet

Init ==
  /\ asked \in Wishes
  /\ step = "merge"
  /\ merged = [o \in Outcomes |-> 0]
  /\ drawn = 0 /\ made = {} /\ complained = {}

Merge(totals) ==
  /\ step = "merge"
  /\ merged' = totals
  /\ step' = IF "plots" \in asked THEN "directory" ELSE "csv"
  /\ UNCHANGED <<asked, drawn, made, complained>>

(* PlotDir is a directory, in which a new one can be made, or it is not.   *)
MakeDirectory ==
  /\ step = "directory"
  /\ step' \in {"draw", "failed"}
  /\ UNCHANGED <<asked, merged, drawn, made, complained>>

HasData(p) == \E o \in Drawn[p] : merged[o] > 0

AfterPlot(n) == IF n = Len(Plots) THEN "csv" ELSE "draw"

(* Mutant: a plot that cannot be drawn is the last one.                    *)
StopAtComplaint(p) ==
  /\ complained' = complained \union {p}
  /\ step' = "csv"
  /\ UNCHANGED <<asked, merged, made>>

Complain(p) ==
  /\ complained' = complained \union {p}
  /\ step' = AfterPlot(drawn')
  /\ UNCHANGED <<asked, merged, made>>

(* A plot without data is left out, one that fails is complained about.    *)
Draw ==
  /\ step = "draw" /\ drawn < Len(Plots)
  /\ drawn' = drawn + 1
  /\ LET p == Plots[drawn + 1] IN
     \/ /\ made' = IF HasData(p) THEN made \union {p} ELSE made
        /\ step' = AfterPlot(drawn')
        /\ UNCHANGED <<asked, merged, complained>>
     \/ HasData(p) /\ Complain(p)

(* The file is created, or it is not; nobody looks at errors of its writes. *)
ExportCsv ==
  /\ step = "csv"
  /\ \/ /\ step' = "print"
        /\ made' = IF "csv" \in asked THEN made \union {"csv"} ELSE made
     \/ "csv" \in asked /\ step' = "failed" /\ UNCHANGED made
  /\ UNCHANGED <<asked, merged, drawn, complained>>

(* Encoding the JSON or rendering the table can fail.                      *)
PrintOut ==
  /\ step = "print"
  /\ \/ /\ step' = "done"
        /\ made' = IF "text" \in asked THEN made \union {"text"} ELSE made
     \/ "text" \in asked /\ step' = "failed" /\ UNCHANGED made
  /\ UNCHANGED <<asked, merged, drawn, complained>>

Next == MakeDirectory \/ Draw \/ ExportCsv \/ PrintOut

(* The user got whatever was asked for; a plot may lack for want of data,  *)
(* or with a complaint.                                                    *)
Complete ==
  /\ asked \intersect {"csv", "text"} \subseteq made
  /\ "plots" \in asked =>
       \A p \in PlotSet : p \in made \union complained \/ ~HasData(p)
=============================================================================

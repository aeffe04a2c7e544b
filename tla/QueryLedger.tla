---------------------------- MODULE QueryLedger -----------------------------
(***************************************************************************)
(* What Benchmark.Run promises its caller, whatever the protocol, the      *)
(* limits and the scheduling: each worker books the outcomes of its        *)
(* queries, at most its share of them; once the run is asked to stop it    *)
(* books at most one more; when all workers are gone the books are closed  *)
(* and handed over, and no worker writes into them any more.               *)
(***************************************************************************)
EXTENDS Integers, Functions

CONSTANTS
  Workers,
  Outcomes,   \* how a query can end
  Share       \* the numbers of outcomes a worker may book

VARIABLES
  book,     \* how often each worker booked each outcome
  stopped,  \* the run was asked to stop
  tail,     \* what a worker booked after that
  gone,     \* workers that have ended
  phase     \* "running", "delivered" or "crashed"

vars == <<book, stopped, tail, gone, phase>>

TypeOK ==
  /\ book \in [Workers -> [Outcomes -> Nat]]
  /\ stopped \in BOOLEAN
  /\ tail \in [Workers -> {0, 1}]
  /\ gone \subseteq Workers
  /\ phase \in {"running", "delivered", "crashed"}

Init ==
  /\ book = [w \in Workers |-> [o \in Outcomes |-> 0]]
  /\ stopped = FALSE
  /\ tail = [w \in Workers |-> 0]
  /\ gone = {}
  /\ phase = "running"

Booked(w) == SumFunction(book[w])

Book(w, o) ==
  /\ phase = "running" /\ w \notin gone
  /\ Booked(w) + 1 \in Share
  /\ stopped => tail[w] = 0
  /\ book' = [book EXCEPT ![w][o] = @ + 1]
  /\ tail' = [tail EXCEPT ![w] = IF stopped THEN 1 ELSE 0]
  /\ UNCHANGED <<stopped, gone, phase>>

Stop ==
  /\ phase = "running" /\ ~stopped
  /\ stopped' = TRUE
  /\ UNCHANGED <<book, tail, gone, phase>>

Close(w) ==
  /\ phase = "running" /\ w \notin gone
  /\ gone' = gone \union {w}
  /\ UNCHANGED <<book, stopped, tail, phase>>

End(how) ==
  /\ phase = "running"
  /\ phase' = how
  /\ UNCHANGED <<book, stopped, tail, gone>>

Deliver == gone = Workers /\ End("delivered")
Crash   == End("crashed")

Next ==
  \/ Stop \/ Deliver \/ Crash
  \/ \E w \in Workers : Close(w) \/ \E o \in Outcomes : Book(w, o)

Spec == Init /\ [][Next]_vars

(* A stopped run winds down: its workers leave and the books are delivered. *)
FairSpec ==
  /\ Spec /\ WF_vars(Deliver)
  /\ \A w \in Workers : WF_vars(stopped /\ Close(w))
=============================================================================

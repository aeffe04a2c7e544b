-------------------------- MODULE BenchmarkProofs ---------------------------
(***************************************************************************)
(* Proofs about Benchmark, for any number of workers, questions, types,    *)
(* any replies and any configuration.                                      *)
(***************************************************************************)
EXTENDS Benchmark, ResultStatsProofs

(* The placeholder for a missing reply is one of the replies.              *)
LEMMA UnsetIsAReply == Unset \in Replies
BY BenchmarkAssumption DEF Unset

(* A worker that has a slot left is at a question of the run.              *)
LEMMA QueryType ==
  ASSUME NEW s \in Slots, s.q <= Len(Questions)
  PROVE  Query(s) \in [name : Names, qtype : QtypeSet]
<1>1. Questions \in Seq(Names) /\ QTypes \in Seq(QtypeSet)
  BY BenchmarkAssumption
<1>2. s.q \in 1..Len(Questions) /\ s.t \in 1..Len(QTypes)
  BY <1>1 DEF Slots
<1> QED BY <1>1, <1>2 DEF Query

(* The loops step from slot to slot.                                       *)
LEMMA SlotsType ==
  /\ FirstSlot \in Slots
  /\ \A s \in Slots : s.q <= Len(Questions) => NextSlot(s) \in Slots
<1>1. /\ Questions \in Seq(Names) /\ QTypes \in Seq(QtypeSet) /\ QTypes # << >>
      /\ Len(Questions) \in Nat /\ Len(QTypes) \in Nat /\ Len(QTypes) >= 1
  BY BenchmarkAssumption
<1> QED BY <1>1 DEF Slots, FirstSlot, NextSlot

(* measureProm leaves the metrics well-formed.                             *)
Metrics == [requests : [QtypeSet -> Nat], responses : [RcodeSet -> Nat], errors : Nat]

(* measureProm leaves counters behind.                                     *)
LEMMA ExportedType ==
  ASSUME NEW p \in Metrics, NEW r \in Reply, NEW q \in [name : Names, qtype : QtypeSet]
  PROVE  Exported(p, q, r) \in Metrics
<1>1. [p.requests EXCEPT ![q.qtype] = @ + 1] \in [QtypeSet -> Nat]
  BY DEF Metrics
<1> DEFINE d == OneIf(Answered(r))
<1>2. [p.responses EXCEPT ![r.rcode] = @ + d] \in [RcodeSet -> Nat]
  <2>1. d \in Nat
    BY DEF OneIf
  <2>2. r.rcode \in RcodeSet
    BY DEF Reply
  <2> HIDE DEF d
  <2> QED BY <2>1, <2>2 DEF Metrics
<1>3. p.errors + OneIf(IsFailure(r)) \in Nat
  <2>1. OneIf(IsFailure(r)) \in Nat /\ p.errors \in Nat
    BY DEF OneIf, Metrics
  <2> QED BY <2>1
<1> QED BY <1>1, <1>2, <1>3 DEF Exported, Metrics

(* What a worker that is inside the loop body knows of its position.       *)
InBody == {"global", "own", "send", "wait", "log", "record", "measure"}

TypeInv ==
  /\ TypeOK
  /\ \A w \in Workers : pc[w] \in InBody => slot[w].q <= Len(Questions)

USE DEF world, place, request, results, history

(* The type invariant holds when Run has set up its workers,               *)
LEMMA TypeInvInit == Init => TypeInv
<1> SUFFICES ASSUME Init PROVE TypeInv
  OBVIOUS
<1>1. NewResultStats \in Stats(Starts)
  BY NewResultStatsOK
<1> QED
  BY <1>1, UnsetIsAReply, SlotsType DEF Init, TypeInv, TypeOK, Places, Starts, InBody, Gates

(* and every step of a worker, a limiter or the clock preserves it.        *)
LEMMA TypeInvStep == TypeInv /\ [Next]_vars => TypeInv'
<1> SUFFICES ASSUME TypeInv, [Next]_vars PROVE TypeInv'
  OBVIOUS
<1> USE DEF TypeInv, TypeOK, Places, Starts, InBody, Gates
<1>1. CASE ClockPasses BY <1>1 DEF ClockPasses
<1>2. CASE Expire BY <1>2 DEF Expire, ContextDone
<1>3. CASE Interrupt BY <1>3 DEF Interrupt, ContextDone
<1>4. CASE RunReturns BY <1>4 DEF RunReturns
<1>5. CASE Terminating \/ UNCHANGED vars BY <1>5 DEF Terminating, vars
<1>6. ASSUME NEW w \in Workers, Grant(w) PROVE TypeInv'
  <2>1. taking[w] \in Gates /\ tokens[w] \in [Gates -> Nat]
    BY <1>6, BenchmarkAssumption DEF Grant
  <2>2. [tokens[w] EXCEPT ![taking[w]] = @ + 1] \in [Gates -> Nat]
    BY <2>1
  <2>3. tokens' \in [Workers -> [Gates -> Nat]] /\ taking' \in [Workers -> Limiters \union {"none"}]
    BY <1>6, <2>2 DEF Grant
  <2> QED BY <1>6, <2>3 DEF Grant
<1>7. ASSUME NEW w \in Workers, Step(w) PROVE TypeInv'
  <2>1. CASE Spawn(w) BY <2>1 DEF Spawn, At, GoTo
  <2>2. CASE EndRound(w)
    <3>1. (iter[w] + 1) % 2 \in Nat /\ iter[w] + 1 \in Nat
      OBVIOUS
    <3>2. iter' \in [Workers -> Nat] /\ slot' \in [Workers -> Slots]
      BY <2>2, <3>1, SlotsType DEF EndRound
    <3> QED BY <2>2, <3>2 DEF EndRound, At
  <2>3. CASE Finish(w) BY <2>3 DEF Finish, Leave, At, GoTo
  <2>4. CASE Stopped(w) BY <2>4 DEF Stopped, AtPair, Leave, At, GoTo
  <2>5. CASE Skip(w) BY <2>5, SlotsType DEF Skip, AtPair, At
  <2>6. CASE Proceed(w) BY <2>6 DEF Proceed, AtPair, Advance, After, At, GoTo
  <2>7. CASE Acquire(w) BY <2>7 DEF Acquire, Waiting, Advance, After, GoTo
  <2>8. CASE Abandon(w) BY <2>8 DEF Abandon, Waiting, Leave, GoTo
  <2>9. CASE Send(w)
    <3>1. sent' \in [Workers -> Nat] /\ start' \in [Workers -> Starts]
      BY <2>9 DEF Send
    <3> QED BY <2>9, <3>1 DEF Send, At, GoTo
  <2>10. CASE Drop(w)
    <3>1. PICK r \in Replies : reply' = [reply EXCEPT ![w] = r]
      BY <2>10 DEF Drop
    <3>2. reply' \in [Workers -> Replies]
      BY <3>1
    <3>3. /\ pc' = [pc EXCEPT ![w] = "done"] /\ dropped' = [dropped EXCEPT ![w] = @ + 1]
          /\ UNCHANGED <<world, place, taking, start, cookie, results, tokens, sent, extra>>
      BY <2>10 DEF Drop, GoTo
    <3>4. dropped' \in [Workers -> Nat] /\ pc' \in [Workers -> Places]
      BY <3>3
    <3>5. \A v \in Workers : pc'[v] \in InBody => slot[v].q <= Len(Questions)
      BY <3>3
    <3> QED BY <3>2, <3>3, <3>4, <3>5
  <2>11. CASE Respond(w)
    <3>1. PICK r \in Replies : 
            /\ reply' = [reply EXCEPT ![w] = r]
            /\ cookie' = [cookie EXCEPT ![w] =
                 IF UseCookies /\ Answered(r) /\ r.cookie # "none" THEN r.cookie ELSE @]
      BY <2>11 DEF Respond
    <3>2. r.cookie \in {"none", "echo", "foreign"}
      BY BenchmarkAssumption DEF Reply
    <3>3. cookie' \in [Workers -> {"client", "echo", "foreign"}]
      BY <3>1, <3>2
    <3> QED BY <2>11, <3>1, <3>3 DEF Respond, At, GoTo
  <2>12. CASE Log(w)
    <3> DEFINE d == OneIf(Logging)
    <3>1. logged[w] + d \in Nat
      <4>1. d \in Nat
        BY DEF OneIf
      <4> HIDE DEF d
      <4> QED BY <4>1
    <3> QED BY <2>12, <3>1 DEF Log, At, GoTo
  <2>13. CASE RecordResult(w)
    <3>1. reply[w] \in Reply /\ Query(slot[w]) \in [name : Names, qtype : QtypeSet]
      BY <2>13, QueryType, BenchmarkAssumption DEF RecordResult, At
    <3>2. Record(stats[w], Query(slot[w]), reply[w], start[w]) \in Stats(Starts)
      <4> HIDE DEF Starts
      <4> QED BY <3>1, RecordType
    <3>3. stats' \in [Workers -> Stats(Starts)]
      BY <2>13, <3>2 DEF RecordResult
    <3>4. extra' \in [Workers -> Nat]
      <4> DEFINE d == OneIf(ctx # "live")
      <4>1. extra[w] + d \in Nat
        <5>1. d \in Nat
          BY DEF OneIf
        <5> HIDE DEF d
        <5> QED BY <5>1
      <4> QED BY <2>13, <4>1 DEF RecordResult
    <3> QED BY <2>13, <3>3, <3>4 DEF RecordResult, At, GoTo
  <2>14. CASE Measure(w)
    <3>1. reply[w] \in Reply /\ Query(slot[w]) \in [name : Names, qtype : QtypeSet]
      BY <2>14, QueryType, BenchmarkAssumption DEF Measure, At
    <3>2. prom' \in Metrics
      BY <2>14, <3>1, ExportedType DEF Measure, Metrics
    <3>3. reply' \in [Workers -> Replies] /\ slot' \in [Workers -> Slots]
      BY <2>14, UnsetIsAReply, SlotsType DEF Measure, At
    <3> QED BY <2>14, <3>2, <3>3 DEF Measure, At, GoTo, Metrics
  <2>15. CASE Panic(w) BY <2>15 DEF Panic, At
  <2> QED BY <1>7, <2>1, <2>2, <2>3, <2>4, <2>5, <2>6, <2>7, <2>8, <2>9, <2>10,
             <2>11, <2>12, <2>13, <2>14, <2>15 DEF Step
<1> QED BY <1>1, <1>2, <1>3, <1>4, <1>5, <1>6, <1>7 DEF Next

(* The variables of Benchmark always have their types: in particular the   *)
(* loops stay within the questions and the types, and the metrics and the  *)
(* results of every worker stay well-formed whatever the server answers.   *)
THEOREM TypeCorrect == Spec => []TypeOK
<1>1. TypeInv => TypeOK
  BY DEF TypeInv
<1> QED BY <1>1, TypeInvInit, TypeInvStep, PTL DEF Spec

(* Used by every proof below: the type invariant holds all the time.       *)
LEMMA Typed == Spec => []TypeInv
BY TypeInvInit, TypeInvStep, PTL DEF Spec

(***************************************************************************)
(* The steps that leave the recorded results alone, and the one that does  *)
(* not.                                                                    *)
(***************************************************************************)
LEMMA OnlyRecordResultRecords ==
  ASSUME [Next]_vars
  PROVE  \/ UNCHANGED <<stats, extra>>
         \/ \E w \in Workers : RecordResult(w)
<1>1. ASSUME NEW w \in Workers, Step(w), ~RecordResult(w) PROVE UNCHANGED <<stats, extra>>
  BY <1>1 DEF Step, Spawn, EndRound, Finish, Stopped, Skip, Proceed, Acquire, Abandon,
              Send, Drop, Respond, Log, Measure, Panic, Leave, Advance
<1> QED BY <1>1 DEF Next, ClockPasses, Expire, Interrupt, ContextDone, RunReturns,
                    Terminating, Grant, vars

(* The counters of every worker partition its queries, and its datapoints  *)
(* are as many as the counters say, at every moment of every run.          *)
THEOREM ResultsAccounted == Spec => []WorkersAccounted
<1>1. Init => WorkersAccounted
  BY NewResultStatsOK DEF Init, WorkersAccounted
<1>2. ASSUME TypeInv, WorkersAccounted, [Next]_vars PROVE WorkersAccounted'
  <2>1. CASE UNCHANGED <<stats, extra>>
    BY <1>2, <2>1 DEF WorkersAccounted
  <2>2. ASSUME NEW w \in Workers, RecordResult(w) PROVE WorkersAccounted'
    <3>1. /\ reply[w] \in Reply /\ start[w] \in Starts /\ stats[w] \in Stats(Starts)
          /\ Accounted(stats[w])
      BY <1>2, BenchmarkAssumption DEF TypeInv, TypeOK, WorkersAccounted
    <3>2. Accounted(Record(stats[w], Query(slot[w]), reply[w], start[w]))
      BY <3>1, RecordAccounted
    <3>3. \A v \in Workers : stats'[v] =
             IF v = w THEN Record(stats[w], Query(slot[w]), reply[w], start[w]) ELSE stats[v]
      BY <1>2, <2>2 DEF RecordResult, TypeInv, TypeOK
    <3> QED BY <1>2, <3>2, <3>3 DEF WorkersAccounted
  <2> QED BY <1>2, <2>1, <2>2, OnlyRecordResultRecords
<1> QED BY <1>1, <1>2, Typed, PTL DEF Spec

(***************************************************************************)
(* After the context is done.                                              *)
(***************************************************************************)
(* A worker that has used up its one extra result is on its way out: it    *)
(* cannot pass the check at the top of the loop any more.                  *)
ExtraInv ==
  \A w \in Workers :
    /\ extra[w] \in {0, 1}
    /\ extra[w] = 1 => ctx # "live" /\ pc[w] \in {"measure", "loop", "done"}

(* No step of a worker, a limiter or the clock breaks this.                *)
LEMMA ExtraOnTheWayOut == Spec => []ExtraInv
<1>1. Init => ExtraInv
  BY DEF Init, ExtraInv
<1>2. ASSUME TypeInv, ExtraInv, [Next]_vars PROVE ExtraInv'
  <2> USE <1>2 DEF ExtraInv, TypeInv, TypeOK
  <2>1. CASE ClockPasses BY <2>1 DEF ClockPasses
  <2>2. CASE Expire \/ Interrupt BY <2>2 DEF Expire, Interrupt, ContextDone
  <2>3. CASE RunReturns BY <2>3 DEF RunReturns
  <2>4. CASE Terminating \/ UNCHANGED vars BY <2>4 DEF Terminating, vars
  <2>5. ASSUME NEW w \in Workers, Grant(w) PROVE ExtraInv'
    BY <2>5 DEF Grant
  <2>6. ASSUME NEW w \in Workers, Step(w) PROVE ExtraInv'
    <3>1. CASE Spawn(w) BY <3>1 DEF Spawn, At, GoTo
    <3>2. CASE EndRound(w) BY <3>2 DEF EndRound, At
    <3>3. CASE Finish(w) BY <3>3 DEF Finish, Leave, At, GoTo
    <3>4. CASE Stopped(w) BY <3>4 DEF Stopped, AtPair, Leave, At, GoTo
    <3>5. CASE Skip(w) BY <3>5 DEF Skip, AtPair, At
    <3>6. CASE Proceed(w) BY <3>6 DEF Proceed, AtPair, Advance, After, At, GoTo
    <3>7. CASE Acquire(w) BY <3>7 DEF Acquire, Waiting, Advance, After, GoTo, Gates
    <3>8. CASE Abandon(w) BY <3>8 DEF Abandon, Waiting, Leave, GoTo
    <3>9. CASE Send(w) BY <3>9 DEF Send, At, GoTo
    <3>10. CASE Drop(w) BY <3>10 DEF Drop, At, GoTo
    <3>11. CASE Respond(w) BY <3>11 DEF Respond, At, GoTo
    <3>12. CASE Log(w) BY <3>12 DEF Log, At, GoTo
    <3>13. CASE RecordResult(w)
      BY <3>13 DEF RecordResult, At, GoTo, OneIf
    <3>14. CASE Measure(w) BY <3>14 DEF Measure, At, GoTo
    <3>15. CASE Panic(w) BY <3>15 DEF Panic, At
    <3> QED BY <2>6, <3>1, <3>2, <3>3, <3>4, <3>5, <3>6, <3>7, <3>8, <3>9, <3>10,
               <3>11, <3>12, <3>13, <3>14, <3>15 DEF Step
  <2> QED BY <2>1, <2>2, <2>3, <2>4, <2>5, <2>6 DEF Next
<1> QED BY <1>1, <1>2, Typed, PTL DEF Spec

(* Once an interrupt or the deadline has ended the context, a worker adds  *)
(* at most one more result, however the limiters and the network behave.   *)
THEOREM AtMostOneExtra == Spec => []ExtraAtMostOne
<1>1. ExtraInv => ExtraAtMostOne
  BY DEF ExtraInv, ExtraAtMostOne
<1> QED BY <1>1, ExtraOnTheWayOut, PTL

(***************************************************************************)
(* Where every query went.                                                 *)
(***************************************************************************)
(* EveryQueryAccounted with the two facts that make it inductive: a query  *)
(* can only be marked late once the clock is past the deadline, and only a *)
(* worker that has ended has dropped one.                                  *)
BalanceInv ==
  \A w \in Workers :
    /\ sent[w] = stats[w].Total + OneIf(pc[w] \in InFlight) + dropped[w]
    /\ dropped[w] \in {0, 1}
    /\ dropped[w] = 1 => overdue /\ pc[w] = "done"
    /\ start[w] = "overdue" => overdue

(* No query is lost and none is counted twice, in any interleaving: what a *)
(* worker sent it recorded, still waits for, or dropped as its last query  *)
(* because the deadline had passed when it was started.                    *)
THEOREM QueriesAccounted == Spec => []EveryQueryAccounted
<1>1. Init => BalanceInv
  BY DEF Init, BalanceInv, InFlight, OneIf, NewResultStats
<1>2. ASSUME TypeInv, BalanceInv, [Next]_vars PROVE BalanceInv'
  <2> USE <1>2 DEF BalanceInv, TypeInv, TypeOK, InFlight, OneIf
  <2>1. CASE ClockPasses BY <2>1 DEF ClockPasses
  <2>2. CASE Expire \/ Interrupt BY <2>2 DEF Expire, Interrupt, ContextDone
  <2>3. CASE RunReturns BY <2>3 DEF RunReturns
  <2>4. CASE Terminating \/ UNCHANGED vars BY <2>4 DEF Terminating, vars
  <2>5. ASSUME NEW w \in Workers, Grant(w) PROVE BalanceInv'
    BY <2>5 DEF Grant
  <2>6. ASSUME NEW w \in Workers, Step(w) PROVE BalanceInv'
    <3>1. CASE Spawn(w) BY <3>1 DEF Spawn, At, GoTo
    <3>2. CASE EndRound(w) BY <3>2 DEF EndRound, At
    <3>3. CASE Finish(w) BY <3>3 DEF Finish, Leave, At, GoTo
    <3>4. CASE Stopped(w) BY <3>4 DEF Stopped, AtPair, Leave, At, GoTo
    <3>5. CASE Skip(w) BY <3>5 DEF Skip, AtPair, At
    <3>6. CASE Proceed(w) BY <3>6 DEF Proceed, AtPair, Advance, After, At, GoTo
    <3>7. CASE Acquire(w) BY <3>7 DEF Acquire, Waiting, Advance, After, GoTo, Gates
    <3>8. CASE Abandon(w) BY <3>8 DEF Abandon, Waiting, Leave, GoTo, Gates
    <3>9. CASE Send(w)
      <4>1. stats[w].Total \in Nat
        BY DEF Stats
      <4>2. sent[w] = stats[w].Total /\ dropped[w] = 0
        <5>1. pc[w] = "send"
          BY <3>9 DEF Send, At
        <5>2. OneIf(pc[w] \in InFlight) = 0 /\ dropped[w] = 0
          BY <5>1
        <5> QED BY <4>1, <5>2
      <4> QED BY <3>9, <4>1, <4>2 DEF Send, At, GoTo
    <3>10. CASE Drop(w)
      <4>1. stats[w].Total \in Nat
        BY DEF Stats
      <4>2. pc[w] = "wait" /\ start[w] = "overdue"
        BY <3>10 DEF Drop, At, TooLate
      <4>3. dropped[w] = 0 /\ sent[w] = stats[w].Total + 1
        BY <4>1, <4>2
      <4> QED BY <3>10, <4>1, <4>2, <4>3 DEF Drop, GoTo
    <3>11. CASE Respond(w) BY <3>11 DEF Respond, TooLate, At, GoTo
    <3>12. CASE Log(w) BY <3>12 DEF Log, At, GoTo
    <3>13. CASE RecordResult(w)
      <4>1. stats[w].Total \in Nat /\ stats'[w].Total = stats[w].Total + 1
        BY <3>13 DEF RecordResult, Record, Stats
      <4>2. \A v \in Workers : v # w => stats'[v] = stats[v]
        BY <3>13 DEF RecordResult
      <4> QED BY <3>13, <4>1, <4>2 DEF RecordResult, At, GoTo
    <3>14. CASE Measure(w) BY <3>14 DEF Measure, At, GoTo
    <3>15. CASE Panic(w) BY <3>15 DEF Panic, At
    <3> QED BY <2>6, <3>1, <3>2, <3>3, <3>4, <3>5, <3>6, <3>7, <3>8, <3>9, <3>10,
               <3>11, <3>12, <3>13, <3>14, <3>15 DEF Step
  <2> QED BY <2>1, <2>2, <2>3, <2>4, <2>5, <2>6 DEF Next
<1>3. BalanceInv => EveryQueryAccounted
  BY DEF BalanceInv, EveryQueryAccounted
<1> QED BY <1>1, <1>2, <1>3, Typed, PTL DEF Spec

(***************************************************************************)
(* The rate limits.                                                        *)
(***************************************************************************)
(* How many tokens of a limiter a worker has taken and not yet spent,      *)
(* given where it is; a worker that gave up may still be granted the token *)
(* its helper goroutine is waiting for.                                    *)
Balanced(w, l) ==
  /\ tokens[w][l] \in {sent[w], sent[w] + 1}
  /\ taking[w] = l => tokens[w][l] = sent[w]
  /\ pc[w] = l /\ taking[w] = "none" => tokens[w][l] = sent[w] + 1
  /\ pc[w] = "own" /\ l = "global" => tokens[w][l] = sent[w] + 1
  /\ pc[w] = "global" /\ l = "own" => tokens[w][l] = sent[w]
  /\ pc[w] = "send" => tokens[w][l] = sent[w] + 1
  /\ pc[w] \in {"unborn", "loop", "wait", "log", "record", "measure"}
       => tokens[w][l] = sent[w]

TakingInv ==
  \A w \in Workers :
    /\ taking[w] # "none" => pc[w] \in {taking[w], "done"}
    /\ pc[w] \in Gates => pc[w] \in Limiters

TokenInv == TakingInv /\ \A w \in Workers, l \in Limiters : Balanced(w, l)

(* Only a waiting worker has a Take under way, or one it gave up.          *)
LEMMA TakingInvStep == TypeInv /\ TakingInv /\ [Next]_vars => TakingInv'
<1> SUFFICES ASSUME TypeInv, TakingInv, [Next]_vars PROVE TakingInv'
  OBVIOUS
<1> USE BenchmarkAssumption DEF TakingInv, Gates
<1>1. /\ pc \in [Workers -> Places] /\ taking \in [Workers -> Limiters \union {"none"}]
  BY DEF TypeInv, TypeOK
<1>2. CASE UNCHANGED <<pc, taking>>
  BY <1>2
<1>3. ASSUME NEW w \in Workers, Grant(w) PROVE TakingInv'
  BY <1>1, <1>3 DEF Grant
<1>4. ASSUME NEW w \in Workers, NEW p \in Places \ Gates, GoTo(w, p), UNCHANGED taking,
             taking[w] = "none" \/ p = "done"
      PROVE  TakingInv'
  BY <1>1, <1>4 DEF GoTo
<1>5. ASSUME NEW w \in Workers, Advance(w), pc[w] \in {"loop", "global", "own"}
      PROVE  TakingInv'
  BY <1>1, <1>5 DEF Advance, After, GoTo
<1>6. ASSUME NEW w \in Workers, Step(w) PROVE TakingInv'
  <2>1. pc[w] \notin Gates \union {"done"} => taking[w] = "none"
    BY <1>1
  <2>2. CASE Spawn(w)        BY <1>4, <2>1, <2>2 DEF Spawn, At, Places
  <2>3. CASE EndRound(w) \/ Skip(w) \/ Panic(w)
    BY <1>2, <2>3 DEF EndRound, Skip, Panic
  <2>4. CASE Finish(w) \/ Stopped(w) \/ Abandon(w) \/ Drop(w)
    BY <1>4, <2>4 DEF Finish, Stopped, Abandon, Drop, Leave, Places
  <2>5. CASE Proceed(w) \/ Acquire(w)
    BY <1>5, <2>5 DEF Proceed, Acquire, AtPair, At, Waiting
  <2>6. CASE Send(w)         BY <1>4, <2>1, <2>6 DEF Send, At, Places
  <2>7. CASE Respond(w)      BY <1>4, <2>1, <2>7 DEF Respond, At, Places
  <2>8. CASE Log(w)          BY <1>4, <2>1, <2>8 DEF Log, At, Places
  <2>9. CASE RecordResult(w) BY <1>4, <2>1, <2>9 DEF RecordResult, At, Places
  <2>10. CASE Measure(w)     BY <1>4, <2>1, <2>10 DEF Measure, At, Places
  <2> QED BY <1>6, <2>2, <2>3, <2>4, <2>5, <2>6, <2>7, <2>8, <2>9, <2>10 DEF Step
<1> QED BY <1>2, <1>3, <1>6 DEF Next, ClockPasses, Expire, Interrupt, ContextDone,
           RunReturns, Terminating, vars

(* Each query of a worker was preceded by its own token of every limiter,  *)
(* and no worker ever wastes more than one token of a limiter.             *)
THEOREM RateLimited == Spec => []RateRespected
<1>1. Init => TokenInv
  BY BenchmarkAssumption DEF Init, TokenInv, TakingInv, Balanced, Gates
<1>2. ASSUME TypeInv, TokenInv, [Next]_vars PROVE TokenInv'
  <2>1. /\ pc \in [Workers -> Places] /\ taking \in [Workers -> Limiters \union {"none"}]
        /\ sent \in [Workers -> Nat] /\ tokens \in [Workers -> [Gates -> Nat]]
        /\ Limiters \subseteq Gates
    BY <1>2, BenchmarkAssumption DEF TypeInv, TypeOK, Gates
  <2>2. TakingInv /\ TakingInv'
    BY <1>2, TakingInvStep DEF TokenInv
  <2>3. ASSUME NEW w \in Workers, NEW l \in Limiters,
               UNCHANGED <<pc[w], taking[w], sent[w], tokens[w][l]>>
        PROVE  Balanced(w, l)'
    BY <1>2, <2>3 DEF TokenInv, Balanced
  <2>4. CASE UNCHANGED <<pc, taking, sent, tokens>>
    BY <2>2, <2>3, <2>4 DEF TokenInv
  <2>5. ASSUME NEW w \in Workers, Grant(w) PROVE TokenInv'
    <3>1. taking[w] \in Limiters
      BY <2>1, <2>5 DEF Grant
    <3>2. ASSUME NEW v \in Workers, NEW l \in Limiters, v # w \/ l # taking[w]
          PROVE  tokens'[v][l] = tokens[v][l]
      <4>1. tokens' = [tokens EXCEPT ![w] = [tokens[w] EXCEPT ![taking[w]] = @ + 1]]
        BY <2>5 DEF Grant
      <4> QED BY <2>1, <3>1, <3>2, <4>1
    <3>3. ASSUME NEW l \in Limiters, l # taking[w] PROVE Balanced(w, l)'
      BY <1>2, <2>1, <2>2, <2>5, <3>1, <3>2, <3>3
         DEF Grant, TokenInv, Balanced, TakingInv, Gates
    <3>4. ASSUME NEW l \in Limiters, l = taking[w] PROVE Balanced(w, l)'
      <4>1. tokens'[w][l] = tokens[w][l] + 1 /\ taking'[w] = "none"
        BY <2>1, <2>5, <3>4 DEF Grant, Gates
      <4>2. pc' = pc /\ sent' = sent
        BY <2>5 DEF Grant
      <4>3. Balanced(w, l) /\ pc[w] \in {l, "done"} /\ taking[w] # "none"
        BY <1>2, <2>2, <2>5, <3>4 DEF TokenInv, TakingInv, Grant
      <4> QED BY <2>1, <3>4, <4>1, <4>2, <4>3 DEF Balanced, Gates
    <3>5. ASSUME NEW v \in Workers, NEW l \in Limiters, v # w PROVE Balanced(v, l)'
      <4>1. UNCHANGED <<pc[v], taking[v], sent[v], tokens[v][l]>>
        BY <2>1, <2>5, <3>2, <3>5 DEF Grant
      <4> QED BY <2>3, <4>1
    <3> QED BY <2>2, <3>3, <3>4, <3>5 DEF TokenInv
  <2>6. ASSUME NEW w \in Workers, Step(w) PROVE TokenInv'
    <3>1. tokens' = tokens
      BY <2>6 DEF Step, Spawn, EndRound, Finish, Stopped, Skip, Proceed, Acquire, Abandon,
                  Send, Drop, Respond, Log, RecordResult, Measure, Panic, Leave, Advance
    <3>2. ASSUME NEW v \in Workers, v # w
          PROVE  UNCHANGED <<pc[v], taking[v], sent[v]>>
      BY <2>1, <2>6, <3>2
         DEF Step, Spawn, EndRound, Finish, Stopped, Skip, Proceed, Acquire, Abandon,
             Send, Drop, Respond, Log, RecordResult, Measure, Panic, Leave, Advance, GoTo
    <3>3. ASSUME NEW v \in Workers, NEW l \in Limiters, v # w PROVE Balanced(v, l)'
      BY <2>3, <3>1, <3>2, <3>3
    <3>4. ASSUME NEW l \in Limiters PROVE Balanced(w, l)'
      <4> USE <2>1, <3>1 DEF Balanced, GoTo, Gates
      <4>1. /\ Balanced(w, l) /\ l \in Gates /\ pc[w] \in Places
            /\ taking[w] # "none" => pc[w] \in {taking[w], "done"}
            /\ taking[w] \in Limiters \union {"none"}
            /\ sent[w] \in Nat /\ tokens[w][l] \in Nat
        BY <1>2, <2>2 DEF TokenInv, TakingInv
      <4>2. CASE Spawn(w) BY <4>1, <4>2 DEF Spawn, At
      <4>3. CASE EndRound(w) \/ Skip(w) \/ Panic(w)
        BY <4>1, <4>3 DEF EndRound, Skip, Panic
      <4>4. CASE Finish(w) \/ Stopped(w) \/ Abandon(w) \/ Drop(w)
        BY <4>1, <4>4 DEF Finish, Stopped, Abandon, Drop, Leave
      <4>5. CASE Proceed(w) BY <4>1, <4>5 DEF Proceed, AtPair, At, Advance, After
      <4>6. CASE Acquire(w) BY <4>1, <4>6 DEF Acquire, Waiting, Advance, After
      <4>7. CASE Send(w) BY <4>1, <4>7 DEF Send, At
      <4>8. CASE Respond(w) BY <4>1, <4>8 DEF Respond, At
      <4>9. CASE Log(w) BY <4>1, <4>9 DEF Log, At
      <4>10. CASE RecordResult(w) BY <4>1, <4>10 DEF RecordResult, At
      <4>11. CASE Measure(w) BY <4>1, <4>11 DEF Measure, At
      <4> QED BY <2>6, <4>2, <4>3, <4>4, <4>5, <4>6, <4>7, <4>8, <4>9, <4>10, <4>11
             DEF Step
    <3> QED BY <2>2, <3>3, <3>4 DEF TokenInv
  <2> QED BY <1>2, <2>4, <2>5, <2>6 DEF Next, ClockPasses, Expire, Interrupt,
             ContextDone, RunReturns, Terminating, vars
<1>3. TypeInv /\ TokenInv => RateRespected
  <2> SUFFICES ASSUME TypeInv, TokenInv, NEW w \in Workers, NEW l \in Limiters
               PROVE  tokens[w][l] - sent[w] \in {0, 1}
    BY DEF RateRespected
  <2>1. tokens[w][l] \in {sent[w], sent[w] + 1} /\ sent[w] \in Nat
    BY DEF TokenInv, Balanced, TypeInv, TypeOK
  <2> QED BY <2>1
<1> QED BY <1>1, <1>2, <1>3, Typed, PTL DEF Spec

(***************************************************************************)
(* Late queries.                                                           *)
(***************************************************************************)
(* No failure of a query that was started past the deadline is kept.       *)
NoneLate(st) ==
  \A i \in 1..Len(st.Errors) : st.Errors[i].start # "overdue"

(* A query that was started in time or was answered adds no late failure.  *)
LEMMA RecordNoneLate ==
  ASSUME NEW st \in Stats(Starts), NEW t \in Starts, NEW q, NEW r \in Reply,
         NoneLate(st), t = "overdue" => Answered(r)
  PROVE  NoneLate(Record(st, q, r, t))
<1> DEFINE e == [start |-> t, err |-> r.err]
<1>1. st.Errors \in Seq([start : Starts, err : Errs])
  BY DEF Stats
<1>2. CASE Answered(r)
  <2>1. Record(st, q, r, t).Errors = st.Errors
    BY <1>2 DEF Record, AppendIf, IsFailure
  <2> QED BY <2>1 DEF NoneLate
<1>3. CASE ~Answered(r)
  <2>1. \/ Record(st, q, r, t).Errors = st.Errors
        \/ Record(st, q, r, t).Errors = Append(st.Errors, e)
    BY DEF Record, AppendIf
  <2>2. e.start # "overdue"
    BY <1>3
  <2> HIDE DEF e
  <2>3. ASSUME NEW i \in 1..Len(Append(st.Errors, e))
        PROVE  Append(st.Errors, e)[i].start # "overdue"
    <3>1. CASE i = Len(st.Errors) + 1
      BY <1>1, <2>2, <3>1
    <3>2. CASE i # Len(st.Errors) + 1
      BY <1>1, <3>2 DEF NoneLate
    <3> QED BY <3>1, <3>2
  <2> QED BY <2>1, <2>3 DEF NoneLate
<1> QED BY <1>2, <1>3

(* What reaches the log and the results was started in time or answered,   *)
(* and a worker that has dropped a query moves no more, so that its start  *)
(* and its reply stay those of the dropped query.                          *)
LateInv ==
  \A w \in Workers :
    /\ pc[w] \in {"log", "record"} /\ start[w] = "overdue" => Answered(reply[w])
    /\ NoneLate(stats[w])
    /\ dropped[w] > 0 => /\ pc[w] = "done"
                         /\ start[w] = "overdue" /\ ~Answered(reply[w])

(* In no run is the failure of a late query taken for an error of the      *)
(* server, and in none is anything else thrown away.                       *)
THEOREM LateFailuresNeverRecorded == Spec => []OnlyLateFailuresDropped
<1>1. Init => LateInv
  BY DEF Init, LateInv, NoneLate, NewResultStats
<1>2. ASSUME TypeInv, LateInv, [Next]_vars PROVE LateInv'
  <2> USE <1>2 DEF LateInv, TypeInv, TypeOK
  <2>1. CASE ClockPasses \/ Expire \/ Interrupt \/ RunReturns
    BY <2>1 DEF ClockPasses, Expire, Interrupt, ContextDone, RunReturns
  <2>2. CASE Terminating \/ UNCHANGED vars BY <2>2 DEF Terminating, vars
  <2>3. ASSUME NEW w \in Workers, Grant(w) PROVE LateInv'
    BY <2>3 DEF Grant
  <2>4. ASSUME NEW w \in Workers, Step(w) PROVE LateInv'
    <3>1. CASE Spawn(w) BY <3>1 DEF Spawn, At, GoTo
    <3>2. CASE EndRound(w) BY <3>2 DEF EndRound
    <3>3. CASE Finish(w) BY <3>3 DEF Finish, Leave, At, GoTo
    <3>4. CASE Stopped(w) BY <3>4 DEF Stopped, AtPair, Leave, At, GoTo
    <3>5. CASE Skip(w) BY <3>5 DEF Skip
    <3>6. CASE Proceed(w) BY <3>6 DEF Proceed, AtPair, Advance, After, At, GoTo
    <3>7. CASE Acquire(w) BY <3>7 DEF Acquire, Waiting, Advance, After, GoTo, Gates
    <3>8. CASE Abandon(w) BY <3>8 DEF Abandon, Waiting, Leave, GoTo, Gates
    <3>9. CASE Send(w) BY <3>9 DEF Send, At, GoTo
    <3>10. CASE Drop(w)
      <4>1. PICK r \in Replies : TooLate(w, r) /\ reply' = [reply EXCEPT ![w] = r]
        BY <3>10 DEF Drop
      <4>2. start'[w] = "overdue" /\ ~Answered(reply'[w]) /\ pc'[w] = "done"
        BY <3>10, <4>1 DEF Drop, TooLate, GoTo
      <4>3. ASSUME NEW v \in Workers, v # w
            PROVE  UNCHANGED <<pc[v], start[v], reply[v], dropped[v]>>
        BY <3>10, <4>1, <4>3 DEF Drop, GoTo
      <4> QED BY <3>10, <4>2, <4>3 DEF Drop
    <3>11. CASE Respond(w)
      <4>1. PICK r \in Replies : ~TooLate(w, r) /\ reply' = [reply EXCEPT ![w] = r]
        BY <3>11 DEF Respond
      <4>2. start'[w] = "overdue" => Answered(reply'[w])
        BY <3>11, <4>1 DEF Respond, TooLate
      <4>3. ASSUME NEW v \in Workers, v # w
            PROVE  UNCHANGED <<pc[v], start[v], reply[v], dropped[v]>>
        BY <3>11, <4>1, <4>3 DEF Respond, GoTo
      <4> QED BY <3>11, <4>2, <4>3 DEF Respond, At, GoTo
    <3>12. CASE Log(w) BY <3>12 DEF Log, At, GoTo
    <3>13. CASE Measure(w) BY <3>13 DEF Measure, At, GoTo
    <3>14. CASE Panic(w) BY <3>14 DEF Panic
    <3>15. CASE RecordResult(w)
      <4>1. /\ reply[w] \in Reply /\ start[w] \in Starts /\ stats[w] \in Stats(Starts)
            /\ NoneLate(stats[w]) /\ start[w] = "overdue" => Answered(reply[w])
        BY <3>15, BenchmarkAssumption DEF RecordResult, At
      <4>2. NoneLate(Record(stats[w], Query(slot[w]), reply[w], start[w]))
        BY <4>1, RecordNoneLate
      <4>3. NoneLate(stats'[w]) /\ \A v \in Workers : v # w => stats'[v] = stats[v]
        BY <3>15, <4>2 DEF RecordResult
      <4> QED BY <3>15, <4>3 DEF RecordResult, At, GoTo
    <3> QED BY <2>4, <3>1, <3>2, <3>3, <3>4, <3>5, <3>6, <3>7, <3>8, <3>9, <3>10,
               <3>11, <3>12, <3>13, <3>14, <3>15 DEF Step
  <2> QED BY <2>1, <2>2, <2>3, <2>4 DEF Next
<1>3. LateInv => OnlyLateFailuresDropped
  BY DEF LateInv, NoneLate, OnlyLateFailuresDropped
<1> QED BY <1>1, <1>2, <1>3, Typed, PTL DEF Spec

(***************************************************************************)
(* The request log.                                                        *)
(***************************************************************************)
(* Every recorded query has its line in the log, in every interleaving.    *)
THEOREM LogComplete == Spec => []LogAgrees
<1>1. Init => LogAgrees
  BY DEF Init, LogAgrees, OneIf, NewResultStats
<1>2. ASSUME TypeInv, LogAgrees, [Next]_vars PROVE LogAgrees'
  <2> USE <1>2 DEF LogAgrees, TypeInv, TypeOK, OneIf
  <2>1. CASE ClockPasses \/ Expire \/ Interrupt \/ RunReturns
    BY <2>1 DEF ClockPasses, Expire, Interrupt, ContextDone, RunReturns
  <2>2. CASE Terminating \/ UNCHANGED vars BY <2>2 DEF Terminating, vars
  <2>3. ASSUME NEW w \in Workers, Grant(w) PROVE LogAgrees'
    BY <2>3 DEF Grant
  <2>4. ASSUME NEW w \in Workers, Step(w) PROVE LogAgrees'
    <3>1. CASE Spawn(w) BY <3>1 DEF Spawn, At, GoTo
    <3>2. CASE EndRound(w) BY <3>2 DEF EndRound
    <3>3. CASE Finish(w) BY <3>3 DEF Finish, Leave, At, GoTo
    <3>4. CASE Stopped(w) BY <3>4 DEF Stopped, AtPair, Leave, At, GoTo
    <3>5. CASE Skip(w) BY <3>5 DEF Skip
    <3>6. CASE Proceed(w) BY <3>6 DEF Proceed, AtPair, Advance, After, At, GoTo
    <3>7. CASE Acquire(w) BY <3>7 DEF Acquire, Waiting, Advance, After, GoTo, Gates
    <3>8. CASE Abandon(w) BY <3>8 DEF Abandon, Waiting, Leave, GoTo, Gates
    <3>9. CASE Send(w) BY <3>9 DEF Send, At, GoTo
    <3>10. CASE Drop(w) BY <3>10 DEF Drop, At, GoTo
    <3>11. CASE Respond(w) BY <3>11 DEF Respond, TooLate, At, GoTo
    <3>12. CASE Log(w)
      <4>1. stats[w].Total \in Nat
        BY DEF Stats
      <4> QED BY <3>12, <4>1 DEF Log, At, GoTo
    <3>13. CASE Measure(w) BY <3>13 DEF Measure, At, GoTo
    <3>14. CASE Panic(w) BY <3>14 DEF Panic
    <3>15. CASE RecordResult(w)
      <4>1. stats[w].Total \in Nat /\ stats'[w].Total = stats[w].Total + 1
        BY <3>15 DEF RecordResult, Record, Stats
      <4>2. \A v \in Workers : v # w => stats'[v] = stats[v]
        BY <3>15 DEF RecordResult
      <4> QED BY <3>15, <4>1, <4>2 DEF RecordResult, At, GoTo
    <3> QED BY <2>4, <3>1, <3>2, <3>3, <3>4, <3>5, <3>6, <3>7, <3>8, <3>9, <3>10,
               <3>11, <3>12, <3>13, <3>14, <3>15 DEF Step
  <2> QED BY <2>1, <2>2, <2>3, <2>4 DEF Next
<1> QED BY <1>1, <1>2, Typed, PTL DEF Spec
=============================================================================

---------------------------- MODULE LedgerProofs ----------------------------
(***************************************************************************)
(* Proofs that Run keeps its books: what the workers record, what the      *)
(* exporter shows and what QueryLedger promises, for any number of         *)
(* workers, questions, types, any replies and any configuration.           *)
(***************************************************************************)
EXTENDS BenchmarkProofs

USE DEF world, place, request, results, history

(***************************************************************************)
(* The breakdowns of the results.                                          *)
(***************************************************************************)
(* Every printed breakdown of the queries of a worker, by type, response   *)
(* code and HTTP status, is one of its counters, at every moment.          *)
THEOREM BreakdownsKept == Spec => []WorkersBrokenDown
<1> DEFINE Inv == \A w \in Workers : BrokenDown(stats[w])
<1>1. Init => Inv
  BY NewResultStatsBrokenDown DEF Init
<1>2. ASSUME TypeInv, WorkersAccounted, Inv, [Next]_vars PROVE Inv'
  <2>1. CASE UNCHANGED <<stats, extra>>
    BY <1>2, <2>1
  <2>2. ASSUME NEW w \in Workers, RecordResult(w) PROVE Inv'
    <3> DEFINE rec == Record(stats[w], Query(slot[w]), reply[w], start[w])
    <3>1. /\ reply[w] \in Reply /\ start[w] \in Starts /\ stats[w] \in Stats(Starts)
          /\ Accounted(stats[w]) /\ BrokenDown(stats[w])
      BY <1>2, BenchmarkAssumption DEF TypeInv, TypeOK, WorkersAccounted
    <3>2. Query(slot[w]) \in [name : Names, qtype : QtypeSet]
      BY <1>2, <2>2, QueryType DEF RecordResult, At, TypeInv, TypeOK, InBody
    <3>3. BrokenDown(rec)
      BY <3>1, <3>2, RecordBrokenDown
    <3>4. \A v \in Workers : stats'[v] = IF v = w THEN rec ELSE stats[v]
      BY <1>2, <2>2 DEF RecordResult, TypeInv, TypeOK
    <3> HIDE DEF rec
    <3> QED BY <1>2, <3>3, <3>4
  <2> QED BY <1>2, <2>1, <2>2, OnlyRecordResultRecords
<1>3. Inv => WorkersBrokenDown
  BY DEF WorkersBrokenDown, BrokenDown
<1> QED BY <1>1, <1>2, <1>3, Typed, ResultsAccounted, PTL DEF Spec

(***************************************************************************)
(* What a step of a worker leaves alone.                                   *)
(***************************************************************************)
LEMMA OthersUntouched ==
  ASSUME TypeInv, NEW w \in Workers, Step(w), NEW v \in Workers, v # w
  PROVE  /\ pc'[v] = pc[v] /\ iter'[v] = iter[v] /\ slot'[v] = slot[v]
         /\ reply'[v] = reply[v] /\ cookie'[v] = cookie[v]
         /\ stats'[v] = stats[v] /\ extra'[v] = extra[v]
<1>1. CASE Respond(w)
  <2>1. PICK r \in Replies :
          /\ reply' = [reply EXCEPT ![w] = r]
          /\ cookie' = [cookie EXCEPT ![w] =
               IF UseCookies /\ Answered(r) /\ r.cookie # "none" THEN r.cookie ELSE @]
    BY <1>1 DEF Respond
  <2> QED BY <1>1, <2>1 DEF Respond, GoTo, TypeInv, TypeOK
<1>2. CASE Drop(w)
  <2>1. PICK r \in Replies : reply' = [reply EXCEPT ![w] = r]
    BY <1>2 DEF Drop
  <2> QED BY <1>2, <2>1 DEF Drop, GoTo, TypeInv, TypeOK
<1>3. CASE ~Respond(w) /\ ~Drop(w)
  BY <1>3 DEF TypeInv, TypeOK, Step, Spawn, EndRound, Finish, Stopped, Skip, Proceed, Acquire,
       Abandon, Send, Log, RecordResult, Measure, Panic, Leave, Advance, GoTo
<1> QED BY <1>1, <1>2, <1>3

(***************************************************************************)
(* Cookies.                                                                *)
(***************************************************************************)
(* The trace that a response leaves in what is recorded of it.             *)
Traced(st, r) == IF Kept(r) THEN st.Codes[r.rcode] > 0 ELSE st.IDmismatch > 0

(* r gave the cookie c to a worker that is at p with the reply rep, and    *)
(* has recorded st: it is about to be recorded, or it has been.            *)
GaveCookie(r, c, p, rep, st) ==
  /\ Answered(r) /\ r.cookie = c
  /\ \/ r = rep /\ p \in {"log", "record"}
     \/ Traced(st, r)

Given(c, p, rep, st) == c # "client" => \E r \in Replies : GaveCookie(r, c, p, rep, st)

CookieInv == \A w \in Workers : Given(cookie[w], pc[w], reply[w], stats[w])

(* A response leaves its trace when it is recorded, and for good.          *)
LEMMA TraceStays ==
  ASSUME NEW st \in Stats(Starts), NEW q, NEW s, NEW r \in Reply, NEW t \in Reply,
         CountRcodes, Answered(t), t = r \/ Traced(st, t)
  PROVE  Traced(Record(st, q, r, s), t)
<1> DEFINE c == st.Codes[t.rcode]
           d == OneIf(CountRcodes /\ Kept(r) /\ t.rcode = r.rcode)
           i == st.IDmismatch
           j == OneIf(Mismatched(r))
<1>1. Record(st, q, r, s).Codes[t.rcode] = c + d /\ Record(st, q, r, s).IDmismatch = i + j
  <2>1. t.rcode \in RcodeSet
    BY DEF Reply
  <2>2. Record(st, q, r, s).Codes = [x \in RcodeSet |->
          st.Codes[x] + OneIf(CountRcodes /\ Kept(r) /\ x = r.rcode)]
    BY DEF Record
  <2>3. Record(st, q, r, s).IDmismatch = i + j
    BY DEF Record
  <2> QED BY <2>1, <2>2, <2>3
<1>2. c \in Nat /\ i \in Nat /\ d \in Nat /\ j \in Nat
  <2>1. t.rcode \in RcodeSet
    BY DEF Reply
  <2>2. st.Codes \in [RcodeSet -> Nat] /\ i \in Nat
    BY DEF Stats
  <2>3. d \in Nat /\ j \in Nat
    BY DEF OneIf
  <2> QED BY <2>1, <2>2, <2>3
<1>3. /\ Kept(t) => d = 1 \/ c > 0
      /\ ~Kept(t) => j = 1 \/ i > 0
  <2>1. t = r /\ Kept(t) => d = 1
    BY DEF OneIf
  <2>2. t = r /\ ~Kept(t) => j = 1
    BY DEF OneIf, Kept
  <2> HIDE DEF d, j
  <2> QED BY <2>1, <2>2 DEF Traced
<1> HIDE DEF c, d, i, j
<1>4. (Kept(t) => c + d > 0) /\ (~Kept(t) => i + j > 0)
  BY <1>2, <1>3
<1> QED BY <1>1, <1>4 DEF Traced

(* A worker presents a cookie of its own: one that came in a response to   *)
(* it, which it is about to record or has recorded.                        *)
THEOREM CookiesAreOwn == Spec => []CookieIsOwn
<1>1. Init => CookieInv
  BY DEF Init, CookieInv, Given
<1>2. ASSUME TypeInv, CountRcodes, CookieInv, [Next]_vars PROVE CookieInv'
  <2> DEFINE GivenTo(w) == Given(cookie[w], pc[w], reply[w], stats[w])
             GivenNext(w) == Given(cookie'[w], pc'[w], reply'[w], stats'[w])
  <2>1. \A v \in Workers : GivenTo(v)
    BY <1>2 DEF CookieInv
  <2>2. SUFFICES \A v \in Workers : GivenNext(v)
    BY DEF CookieInv, Given, GaveCookie, Traced
  <2>3. CASE UNCHANGED <<cookie, stats, reply, pc>>
    BY <2>1, <2>3
  <2>4. ASSUME NEW w \in Workers, Step(w) PROVE GivenNext(w)
    <3>1. /\ pc \in [Workers -> Places] /\ reply \in [Workers -> Replies]
          /\ cookie \in [Workers -> {"client", "echo", "foreign"}]
          /\ stats \in [Workers -> Stats(Starts)]
      BY <1>2 DEF TypeInv, TypeOK
    <3>2. ASSUME cookie'[w] = cookie[w], stats'[w] = stats[w],
                 \/ pc[w] \notin {"log", "record"}
                 \/ reply'[w] = reply[w] /\ pc'[w] \in {"log", "record"}
          PROVE  GivenNext(w)
      BY <2>1, <3>2 DEF Given, GaveCookie
    <3>3. CASE Spawn(w) \/ EndRound(w) \/ Finish(w) \/ Stopped(w) \/ Skip(w) \/ Proceed(w)
               \/ Acquire(w) \/ Abandon(w) \/ Send(w) \/ Drop(w) \/ Measure(w) \/ Panic(w)
      <4>1. UNCHANGED <<cookie, stats>> /\ pc[w] \notin {"log", "record"}
        BY <3>3
           DEF Spawn, EndRound, Finish, Stopped, Skip, Proceed, Acquire, Abandon, Send, Drop,
               Measure, Panic, Leave, Advance, At, AtPair, Waiting, Gates
      <4> QED BY <3>2, <4>1
    <3>4. CASE Respond(w)
      <4>1. PICK r \in Replies :
              /\ reply' = [reply EXCEPT ![w] = r]
              /\ cookie' = [cookie EXCEPT ![w] =
                   IF UseCookies /\ Answered(r) /\ r.cookie # "none" THEN r.cookie ELSE @]
        BY <3>4 DEF Respond
      <4>2. stats' = stats /\ pc[w] = "wait" /\ pc'[w] = "log"
        BY <3>1, <3>4 DEF Respond, At, GoTo
      <4>3. CASE UseCookies /\ Answered(r) /\ r.cookie # "none"
        <5>1. cookie'[w] = r.cookie /\ reply'[w] = r
          BY <3>1, <4>1, <4>3
        <5>2. GaveCookie(r, cookie'[w], pc'[w], reply'[w], stats'[w])
          BY <4>2, <4>3, <5>1 DEF GaveCookie
        <5> QED BY <5>2 DEF Given
      <4>4. CASE ~(UseCookies /\ Answered(r) /\ r.cookie # "none")
        BY <3>1, <3>2, <4>1, <4>2, <4>4
      <4> QED BY <4>3, <4>4
    <3>5. CASE Log(w)
      <4>1. /\ cookie' = cookie /\ stats' = stats /\ reply' = reply
            /\ pc'[w] = "record"
        BY <3>1, <3>5 DEF Log, GoTo
      <4> QED BY <3>2, <4>1
    <3>6. CASE RecordResult(w)
      <4> DEFINE rec == Record(stats[w], Query(slot[w]), reply[w], start[w])
      <4>1. cookie' = cookie /\ reply' = reply /\ stats'[w] = rec
        BY <3>1, <3>6 DEF RecordResult
      <4>2. SUFFICES ASSUME cookie[w] # "client" PROVE GivenNext(w)
        BY <4>1 DEF Given
      <4>3. PICK r \in Replies : GaveCookie(r, cookie[w], pc[w], reply[w], stats[w])
        BY <2>1, <4>2 DEF Given
      <4>4. r \in Reply /\ reply[w] \in Reply /\ stats[w] \in Stats(Starts)
        BY <3>1, BenchmarkAssumption
      <4>5. Answered(r) /\ (r = reply[w] \/ Traced(stats[w], r))
        BY <4>3 DEF GaveCookie
      <4>6. Traced(rec, r)
        BY <1>2, <4>4, <4>5, TraceStays
      <4> HIDE DEF rec
      <4>7. GaveCookie(r, cookie'[w], pc'[w], reply'[w], stats'[w])
        BY <4>1, <4>3, <4>6 DEF GaveCookie
      <4> QED BY <4>7 DEF Given
    <3> QED BY <2>4, <3>3, <3>4, <3>5, <3>6 DEF Step
  <2>5. ASSUME NEW w \in Workers, Step(w) PROVE \A v \in Workers : GivenNext(v)
    <3>1. ASSUME NEW v \in Workers, v # w PROVE GivenNext(v)
      BY <1>2, <2>1, <2>5, <3>1, OthersUntouched
    <3> QED BY <2>4, <2>5, <3>1
  <2> HIDE DEF GivenNext
  <2> QED BY <1>2, <2>3, <2>5 DEF Next, ClockPasses, Expire, Interrupt, ContextDone,
             RunReturns, Terminating, Grant, vars
<1>3. CookieInv => CookieIsOwn
  BY DEF CookieInv, CookieIsOwn, Given, GaveCookie, Traced
<1>4. ASSUME ~CountRcodes PROVE CookieIsOwn
  BY <1>4 DEF CookieIsOwn
<1>5. CASE CountRcodes
  BY <1>1, <1>2, <1>3, <1>5, Typed, PTL DEF Spec
<1>6. CASE ~CountRcodes
  BY <1>4, <1>6, PTL
<1> QED BY <1>5, <1>6

(***************************************************************************)
(* The end of Run.                                                         *)
(***************************************************************************)
ReturnsLast == returned => \A w \in Workers : pc[w] = "done"

(* A worker that has ended takes no step, and Run returns after the last.  *)
LEMMA Returns == Spec => []ReturnsLast
<1>1. Init => ReturnsLast
  BY DEF Init, ReturnsLast
<1>2. ASSUME TypeInv, ReturnsLast, [Next]_vars PROVE ReturnsLast'
  <2>1. ASSUME NEW w \in Workers, Step(w) PROVE pc[w] # "done" /\ returned' = returned
    BY <2>1 DEF Step, Spawn, EndRound, Finish, Stopped, Skip, Proceed, Acquire, Abandon, Send,
                Drop, Respond, Log, RecordResult, Measure, Panic, Leave, Advance, At, AtPair,
                Waiting, Gates
  <2>2. ASSUME NEW w \in Workers, Step(w) PROVE ReturnsLast'
    BY <1>2, <2>1, <2>2 DEF ReturnsLast
  <2> QED BY <1>2, <2>2 DEF ReturnsLast, Next, ClockPasses, Expire, Interrupt, ContextDone,
             RunReturns, Terminating, Grant, vars
<1> QED BY <1>1, <1>2, Typed, PTL DEF Spec

(***************************************************************************)
(* The exported metrics.                                                   *)
(***************************************************************************)
(* What the workers at p have recorded and not yet exported, which is what *)
(* measureProm is about to count of the replies r at the slots s.          *)
RequestsDue(p, s, t) == [w \in Workers |-> OneIf(p[w] = "measure" /\ Query(s[w]).qtype = t)]
ResponsesDue(p, r)   == [w \in Workers |-> OneIf(p[w] = "measure" /\ Answered(r[w]))]
ErrorsDue(p, r)      == [w \in Workers |-> OneIf(p[w] = "measure" /\ IsFailure(r[w]))]

Requested(st, t) == [w \in Workers |-> st[w].Qtypes[t]]
Totals(st)       == [w \in Workers |-> st[w].Total]
IOErrors(st)     == [w \in Workers |-> st[w].IOError]

RequestsInv(t, st, p, s, shown) ==
  Sum(Requested(st, t)) = shown.requests[t] + Sum(RequestsDue(p, s, t))
ResponsesInv(st, p, r, shown) ==
  Sum(Totals(st)) = Sum(shown.responses) + Sum(ResponsesDue(p, r)) + Sum(IOErrors(st))
ErrorsInv(st, p, r, shown) ==
  Sum(IOErrors(st)) = shown.errors + Sum(ErrorsDue(p, r))

MetricsInv ==
  /\ \A t \in QtypeSet : RequestsInv(t, stats, pc, slot, prom)
  /\ ResponsesInv(stats, pc, reply, prom) /\ ErrorsInv(stats, pc, reply, prom)

(* All of these are counters of the workers.                               *)
LEMMA ColumnsType ==
  ASSUME NEW st \in [Workers -> Stats(Starts)], NEW p, NEW s, NEW r
  PROVE  /\ ResponsesDue(p, r) \in [Workers -> Nat] /\ ErrorsDue(p, r) \in [Workers -> Nat]
         /\ Totals(st) \in [Workers -> Nat] /\ IOErrors(st) \in [Workers -> Nat]
         /\ \A t \in QtypeSet : /\ RequestsDue(p, s, t) \in [Workers -> Nat]
                                /\ Requested(st, t) \in [Workers -> Nat]
<1>1. \A w \in Workers : st[w] \in Stats(Starts)
  OBVIOUS
<1>2. \A b \in BOOLEAN : OneIf(b) \in Nat
  BY DEF OneIf
<1>3. \A w \in Workers : /\ st[w].Total \in Nat /\ st[w].IOError \in Nat
                         /\ st[w].Qtypes \in [QtypeSet -> Nat]
  BY <1>1 DEF Stats
<1> QED BY <1>2, <1>3 DEF ResponsesDue, ErrorsDue, Totals, IOErrors, RequestsDue, Requested,
                          IsFailure, Answered

(* One worker raises its counter by n: so does the sum.                    *)
LEMMA Raised ==
  ASSUME NEW f \in [Workers -> Nat], NEW g \in [Workers -> Nat],
         NEW w \in Workers, NEW n \in Nat, g[w] = f[w] + n,
         \A v \in Workers : v # w => g[v] = f[v]
  PROVE  Sum(g) = Sum(f) + n
<1>1. \A v \in Workers : g[v] = f[v] + IF v = w THEN n ELSE 0
  OBVIOUS
<1>2. IsFiniteSet(Workers) /\ DOMAIN g = Workers
  BY BenchmarkAssumption
<1>3. SumFunction(g) = SumFunction(f) + n
  BY <1>1, <1>2, SumAdded
<1> QED BY <1>3 DEF Sum

(* A sum over the workers is a number, and that of none is zero.           *)
LEMMA SumOfWorkers ==
  ASSUME NEW f \in [Workers -> Nat]
  PROVE  Sum(f) \in Nat /\ ((\A w \in Workers : f[w] = 0) => Sum(f) = 0)
<1>1. IsFiniteSet(Workers) /\ DOMAIN f = Workers
  BY BenchmarkAssumption
<1>2. SumFunction(f) \in Nat
  BY <1>1, SumType
<1>3. (\A w \in Workers : f[w] = 0) => SumFunction(f) = 0
  BY <1>1, SumZero
<1> QED BY <1>2, <1>3 DEF Sum

(* Recording a result makes it due.                                        *)
LEMMA RecordedIsDue ==
  ASSUME TypeInv, TypeInv', MetricsInv, NEW w \in Workers, RecordResult(w)
  PROVE  MetricsInv'
<1> DEFINE rec == Record(stats[w], Query(slot[w]), reply[w], start[w])
           f == OneIf(IsFailure(reply[w]))
           a == OneIf(Answered(reply[w]))
<1>1. /\ stats' = [stats EXCEPT ![w] = rec] /\ pc' = [pc EXCEPT ![w] = "measure"]
      /\ pc[w] = "record" /\ prom' = prom /\ slot' = slot /\ reply' = reply
  BY DEF RecordResult, At, GoTo
<1>2. stats'[w] = rec /\ pc'[w] = "measure"
  BY <1>1 DEF TypeInv, TypeOK
<1>3. \A v \in Workers : v # w => stats'[v] = stats[v] /\ pc'[v] = pc[v]
  BY <1>1 DEF TypeInv, TypeOK
<1>4. rec.Total = stats[w].Total + 1 /\ rec.IOError = stats[w].IOError + f
  BY DEF Record
<1>5. \A t \in QtypeSet : rec.Qtypes[t] = stats[w].Qtypes[t] + OneIf(t = Query(slot[w]).qtype)
  BY DEF Record
<1>6. f \in Nat /\ a \in Nat /\ a + f = 1
  BY DEF OneIf, IsFailure
<1>7. /\ stats \in [Workers -> Stats(Starts)] /\ stats' \in [Workers -> Stats(Starts)]
      /\ prom \in Metrics
  BY DEF TypeInv, TypeOK, Metrics
<1> HIDE DEF rec
<1>8. ASSUME NEW t \in QtypeSet PROVE RequestsInv(t, stats', pc', slot', prom')
  <2> DEFINE n == OneIf(Query(slot[w]).qtype = t)
             req == Requested(stats, t)
             due == RequestsDue(pc, slot, t)
             req2 == Requested(stats', t)
             due2 == RequestsDue(pc', slot', t)
  <2>1. n \in Nat /\ n = OneIf(t = Query(slot[w]).qtype)
    BY DEF OneIf
  <2>2. req2[w] = req[w] + n
    BY <1>2, <1>5, <2>1 DEF Requested
  <2>3. due2[w] = due[w] + n
    BY <1>1, <1>2 DEF RequestsDue, OneIf
  <2>4. \A v \in Workers : v # w => req2[v] = req[v] /\ due2[v] = due[v]
    BY <1>1, <1>3 DEF Requested, RequestsDue
  <2>5. /\ req \in [Workers -> Nat] /\ req2 \in [Workers -> Nat]
        /\ due \in [Workers -> Nat] /\ due2 \in [Workers -> Nat]
    BY <1>7, ColumnsType
  <2>6. Sum(req) = prom.requests[t] + Sum(due) /\ prom.requests[t] \in Nat
    BY <1>7 DEF MetricsInv, RequestsInv, Metrics
  <2> HIDE DEF n, req, due, req2, due2
  <2>7. Sum(req2) = Sum(req) + n /\ Sum(due2) = Sum(due) + n
    BY <2>1, <2>2, <2>3, <2>4, <2>5, Raised
  <2>8. Sum(due) \in Nat
    BY <2>5, SumOfWorkers
  <2>9. Sum(req2) = prom.requests[t] + Sum(due2)
    BY <2>1, <2>6, <2>7, <2>8
  <2> QED BY <1>1, <2>9 DEF RequestsInv, req2, due2
<1> DEFINE tot == Totals(stats)
           tot2 == Totals(stats')
           io == IOErrors(stats)
           io2 == IOErrors(stats')
           resp == ResponsesDue(pc, reply)
           resp2 == ResponsesDue(pc', reply')
           err == ErrorsDue(pc, reply)
           err2 == ErrorsDue(pc', reply')
<1>9. tot2[w] = tot[w] + 1 /\ io2[w] = io[w] + f
  BY <1>2, <1>4 DEF Totals, IOErrors
<1>10. resp2[w] = resp[w] + a /\ err2[w] = err[w] + f
  <2>1. resp2[w] = a /\ err2[w] = f
    BY <1>1, <1>2 DEF ResponsesDue, ErrorsDue, OneIf
  <2>2. resp[w] = 0 /\ err[w] = 0
    BY <1>1 DEF ResponsesDue, ErrorsDue, OneIf
  <2> HIDE DEF a, f, resp, resp2, err, err2
  <2> QED BY <1>6, <2>1, <2>2
<1>11. \A v \in Workers : v # w => /\ tot2[v] = tot[v] /\ io2[v] = io[v]
                                   /\ resp2[v] = resp[v] /\ err2[v] = err[v]
  BY <1>1, <1>3 DEF Totals, IOErrors, ResponsesDue, ErrorsDue
<1>12. /\ tot \in [Workers -> Nat] /\ tot2 \in [Workers -> Nat]
       /\ io \in [Workers -> Nat] /\ io2 \in [Workers -> Nat]
       /\ resp \in [Workers -> Nat] /\ resp2 \in [Workers -> Nat]
       /\ err \in [Workers -> Nat] /\ err2 \in [Workers -> Nat]
  BY <1>7, ColumnsType
<1>13. /\ Sum(tot) = Sum(prom.responses) + Sum(resp) + Sum(io)
       /\ Sum(io) = prom.errors + Sum(err) /\ prom.errors \in Nat
  BY <1>7 DEF MetricsInv, ResponsesInv, ErrorsInv, Metrics
<1>14. Sum(prom.responses) \in Nat
  BY <1>7, SumType, ResultStatsAssumption DEF Metrics, Sum
<1> HIDE DEF f, a, tot, tot2, io, io2, resp, resp2, err, err2
<1>15. Sum(tot2) = Sum(tot) + 1 /\ Sum(io2) = Sum(io) + f
  <2>1. /\ tot \in [Workers -> Nat] /\ tot2 \in [Workers -> Nat] /\ 1 \in Nat
        /\ tot2[w] = tot[w] + 1 /\ \A v \in Workers : v # w => tot2[v] = tot[v]
    BY <1>9, <1>11, <1>12
  <2>2. Sum(tot2) = Sum(tot) + 1
    BY <2>1, Raised
  <2>3. /\ io \in [Workers -> Nat] /\ io2 \in [Workers -> Nat] /\ f \in Nat
        /\ io2[w] = io[w] + f /\ \A v \in Workers : v # w => io2[v] = io[v]
    BY <1>6, <1>9, <1>11, <1>12
  <2>4. Sum(io2) = Sum(io) + f
    BY <2>3, Raised
  <2> QED BY <2>2, <2>4
<1>16. Sum(resp2) = Sum(resp) + a /\ Sum(err2) = Sum(err) + f
  <2>1. /\ resp \in [Workers -> Nat] /\ resp2 \in [Workers -> Nat] /\ a \in Nat
        /\ resp2[w] = resp[w] + a /\ \A v \in Workers : v # w => resp2[v] = resp[v]
    BY <1>6, <1>10, <1>11, <1>12
  <2>2. Sum(resp2) = Sum(resp) + a
    BY <2>1, Raised
  <2>3. /\ err \in [Workers -> Nat] /\ err2 \in [Workers -> Nat] /\ f \in Nat
        /\ err2[w] = err[w] + f /\ \A v \in Workers : v # w => err2[v] = err[v]
    BY <1>6, <1>10, <1>11, <1>12
  <2>4. Sum(err2) = Sum(err) + f
    BY <2>3, Raised
  <2> QED BY <2>2, <2>4
<1>17. Sum(resp) \in Nat /\ Sum(io) \in Nat /\ Sum(err) \in Nat
  BY <1>12, SumOfWorkers
<1>18. /\ Sum(tot2) = Sum(prom.responses) + Sum(resp2) + Sum(io2)
       /\ Sum(io2) = prom.errors + Sum(err2)
  BY <1>6, <1>13, <1>14, <1>15, <1>16, <1>17
<1>19. ResponsesInv(stats', pc', reply', prom') /\ ErrorsInv(stats', pc', reply', prom')
  BY <1>1, <1>18 DEF ResponsesInv, ErrorsInv, tot2, io2, resp2, err2
<1> QED BY <1>8, <1>19 DEF MetricsInv

(* measureProm counts what is due.                                         *)
LEMMA MeasuredIsShown ==
  ASSUME TypeInv, TypeInv', MetricsInv, NEW w \in Workers, Measure(w), Prometheus
  PROVE  MetricsInv'
<1> DEFINE q == Query(slot[w])
           f == OneIf(IsFailure(reply[w]))
           a == OneIf(Answered(reply[w]))
<1>1. /\ pc' = [pc EXCEPT ![w] = "loop"] /\ pc[w] = "measure"
      /\ prom' = Exported(prom, q, reply[w])
      /\ slot' = [slot EXCEPT ![w] = NextSlot(@)] /\ reply' = [reply EXCEPT ![w] = Unset]
      /\ stats' = stats
  BY DEF Measure, At, GoTo
<1>2. \A v \in Workers : v # w => slot'[v] = slot[v] /\ reply'[v] = reply[v] /\ pc'[v] = pc[v]
  BY <1>1 DEF TypeInv, TypeOK
<1>3. pc'[w] = "loop"
  BY <1>1 DEF TypeInv, TypeOK
<1>4. f \in Nat /\ a \in Nat
  BY DEF OneIf
<1>5. reply[w] \in Reply /\ reply[w].rcode \in RcodeSet
  <2>1. reply[w] \in Reply
    BY BenchmarkAssumption DEF TypeInv, TypeOK
  <2> QED BY <2>1 DEF Reply
<1>6. stats \in [Workers -> Stats(Starts)] /\ prom \in Metrics /\ prom' \in Metrics
  BY DEF TypeInv, TypeOK, Metrics
<1>7. ASSUME NEW t \in QtypeSet PROVE RequestsInv(t, stats', pc', slot', prom')
  <2> DEFINE n == OneIf(q.qtype = t)
             due == RequestsDue(pc, slot, t)
             due2 == RequestsDue(pc', slot', t)
  <2>1. n \in Nat
    BY DEF OneIf
  <2>2. prom'.requests[t] = prom.requests[t] + n
    <3>1. prom'.requests = [prom.requests EXCEPT ![q.qtype] = @ + 1]
      BY <1>1 DEF Exported
    <3>2. prom.requests \in [QtypeSet -> Nat]
      BY <1>6 DEF Metrics
    <3> HIDE DEF q
    <3> QED BY <3>1, <3>2 DEF OneIf
  <2>3. due2[w] = 0 /\ due[w] = n
    BY <1>1, <1>3 DEF RequestsDue, OneIf
  <2>4. \A v \in Workers : v # w => due[v] = due2[v]
    BY <1>2 DEF RequestsDue
  <2>5. due \in [Workers -> Nat] /\ due2 \in [Workers -> Nat]
    BY <1>6, ColumnsType
  <2>6. /\ Sum(Requested(stats', t)) = prom.requests[t] + Sum(due)
        /\ prom.requests[t] \in Nat
    BY <1>1, <1>6 DEF MetricsInv, RequestsInv, Metrics
  <2> HIDE DEF n, due, due2
  <2>7. due[w] = due2[w] + n
    BY <2>1, <2>3
  <2>8. Sum(due) = Sum(due2) + n
    BY <2>1, <2>4, <2>5, <2>7, Raised
  <2>9. Sum(due2) \in Nat
    BY <2>5, SumOfWorkers
  <2>10. Sum(Requested(stats', t)) = prom'.requests[t] + Sum(due2)
    BY <2>1, <2>2, <2>6, <2>8, <2>9
  <2> QED BY <2>10 DEF RequestsInv, due2
<1> DEFINE io == IOErrors(stats)
           resp == ResponsesDue(pc, reply)
           resp2 == ResponsesDue(pc', reply')
           err == ErrorsDue(pc, reply)
           err2 == ErrorsDue(pc', reply')
           shown == prom.responses
           shown2 == prom'.responses
<1>8. resp[w] = resp2[w] + a /\ err[w] = err2[w] + f
  <2>1. resp2[w] = 0 /\ err2[w] = 0
    BY <1>3 DEF ResponsesDue, ErrorsDue, OneIf
  <2>2. resp[w] = a /\ err[w] = f
    BY <1>1 DEF ResponsesDue, ErrorsDue, OneIf
  <2> HIDE DEF a, f, resp, resp2, err, err2
  <2> QED BY <1>4, <2>1, <2>2
<1>9. \A v \in Workers : v # w => resp[v] = resp2[v] /\ err[v] = err2[v]
  BY <1>2 DEF ResponsesDue, ErrorsDue
<1>10. /\ resp \in [Workers -> Nat] /\ resp2 \in [Workers -> Nat]
       /\ err \in [Workers -> Nat] /\ err2 \in [Workers -> Nat] /\ io \in [Workers -> Nat]
  BY <1>6, ColumnsType
<1>11. /\ Sum(Totals(stats)) = Sum(shown) + Sum(resp) + Sum(io)
       /\ Sum(io) = prom.errors + Sum(err) /\ prom.errors \in Nat
  BY <1>6 DEF MetricsInv, ResponsesInv, ErrorsInv, Metrics
<1>12. prom'.errors = prom.errors + f
  BY <1>1 DEF Exported
<1>13. shown \in [RcodeSet -> Nat] /\ shown2 \in [RcodeSet -> Nat]
  BY <1>6 DEF Metrics
<1>14. \A c \in RcodeSet : shown2[c] = shown[c] + IF c = reply[w].rcode THEN a ELSE 0
  <2>1. shown2 = [shown EXCEPT ![reply[w].rcode] = @ + a]
    BY <1>1 DEF Exported
  <2> HIDE DEF a, shown, shown2
  <2> QED BY <1>13, <2>1
<1> HIDE DEF f, a, io, resp, resp2, err, err2, shown, shown2
<1>15. Sum(shown2) = Sum(shown) + a /\ Sum(shown) \in Nat
  <2>1. IsFiniteSet(RcodeSet) /\ DOMAIN shown2 = RcodeSet
    BY <1>13, ResultStatsAssumption
  <2>2. SumFunction(shown2) = SumFunction(shown) + a
    <3> DEFINE c == reply[w].rcode
    <3>1. c \in RcodeSet /\ IsFiniteSet(RcodeSet)
      BY <1>5, <2>1
    <3> HIDE DEF c
    <3>2. shown2[c] = shown[c] + a /\ \A x \in RcodeSet : x # c => shown2[x] = shown[x]
      BY <1>13, <1>14, <3>1 DEF c
    <3> QED BY <1>4, <1>13, <3>1, <3>2, SumRaised
  <2>3. SumFunction(shown) \in Nat
    BY <1>13, <2>1, SumType
  <2> QED BY <2>2, <2>3 DEF Sum
<1>16. Sum(resp) = Sum(resp2) + a /\ Sum(err) = Sum(err2) + f
  BY <1>4, <1>8, <1>9, <1>10, Raised
<1>17. Sum(resp2) \in Nat /\ Sum(io) \in Nat /\ Sum(err2) \in Nat
  BY <1>10, SumOfWorkers
<1>18. /\ Sum(Totals(stats)) = Sum(shown2) + Sum(resp2) + Sum(io)
       /\ Sum(io) = prom'.errors + Sum(err2)
  BY <1>4, <1>11, <1>12, <1>15, <1>16, <1>17
<1>19. ResponsesInv(stats', pc', reply', prom') /\ ErrorsInv(stats', pc', reply', prom')
  BY <1>1, <1>18 DEF ResponsesInv, ErrorsInv, io, resp2, err2, shown2
<1> QED BY <1>7, <1>19 DEF MetricsInv

(* Every other step leaves the metrics and what is due alone.              *)
LEMMA MetricsFrame ==
  ASSUME TypeInv, MetricsInv, [Next]_vars, \A w \in Workers : ~RecordResult(w) /\ ~Measure(w)
  PROVE  MetricsInv'
<1>1. stats' = stats /\ prom' = prom
  <2>1. ASSUME NEW w \in Workers, Step(w) PROVE stats' = stats /\ prom' = prom
    BY <2>1 DEF Step, Spawn, EndRound, Finish, Stopped, Skip, Proceed, Acquire, Abandon, Send,
                Drop, Respond, Log, Panic, Leave, Advance
  <2> QED BY <2>1 DEF Next, ClockPasses, Expire, Interrupt, ContextDone, RunReturns,
             Terminating, Grant, vars
<1>2. ASSUME NEW v \in Workers
      PROVE  \/ pc'[v] # "measure" /\ pc[v] # "measure"
             \/ pc'[v] = pc[v] /\ slot'[v] = slot[v] /\ reply'[v] = reply[v]
  <2>1. CASE UNCHANGED <<pc, slot, reply>>
    BY <2>1
  <2>2. ASSUME Step(v) PROVE <1>2!2
    BY <2>2
       DEF TypeInv, TypeOK, Step, Spawn, EndRound, Finish, Stopped, Skip, Proceed, Acquire,
           Abandon, Send, Drop, Respond, Log, Panic, Leave, Advance, After, GoTo, At, AtPair,
           Waiting, Gates
  <2>3. ASSUME NEW w \in Workers, w # v, Step(w) PROVE <1>2!2
    BY <2>3, OthersUntouched
  <2> QED BY <2>1, <2>2, <2>3 DEF Next, ClockPasses, Expire, Interrupt, ContextDone,
             RunReturns, Terminating, Grant, vars
<1>3. ASSUME NEW t \in QtypeSet PROVE RequestsDue(pc', slot', t) = RequestsDue(pc, slot, t)
  BY <1>2 DEF RequestsDue, OneIf
<1>4. /\ ResponsesDue(pc', reply') = ResponsesDue(pc, reply)
      /\ ErrorsDue(pc', reply') = ErrorsDue(pc, reply)
  BY <1>2 DEF ResponsesDue, ErrorsDue, OneIf
<1> QED BY <1>1, <1>3, <1>4 DEF MetricsInv, RequestsInv, ResponsesInv, ErrorsInv

(* What the exporter shows when Run has returned is what the report is     *)
(* about to print, whatever was measured in which order.                   *)
THEOREM MetricsAgreed == Spec => []MetricsAgree
<1>1. Init => MetricsInv
  <2> SUFFICES ASSUME Init PROVE MetricsInv
    OBVIOUS
  <2>1. stats \in [Workers -> Stats(Starts)]
    BY TypeInvInit DEF TypeInv, TypeOK
  <2>2. /\ \A w \in Workers : Totals(stats)[w] = 0 /\ IOErrors(stats)[w] = 0
        /\ \A w \in Workers : ResponsesDue(pc, reply)[w] = 0 /\ ErrorsDue(pc, reply)[w] = 0
        /\ \A t \in QtypeSet, w \in Workers : /\ Requested(stats, t)[w] = 0
                                              /\ RequestsDue(pc, slot, t)[w] = 0
    BY DEF Init, NewResultStats, Totals, IOErrors, ResponsesDue, ErrorsDue, Requested,
           RequestsDue, OneIf
  <2>3. /\ Sum(Totals(stats)) = 0 /\ Sum(IOErrors(stats)) = 0
        /\ Sum(ResponsesDue(pc, reply)) = 0 /\ Sum(ErrorsDue(pc, reply)) = 0
    BY <2>1, <2>2, ColumnsType, SumOfWorkers
  <2>4. ASSUME NEW t \in QtypeSet
        PROVE  Sum(Requested(stats, t)) = 0 /\ Sum(RequestsDue(pc, slot, t)) = 0
    BY <2>1, <2>2, ColumnsType, SumOfWorkers
  <2>5. Sum(prom.responses) = 0
    <3>1. DOMAIN prom.responses = RcodeSet /\ \A c \in RcodeSet : prom.responses[c] = 0
      BY DEF Init
    <3> QED BY <3>1, SumZero, ResultStatsAssumption DEF Sum
  <2>6. prom.errors = 0 /\ \A t \in QtypeSet : prom.requests[t] = 0
    BY DEF Init
  <2> QED BY <2>3, <2>4, <2>5, <2>6 DEF MetricsInv, RequestsInv, ResponsesInv, ErrorsInv
<1>2. ASSUME TypeInv, TypeInv', Prometheus, MetricsInv, [Next]_vars PROVE MetricsInv'
  <2>1. CASE \E w \in Workers : RecordResult(w)
    BY <1>2, <2>1, RecordedIsDue
  <2>2. CASE \E w \in Workers : Measure(w)
    BY <1>2, <2>2, MeasuredIsShown
  <2> QED BY <1>2, <2>1, <2>2, MetricsFrame
<1>3. ASSUME TypeInv, MetricsInv, ReturnsLast PROVE MetricsAgree
  <2> SUFFICES ASSUME returned
        PROVE  /\ \A t \in QtypeSet : prom.requests[t] = Sum(Requested(stats, t))
               /\ Sum(prom.responses) = Sum(Totals(stats)) - Sum(IOErrors(stats))
               /\ prom.errors = Sum(IOErrors(stats))
    BY DEF MetricsAgree, Recorded, Requested, Totals, IOErrors
  <2>1. stats \in [Workers -> Stats(Starts)] /\ prom \in Metrics
    BY <1>3 DEF TypeInv, TypeOK, Metrics
  <2>2. \A w \in Workers : pc[w] # "measure"
    BY <1>3 DEF ReturnsLast
  <2>3. /\ \A w \in Workers : ResponsesDue(pc, reply)[w] = 0 /\ ErrorsDue(pc, reply)[w] = 0
        /\ \A t \in QtypeSet, w \in Workers : RequestsDue(pc, slot, t)[w] = 0
    BY <2>2 DEF ResponsesDue, ErrorsDue, RequestsDue, OneIf
  <2>4. /\ Sum(ResponsesDue(pc, reply)) = 0 /\ Sum(ErrorsDue(pc, reply)) = 0
        /\ \A t \in QtypeSet : Sum(RequestsDue(pc, slot, t)) = 0
    BY <2>1, <2>3, ColumnsType, SumOfWorkers
  <2>5. /\ Sum(Totals(stats)) \in Nat /\ Sum(IOErrors(stats)) \in Nat
    BY <2>1, ColumnsType, SumOfWorkers
  <2>6. /\ prom.errors \in Nat /\ \A t \in QtypeSet : prom.requests[t] \in Nat
    BY <2>1 DEF Metrics
  <2>7. Sum(prom.responses) \in Nat
    BY <2>1, SumType, ResultStatsAssumption DEF Metrics, Sum
  <2>8. \A t \in QtypeSet : prom.requests[t] = Sum(Requested(stats, t))
    BY <1>3, <2>4, <2>6 DEF MetricsInv, RequestsInv
  <2>9. /\ Sum(Totals(stats)) = Sum(prom.responses) + 0 + Sum(IOErrors(stats))
        /\ Sum(IOErrors(stats)) = prom.errors + 0
    BY <1>3, <2>4 DEF MetricsInv, ResponsesInv, ErrorsInv
  <2> QED BY <2>5, <2>6, <2>7, <2>8, <2>9
<1>4. ~Prometheus => MetricsAgree
  BY DEF MetricsAgree
<1>5. CASE Prometheus
  BY <1>1, <1>2, <1>3, <1>5, Typed, Returns, PTL DEF Spec
<1>6. CASE ~Prometheus
  BY <1>4, <1>6, PTL
<1> QED BY <1>5, <1>6

(***************************************************************************)
(* How far a worker of a counted run has come.                             *)
(***************************************************************************)
(* A worker in its round i at the slot s: when the last round is over it   *)
(* is back at the first slot, and only a wanted round is worked on.        *)
Placed(i, s, p) ==
  /\ i <= Count
  /\ i = Count => s = FirstSlot /\ p \notin InBody
  /\ s.q > Len(Questions) => s.t = 1

PlaceInv == \A w \in Workers : Placed(iter[w], slot[w], pc[w])

(* The sizes of the loops are numbers.                                     *)
LEMMA LoopSizes ==
  /\ Questions \in Seq(Names) /\ Len(Questions) \in Nat
  /\ QTypes \in Seq(QtypeSet) /\ Len(QTypes) \in Nat /\ Len(QTypes) >= 1
  /\ Count \in Nat
BY BenchmarkAssumption

(* The loops visit the slots in order and end where a round ends.          *)
LEMMA PlacesKept == ~Timed => (Spec => []PlaceInv)
<1> SUFFICES ASSUME ~Timed PROVE Spec => []PlaceInv
  OBVIOUS
<1> USE LoopSizes
<1>1. Init => PlaceInv
  BY DEF Init, PlaceInv, Placed, FirstSlot, InBody
<1>2. ASSUME TypeInv, PlaceInv, [Next]_vars PROVE PlaceInv'
  <2>1. /\ pc \in [Workers -> Places] /\ iter \in [Workers -> Nat]
        /\ slot \in [Workers -> Slots]
    BY <1>2 DEF TypeInv, TypeOK
  <2>2. ASSUME NEW w \in Workers, Step(w) PROVE Placed(iter'[w], slot'[w], pc'[w])
    <3>1. /\ Placed(iter[w], slot[w], pc[w]) /\ iter[w] \in Nat /\ slot[w] \in Slots
          /\ pc[w] \in InBody => slot[w].q <= Len(Questions)
      BY <1>2, <2>1 DEF PlaceInv, TypeInv
    <3>2. CASE EndRound(w)
      <4>1. iter'[w] = iter[w] + 1 /\ slot'[w] = FirstSlot /\ pc'[w] = "loop" /\ iter[w] < Count
        BY <2>1, <3>2 DEF EndRound, RoundWanted, At
      <4> QED BY <3>1, <4>1 DEF Placed, FirstSlot, InBody
    <3>3. CASE Skip(w) \/ Measure(w)
      <4>1. /\ iter'[w] = iter[w] /\ slot'[w] = NextSlot(slot[w]) /\ pc'[w] = "loop"
        BY <2>1, <3>3 DEF Skip, Measure, AtPair, At, GoTo
      <4>2. iter[w] < Count /\ slot[w].q <= Len(Questions)
        <5>1. CASE Skip(w)
          BY <5>1 DEF Skip, AtPair, RoundWanted
        <5>2. CASE Measure(w)
          <6>1. pc[w] \in InBody
            BY <5>2 DEF Measure, At, InBody
          <6> QED BY <3>1, <6>1 DEF Placed
        <5> QED BY <3>3, <5>1, <5>2
      <4> QED BY <3>1, <4>1, <4>2 DEF Placed, NextSlot, Slots
    <3>4. CASE Proceed(w)
      <4>1. iter'[w] = iter[w] /\ slot'[w] = slot[w] /\ iter[w] < Count
        BY <3>4 DEF Proceed, AtPair, RoundWanted, Advance
      <4> QED BY <3>1, <4>1 DEF Placed
    <3>5. CASE /\ ~EndRound(w) /\ ~Skip(w) /\ ~Measure(w) /\ ~Proceed(w)
      <4>1. iter' = iter /\ slot' = slot
        BY <2>2, <3>5 DEF Step, Spawn, Finish, Stopped, Acquire, Abandon, Send, Drop, Respond,
                          Log, RecordResult, Panic, Leave, Advance
      <4>2. pc'[w] \in InBody => pc[w] \in InBody
        BY <2>1, <2>2, <3>5 DEF Step, Spawn, Finish, Stopped, Acquire, Abandon, Send, Drop,
             Respond, Log, RecordResult, Panic, Leave, Advance, At, GoTo, Waiting, Gates, InBody
      <4> QED BY <3>1, <4>1, <4>2 DEF Placed
    <3> QED BY <3>2, <3>3, <3>4, <3>5
  <2>3. ASSUME NEW w \in Workers, Step(w) PROVE PlaceInv'
    BY <1>2, <2>2, <2>3, OthersUntouched DEF PlaceInv
  <2>4. CASE UNCHANGED <<iter, slot, pc>>
    BY <1>2, <2>4 DEF PlaceInv
  <2> QED BY <1>2, <2>3, <2>4 DEF Next, ClockPasses, Expire, Interrupt, ContextDone,
             RunReturns, Terminating, Grant, vars
<1> QED BY <1>1, <1>2, Typed, PTL DEF Spec

(* The pairs of a question and a type that come before the slot s of the   *)
(* round i.                                                                *)
Passed(i, s) == i * (Len(Questions) * Len(QTypes)) + (s.q - 1) * Len(QTypes) + (s.t - 1)

(* The loops in plain numbers: n questions, m types, c rounds.             *)
LEMMA LoopArithmetic ==
  ASSUME NEW i \in Nat, NEW c \in Nat, NEW n \in Nat, NEW m \in Nat,
         NEW q \in Nat, NEW t \in Nat
  PROVE  /\ (i + 1) * (n * m) = i * (n * m) + ((n + 1) - 1) * m + (1 - 1)
         /\ i * (n * m) + ((q + 1) - 1) * m + (1 - 1) = i * (n * m) + (q - 1) * m + (m - 1) + 1
         /\ i < c /\ 1 <= q /\ q <= n /\ 1 <= t /\ t <= m =>
              i * (n * m) + (q - 1) * m + (t - 1) + 1 <= c * (n * m)
<1>1. (i + 1) * (n * m) = i * (n * m) + ((n + 1) - 1) * m + (1 - 1)
  OBVIOUS
<1>2. i * (n * m) + ((q + 1) - 1) * m + (1 - 1) = i * (n * m) + (q - 1) * m + (m - 1) + 1
  OBVIOUS
<1>3. ASSUME i < c, 1 <= q, q <= n, 1 <= t, t <= m
      PROVE  i * (n * m) + (q - 1) * m + (t - 1) + 1 <= c * (n * m)
  <2> DEFINE d == c - i - 1
             e == n - q
             p == n * m
  <2>1. d \in Nat /\ c = i + 1 + d /\ e \in Nat /\ n = q + e
    BY <1>3
  <2>2. p \in Nat /\ d * p \in Nat /\ e * m \in Nat
    BY <2>1
  <2>3. p = (q - 1) * m + m + e * m
    BY <2>1
  <2> HIDE DEF d, e, p
  <2>4. c * p = i * p + p + d * p
    BY <2>1, <2>2
  <2>5. i * p + (q - 1) * m + (t - 1) + 1 <= c * p
    BY <1>3, <2>2, <2>3, <2>4
  <2> QED BY <2>5 DEF p
<1> QED BY <1>1, <1>2, <1>3

(* One pair after the other, round after round.                            *)
LEMMA PassedSteps ==
  ASSUME NEW i \in Nat, NEW s \in Slots
  PROVE  /\ Passed(i, s) \in Nat
         /\ s.q <= Len(Questions) => Passed(i, NextSlot(s)) = Passed(i, s) + 1
         /\ s.q > Len(Questions) /\ s.t = 1 => Passed(i + 1, FirstSlot) = Passed(i, s)
         /\ i < Count /\ s.q <= Len(Questions) =>
              Passed(i, s) + 1 <= Count * (Len(Questions) * Len(QTypes))
<1> DEFINE n == Len(Questions)
           m == Len(QTypes)
           q == s.q
           t == s.t
<1>1. /\ n \in Nat /\ m \in Nat /\ m >= 1 /\ q \in Nat /\ t \in Nat /\ Count \in Nat
      /\ 1 <= q /\ q <= n + 1 /\ 1 <= t /\ t <= m
  BY LoopSizes DEF Slots
<1>2. Passed(i, s) = i * (n * m) + (q - 1) * m + (t - 1)
  BY DEF Passed
<1>3. /\ s.q > n /\ s.t = 1 => q = n + 1 /\ t = 1
      /\ Passed(i + 1, FirstSlot) = (i + 1) * (n * m) + (1 - 1) * m + (1 - 1)
  BY <1>1 DEF Passed, FirstSlot
<1>4. CASE t < m
  <2>1. Passed(i, NextSlot(s)) = i * (n * m) + (q - 1) * m + ((t + 1) - 1)
    BY <1>4 DEF NextSlot, Passed, Slots
  <2> HIDE DEF n, m, q, t
  <2>2. i * (n * m) \in Nat /\ (q - 1) * m \in Nat
    BY <1>1
  <2>3. Passed(i, s) \in Nat /\ Passed(i, NextSlot(s)) = Passed(i, s) + 1
    BY <1>1, <1>2, <2>1, <2>2
  <2>4. q = n + 1 /\ t = 1 => Passed(i + 1, FirstSlot) = Passed(i, s)
    BY <1>1, <1>2, <1>3, LoopArithmetic
  <2>5. i < Count /\ q <= n => Passed(i, s) + 1 <= Count * (n * m)
    BY <1>1, <1>2, LoopArithmetic
  <2> QED BY <1>3, <2>3, <2>4, <2>5 DEF n, m, q, t
<1>5. CASE t = m
  <2>1. Passed(i, NextSlot(s)) = i * (n * m) + ((q + 1) - 1) * m + (1 - 1)
    BY <1>5 DEF NextSlot, Passed, Slots
  <2> HIDE DEF n, m, q, t
  <2>2. i * (n * m) \in Nat /\ (q - 1) * m \in Nat
    BY <1>1
  <2>3. Passed(i, s) \in Nat
    BY <1>1, <1>2, <2>2
  <2>4. Passed(i, NextSlot(s)) = Passed(i, s) + 1
    BY <1>1, <1>2, <1>5, <2>1, LoopArithmetic
  <2>5. q = n + 1 /\ t = 1 => Passed(i + 1, FirstSlot) = Passed(i, s)
    BY <1>1, <1>2, <1>3, LoopArithmetic
  <2>6. i < Count /\ q <= n => Passed(i, s) + 1 <= Count * (n * m)
    BY <1>1, <1>2, LoopArithmetic
  <2> QED BY <1>3, <2>3, <2>4, <2>5, <2>6 DEF n, m, q, t
<1> QED BY <1>1, <1>4, <1>5

(* A worker has recorded no more than the pairs it has passed, with the    *)
(* one it is at once that is recorded.                                     *)
ShareInv == \A w \in Workers : stats[w].Total <= Passed(iter[w], slot[w]) + OneIf(pc[w] = "measure")

(* A worker of a counted run never records more than its share.            *)
LEMMA SharesKept == ~Timed => (Spec => []ShareInv)
<1> SUFFICES ASSUME ~Timed PROVE Spec => []ShareInv
  OBVIOUS
<1>1. Init => ShareInv
  <2> SUFFICES ASSUME Init, NEW w \in Workers
               PROVE  stats[w].Total <= Passed(iter[w], slot[w]) + OneIf(pc[w] = "measure")
    BY DEF ShareInv
  <2>1. stats[w].Total = 0 /\ iter[w] \in Nat /\ slot[w] \in Slots /\ pc[w] # "measure"
    BY SlotsType DEF Init, NewResultStats
  <2>2. Passed(iter[w], slot[w]) \in Nat
    BY <2>1, PassedSteps
  <2> QED BY <2>1, <2>2 DEF OneIf
<1>2. ASSUME TypeInv, PlaceInv, ShareInv, [Next]_vars PROVE ShareInv'
  <2>1. /\ pc \in [Workers -> Places] /\ iter \in [Workers -> Nat]
        /\ slot \in [Workers -> Slots] /\ stats \in [Workers -> Stats(Starts)]
    BY <1>2 DEF TypeInv, TypeOK
  <2> DEFINE Kept2(w) ==
        stats'[w].Total <= Passed(iter'[w], slot'[w]) + OneIf(pc'[w] = "measure")
  <2>2. ASSUME NEW w \in Workers, Step(w) PROVE Kept2(w)
    <3> DEFINE n == stats[w].Total
               p == Passed(iter[w], slot[w])
    <3>1. /\ Placed(iter[w], slot[w], pc[w]) /\ iter[w] \in Nat /\ slot[w] \in Slots
          /\ pc[w] \in InBody => slot[w].q <= Len(Questions)
      BY <1>2, <2>1 DEF PlaceInv, TypeInv
    <3>2. n \in Nat /\ p \in Nat
      BY <2>1, <3>1, PassedSteps, CountersAreNat
    <3>3. /\ n <= p + OneIf(pc[w] = "measure")
      BY <1>2 DEF ShareInv
    <3>4. CASE EndRound(w)
      <4>1. /\ iter'[w] = iter[w] + 1 /\ slot'[w] = FirstSlot /\ pc'[w] = "loop"
            /\ pc[w] = "loop" /\ stats'[w].Total = n /\ slot[w].q > Len(Questions)
        BY <2>1, <3>4 DEF EndRound, At
      <4>2. Passed(iter'[w], slot'[w]) = p
        BY <3>1, <4>1, PassedSteps DEF Placed
      <4> HIDE DEF n, p
      <4> QED BY <3>2, <3>3, <4>1, <4>2 DEF OneIf
    <3>5. CASE Skip(w) \/ Measure(w)
      <4>1. /\ iter'[w] = iter[w] /\ slot'[w] = NextSlot(slot[w]) /\ pc'[w] = "loop"
            /\ stats'[w].Total = n
        BY <2>1, <3>5 DEF Skip, Measure, AtPair, At, GoTo
      <4>2. slot[w].q <= Len(Questions)
        BY <3>1, <3>5 DEF Skip, Measure, AtPair, At, InBody
      <4>3. Passed(iter'[w], slot'[w]) = p + 1
        <5>1. Passed(iter[w], NextSlot(slot[w])) = p + 1
          BY <3>1, <4>2, PassedSteps
        <5> QED BY <4>1, <5>1
      <4>4. OneIf(pc[w] = "measure") \in {0, 1} /\ OneIf(pc'[w] = "measure") \in {0, 1}
        BY DEF OneIf
      <4> HIDE DEF n, p
      <4>5. n <= p + 1
        BY <3>2, <3>3, <4>4
      <4> QED BY <3>2, <4>1, <4>3, <4>4, <4>5
    <3>6. CASE RecordResult(w)
      <4>1. /\ iter'[w] = iter[w] /\ slot'[w] = slot[w] /\ pc'[w] = "measure"
            /\ pc[w] = "record" /\ stats'[w].Total = n + 1
        BY <2>1, <3>6 DEF RecordResult, At, GoTo, Record
      <4> HIDE DEF n
      <4> QED BY <3>2, <3>3, <4>1 DEF OneIf
    <3>7. CASE ~EndRound(w) /\ ~Skip(w) /\ ~Measure(w) /\ ~RecordResult(w)
      <4>1. iter' = iter /\ slot' = slot /\ stats' = stats
        BY <2>2, <3>7 DEF Step, Spawn, Finish, Stopped, Proceed, Acquire, Abandon, Send, Drop,
                          Respond, Log, Panic, Leave, Advance
      <4>2. (pc'[w] = "measure") = (pc[w] = "measure")
        BY <2>1, <2>2, <3>7 DEF Step, Spawn, Finish, Stopped, Proceed, Acquire, Abandon, Send,
             Drop, Respond, Log, Panic, Leave, Advance, After, At, AtPair, GoTo, Waiting, Gates
      <4> QED BY <3>3, <4>1, <4>2
    <3> QED BY <3>4, <3>5, <3>6, <3>7
  <2>3. ASSUME NEW w \in Workers, Step(w) PROVE ShareInv'
    <3>1. \A v \in Workers : Kept2(v)
      BY <1>2, <2>2, <2>3, OthersUntouched DEF ShareInv
    <3> QED BY <3>1 DEF ShareInv, Passed, OneIf
  <2>4. CASE UNCHANGED <<iter, slot, pc, stats>>
    BY <1>2, <2>4 DEF ShareInv, Passed, OneIf
  <2> QED BY <1>2, <2>3, <2>4 DEF Next, ClockPasses, Expire, Interrupt, ContextDone,
             RunReturns, Terminating, Grant, vars
<1>3. Spec => []PlaceInv
  BY PlacesKept
<1> QED BY <1>1, <1>2, <1>3, Typed, PTL DEF Spec

(***************************************************************************)
(* What a worker of a counted run that skips nothing has asked.            *)
(***************************************************************************)
(* How often the type e is among the first n types.                        *)
Before(e, n) == Cardinality({k \in 1..n : QTypes[k] = e})

(* One type more.                                                          *)
LEMMA BeforeSteps ==
  ASSUME NEW e
  PROVE  /\ Before(e, 0) = 0
         /\ \A n \in Nat : /\ Before(e, n) \in Nat
                           /\ Before(e, n + 1) = Before(e, n) + OneIf(QTypes[n + 1] = e)
         /\ Before(e, Len(QTypes)) = Occurrences(e, QTypes)
<1> DEFINE S(n) == {k \in 1..n : QTypes[k] = e}
<1>1. \A n \in Nat : IsFiniteSet(S(n))
  <2> TAKE n \in Nat
  <2>1. IsFiniteSet(1..n)
    BY FS_Interval
  <2>2. S(n) \subseteq 1..n
    OBVIOUS
  <2> QED BY <2>1, <2>2, FS_Subset
<1>2. Before(e, 0) = 0
  <2>1. S(0) = {}
    OBVIOUS
  <2> QED BY <2>1, FS_EmptySet DEF Before
<1>3. ASSUME NEW n \in Nat
      PROVE  /\ Before(e, n) \in Nat
             /\ Before(e, n + 1) = Before(e, n) + OneIf(QTypes[n + 1] = e)
  <2>1. Cardinality(S(n)) \in Nat
    BY <1>1, FS_CardinalityType
  <2>2. CASE QTypes[n + 1] = e
    <3>1. S(n + 1) = S(n) \union {n + 1} /\ n + 1 \notin S(n)
      BY <2>2
    <3>2. Cardinality(S(n + 1)) = Cardinality(S(n)) + 1
      BY <1>1, <3>1, FS_AddElement
    <3> QED BY <2>1, <2>2, <3>2 DEF Before, OneIf
  <2>3. CASE QTypes[n + 1] # e
    <3>1. S(n + 1) = S(n)
      BY <2>3
    <3>2. Before(e, n) = Cardinality(S(n)) /\ Before(e, n + 1) = Cardinality(S(n + 1))
      BY DEF Before
    <3> HIDE DEF S
    <3>3. Before(e, n + 1) = Before(e, n) /\ Before(e, n) \in Nat
      BY <2>1, <3>1, <3>2
    <3> QED BY <2>3, <3>3 DEF OneIf
  <2> QED BY <2>2, <2>3
<1>4. Before(e, Len(QTypes)) = Occurrences(e, QTypes)
  <2>1. DOMAIN QTypes = 1..Len(QTypes)
    BY LoopSizes
  <2> QED BY <2>1 DEF Before, Occurrences
<1> QED BY <1>2, <1>3, <1>4

(* How often the type e was asked for before the slot s of the round i.    *)
Asked(i, s, e) ==
  i * (Len(Questions) * Occurrences(e, QTypes)) + (s.q - 1) * Occurrences(e, QTypes)
  + Before(e, s.t - 1)

(* The same pair after pair, round after round.                            *)
LEMMA AskedSteps ==
  ASSUME NEW i \in Nat, NEW s \in Slots, NEW e
  PROVE  /\ Asked(i, s, e) \in Nat
         /\ Asked(i, NextSlot(s), e) = Asked(i, s, e) + OneIf(QTypes[s.t] = e)
         /\ s.q > Len(Questions) /\ s.t = 1 => Asked(i + 1, FirstSlot, e) = Asked(i, s, e)
         /\ Asked(i, FirstSlot, e) = i * Len(Questions) * Occurrences(e, QTypes)
<1> DEFINE n == Len(Questions)
           m == Len(QTypes)
           o == Occurrences(e, QTypes)
           q == s.q
           t == s.t
           b == Before(e, t - 1)
           d == OneIf(QTypes[t] = e)
<1>1. /\ n \in Nat /\ m \in Nat /\ m >= 1 /\ q \in Nat /\ t \in Nat
      /\ 1 <= q /\ q <= n + 1 /\ 1 <= t /\ t <= m
  BY LoopSizes DEF Slots
<1>2. /\ t - 1 \in Nat /\ (t - 1) + 1 = t /\ (t + 1) - 1 = t /\ 1 - 1 = 0
  BY <1>1
<1>3. b \in Nat /\ Before(e, t) = b + d /\ d \in Nat /\ o \in Nat /\ Before(e, m) = o
  <2>1. b \in Nat /\ Before(e, (t - 1) + 1) = b + OneIf(QTypes[(t - 1) + 1] = e)
    BY <1>2, BeforeSteps
  <2>2. Before(e, m) = o /\ Before(e, m) \in Nat
    BY <1>1, BeforeSteps
  <2>3. d \in Nat
    BY DEF OneIf
  <2> QED BY <1>2, <2>1, <2>2, <2>3
<1>4. Before(e, 0) = 0
  BY BeforeSteps
<1>5. /\ Asked(i, s, e) = i * (n * o) + (q - 1) * o + b
      /\ Asked(i + 1, FirstSlot, e) = (i + 1) * (n * o) + (1 - 1) * o + Before(e, 1 - 1)
      /\ Asked(i, FirstSlot, e) = i * (n * o) + (1 - 1) * o + Before(e, 1 - 1)
  BY DEF Asked, FirstSlot
<1>6. t = 1 => b = 0
  BY <1>2, <1>4
<1>7. t < m => Asked(i, NextSlot(s), e) = i * (n * o) + (q - 1) * o + Before(e, (t + 1) - 1)
  BY DEF NextSlot, Asked, Slots
<1>8. t = m => Asked(i, NextSlot(s), e) = i * (n * o) + ((q + 1) - 1) * o + Before(e, 1 - 1)
  BY DEF NextSlot, Asked, Slots
<1> HIDE DEF n, m, o, q, t, b, d
<1>9. (i * (n * o)) \in Nat /\ ((q - 1) * o) \in Nat
  BY <1>1, <1>3
<1>10. Asked(i, s, e) \in Nat
  BY <1>3, <1>5, <1>9
<1>11. Asked(i, NextSlot(s), e) = Asked(i, s, e) + d
  <2>1. CASE t < m
    BY <1>2, <1>3, <1>5, <1>7, <1>9, <2>1
  <2>2. CASE t = m
    <3>1. o = b + d
      BY <1>3, <2>2
    <3>2. Asked(i, NextSlot(s), e) = i * (n * o) + ((q + 1) - 1) * o
      BY <1>1, <1>2, <1>3, <1>4, <1>8, <1>9, <2>2
    <3>3. ((q + 1) - 1) * o = (q - 1) * o + o
      BY <1>1, <1>3
    <3> QED BY <1>3, <1>5, <1>9, <3>1, <3>2, <3>3
  <2> QED BY <1>1, <2>1, <2>2
<1>12. q = n + 1 /\ t = 1 => Asked(i + 1, FirstSlot, e) = Asked(i, s, e)
  BY <1>1, <1>2, <1>3, <1>4, <1>5, <1>6
<1>13. Asked(i, FirstSlot, e) = i * n * o
  BY <1>1, <1>2, <1>3, <1>4, <1>5
<1>14. s.q > Len(Questions) /\ s.t = 1 => q = n + 1 /\ t = 1
  BY <1>1 DEF q, n, t
<1> QED BY <1>10, <1>11, <1>12, <1>13, <1>14 DEF n, m, o, t, d

(* A worker has asked for every type as often as its position says, and    *)
(* unless something stopped it, it has ended after its last round.         *)
AskedInv(w, e) ==
  stats[w].Qtypes[e] =
    Asked(iter[w], slot[w], e) + OneIf(pc[w] = "measure" /\ QTypes[slot[w].t] = e)

AskedAll == \A w \in Workers, e \in QtypeSet : AskedInv(w, e)

(* Nothing is asked twice and, where nothing is skipped, nothing left out. *)
LEMMA NothingLeftOut == ~Timed /\ SkipOutcomes = {FALSE} => (Spec => []AskedAll)
<1> SUFFICES ASSUME ~Timed, SkipOutcomes = {FALSE} PROVE Spec => []AskedAll
  OBVIOUS
<1>1. Init => AskedAll
  <2> SUFFICES ASSUME Init, NEW w \in Workers, NEW e \in QtypeSet PROVE AskedInv(w, e)
    BY DEF AskedAll
  <2>1. stats[w].Qtypes[e] = 0 /\ iter[w] = 0 /\ slot[w] = FirstSlot /\ pc[w] # "measure"
    BY DEF Init, NewResultStats
  <2>2. Asked(0, FirstSlot, e) = 0
    <3>1. /\ Len(Questions) * Occurrences(e, QTypes) \in Nat /\ Occurrences(e, QTypes) \in Nat
      <4>1. Occurrences(e, QTypes) \in Nat /\ Len(Questions) \in Nat
        BY LoopSizes, BeforeSteps
      <4> QED BY <4>1
    <3>2. FirstSlot.q - 1 = 0 /\ FirstSlot.t - 1 = 0 /\ Before(e, 0) = 0
      BY BeforeSteps DEF FirstSlot
    <3> QED BY <3>1, <3>2 DEF Asked
  <2> QED BY <2>1, <2>2 DEF AskedInv, OneIf
<1>2. ASSUME TypeInv, PlaceInv, AskedAll, [Next]_vars PROVE AskedAll'
  <2>1. /\ pc \in [Workers -> Places] /\ iter \in [Workers -> Nat]
        /\ slot \in [Workers -> Slots] /\ stats \in [Workers -> Stats(Starts)]
    BY <1>2 DEF TypeInv, TypeOK
  <2> DEFINE AskedNext(w, e) ==
        stats'[w].Qtypes[e] =
          Asked(iter'[w], slot'[w], e) + OneIf(pc'[w] = "measure" /\ QTypes[slot'[w].t] = e)
  <2>2. ASSUME NEW w \in Workers, Step(w), NEW e \in QtypeSet PROVE AskedNext(w, e)
    <3> DEFINE n == stats[w].Qtypes[e]
               p == Asked(iter[w], slot[w], e)
               d == OneIf(QTypes[slot[w].t] = e)
    <3>1. /\ Placed(iter[w], slot[w], pc[w]) /\ iter[w] \in Nat /\ slot[w] \in Slots
          /\ pc[w] \in InBody => slot[w].q <= Len(Questions)
      BY <1>2, <2>1 DEF PlaceInv, TypeInv
    <3>2. p \in Nat /\ d \in Nat
      BY <3>1, AskedSteps DEF OneIf
    <3>3. n = p + OneIf(pc[w] = "measure" /\ QTypes[slot[w].t] = e)
      BY <1>2 DEF AskedAll, AskedInv
    <3>4. CASE EndRound(w)
      <4>1. /\ iter'[w] = iter[w] + 1 /\ slot'[w] = FirstSlot /\ pc'[w] = "loop"
            /\ pc[w] = "loop" /\ stats'[w].Qtypes[e] = n /\ slot[w].q > Len(Questions)
        BY <2>1, <3>4 DEF EndRound, At
      <4>2. Asked(iter[w] + 1, FirstSlot, e) = p
        BY <3>1, <4>1, AskedSteps DEF Placed
      <4> HIDE DEF n, p
      <4>3. n = p
        BY <3>2, <3>3, <4>1 DEF OneIf
      <4> QED BY <3>2, <4>1, <4>2, <4>3 DEF OneIf
    <3>5. CASE Measure(w)
      <4>1. /\ iter'[w] = iter[w] /\ slot'[w] = NextSlot(slot[w]) /\ pc'[w] = "loop"
            /\ stats'[w].Qtypes[e] = n /\ pc[w] = "measure"
        BY <2>1, <3>5 DEF Measure, At, GoTo
      <4>2. Asked(iter[w], NextSlot(slot[w]), e) = p + d
        BY <3>1, AskedSteps
      <4>3. n = p + d
        BY <3>3, <4>1
      <4> HIDE DEF n, p, d
      <4> QED BY <3>2, <4>1, <4>2, <4>3 DEF OneIf
    <3>6. CASE RecordResult(w)
      <4>1. /\ iter'[w] = iter[w] /\ slot'[w] = slot[w] /\ pc'[w] = "measure"
            /\ pc[w] = "record"
            /\ stats'[w] = Record(stats[w], Query(slot[w]), reply[w], start[w])
        BY <2>1, <3>6 DEF RecordResult, At, GoTo
      <4>2. stats'[w].Qtypes[e] = n + d
        BY <4>1 DEF Record, Query, OneIf
      <4>3. n = p
        <5> HIDE DEF n, p
        <5> QED BY <3>2, <3>3, <4>1 DEF OneIf
      <4> HIDE DEF n
      <4> QED BY <4>1, <4>2, <4>3 DEF OneIf
    <3>7. ~Skip(w)
      BY DEF Skip
    <3>8. CASE ~EndRound(w) /\ ~Measure(w) /\ ~RecordResult(w)
      <4>1. iter' = iter /\ slot' = slot /\ stats' = stats
        BY <2>2, <3>7, <3>8 DEF Step, Spawn, Finish, Stopped, Proceed, Acquire, Abandon, Send,
             Drop, Respond, Log, Panic, Leave, Advance
      <4>2. (pc'[w] = "measure") = (pc[w] = "measure")
        BY <2>1, <2>2, <3>7, <3>8 DEF Step, Spawn, Finish, Stopped, Proceed, Acquire, Abandon,
             Send, Drop, Respond, Log, Panic, Leave, Advance, After, At, AtPair, GoTo, Waiting,
             Gates
      <4> QED BY <3>3, <4>1, <4>2
    <3> QED BY <3>4, <3>5, <3>6, <3>8
  <2>3. ASSUME NEW w \in Workers, Step(w) PROVE AskedAll'
    <3>1. \A v \in Workers, e \in QtypeSet : AskedNext(v, e)
      <4>1. ASSUME NEW v \in Workers, NEW e \in QtypeSet, v # w PROVE AskedNext(v, e)
        BY <1>2, <2>3, <4>1, OthersUntouched DEF AskedAll, AskedInv
      <4> QED BY <2>2, <2>3, <4>1
    <3> QED BY <3>1 DEF AskedAll, AskedInv, Asked, OneIf
  <2>4. CASE UNCHANGED <<iter, slot, pc, stats>>
    BY <1>2, <2>4 DEF AskedAll, AskedInv, Asked, OneIf
  <2> QED BY <1>2, <2>3, <2>4 DEF Next, ClockPasses, Expire, Interrupt, ContextDone,
             RunReturns, Terminating, Grant, vars
<1>3. Spec => []PlaceInv
  BY PlacesKept
<1> QED BY <1>1, <1>2, <1>3, Typed, PTL DEF Spec

(* In a counted run no query can be late, and a worker that ended while    *)
(* nothing stopped the run was through with its rounds.                    *)
ThroughInv ==
  /\ ~overdue /\ \A w \in Workers : start[w] # "overdue"
  /\ ctx = "live" => \A w \in Workers : pc[w] = "done" => iter[w] = Count

(* The only other ways out of the loops are the looks at the context.      *)
LEMMA ThroughWithRounds == ~Timed => (Spec => []ThroughInv)
<1> SUFFICES ASSUME ~Timed PROVE Spec => []ThroughInv
  OBVIOUS
<1>1. Init => ThroughInv
  BY DEF Init, ThroughInv
<1>2. ASSUME TypeInv, PlaceInv, ThroughInv, [Next]_vars PROVE ThroughInv'
  <2>1. ~ClockPasses
    BY DEF ClockPasses
  <2>2. CASE UNCHANGED <<overdue, start, pc, iter>> /\ (ctx' = "live" => ctx = "live")
    BY <1>2, <2>2 DEF ThroughInv
  <2>3. ASSUME NEW w \in Workers, Step(w) PROVE ThroughInv'
    <3>1. ctx' = ctx /\ overdue' = overdue
      BY <2>3 DEF Step, Spawn, EndRound, Finish, Stopped, Skip, Proceed, Acquire, Abandon, Send,
                  Drop, Respond, Log, RecordResult, Measure, Panic, Leave, Advance
    <3>2. \A v \in Workers : start'[v] # "overdue"
      BY <1>2, <2>3 DEF ThroughInv, TypeInv, TypeOK, Step, Spawn, EndRound, Finish, Stopped, Skip,
           Proceed, Acquire, Abandon, Send, Drop, Respond, Log, RecordResult, Measure, Panic,
           Leave, Advance
    <3>3. ASSUME ctx = "live", pc'[w] = "done" PROVE iter'[w] = Count
      <4>1. Finish(w)
        BY <1>2, <2>3, <3>3 DEF ThroughInv, TypeInv, TypeOK, Step, Spawn, EndRound, Finish, Stopped,
             Skip, Proceed, Acquire, Abandon, Send, Drop, TooLate, Respond, Log, RecordResult,
             Measure, Panic, Leave, Advance, After, At, AtPair, GoTo, Waiting, Gates
      <4>2. iter'[w] = iter[w] /\ ~(iter[w] < Count) /\ iter[w] <= Count /\ iter[w] \in Nat
        BY <1>2, <4>1 DEF Finish, Leave, RoundWanted, PlaceInv, Placed, TypeInv, TypeOK
      <4> QED BY <4>2, LoopSizes
    <3> QED BY <1>2, <2>3, <3>1, <3>2, <3>3, OthersUntouched DEF ThroughInv
  <2> QED BY <1>2, <2>1, <2>2, <2>3 DEF Next, Expire, Interrupt, ContextDone,
             RunReturns, Terminating, Grant, vars
<1>3. Spec => []PlaceInv
  BY PlacesKept
<1> QED BY <1>1, <1>2, <1>3, Typed, PTL DEF Spec

(* A counted run that nothing stopped has asked every question with every  *)
(* type as often as it was told to, from every worker.                     *)
THEOREM RunsAreComplete == Spec => []CompleteUnlessStopped
<1>1. ASSUME TypeInv, PlaceInv, AskedAll, ThroughInv, ReturnsLast PROVE CompleteUnlessStopped
  <2> SUFFICES ASSUME returned, ~Timed, ctx = "live", NEW w \in Workers, NEW e \in QtypeSet
               PROVE  stats[w].Qtypes[e] = Count * Len(Questions) * Occurrences(e, QTypes)
    BY DEF CompleteUnlessStopped
  <2>1. pc[w] = "done" /\ iter[w] = Count /\ slot[w] = FirstSlot
    BY <1>1 DEF ReturnsLast, ThroughInv, PlaceInv, Placed
  <2>2. stats[w].Qtypes[e] = Asked(Count, FirstSlot, e) + 0
    BY <1>1, <2>1 DEF AskedAll, AskedInv, OneIf
  <2>3. /\ Asked(Count, FirstSlot, e) = Count * Len(Questions) * Occurrences(e, QTypes)
        /\ Asked(Count, FirstSlot, e) \in Nat
    BY LoopSizes, SlotsType, AskedSteps
  <2> QED BY <2>2, <2>3
<1>2. CASE ~Timed /\ SkipOutcomes = {FALSE}
  <2>1. /\ Spec => []PlaceInv
        /\ Spec => []AskedAll
        /\ Spec => []ThroughInv
    BY <1>2, PlacesKept, NothingLeftOut, ThroughWithRounds
  <2> QED BY <1>1, <2>1, Typed, Returns, PTL
<1>3. ASSUME Timed \/ SkipOutcomes # {FALSE} PROVE CompleteUnlessStopped
  BY <1>3 DEF CompleteUnlessStopped
<1>4. CASE Timed \/ SkipOutcomes # {FALSE}
  BY <1>3, <1>4, PTL
<1> QED BY <1>2, <1>4

(***************************************************************************)
(* The promise of QueryLedger.                                             *)
(***************************************************************************)
(* Three counters in a function add up to their sum.                       *)
LEMMA SumOfThree ==
  ASSUME NEW a \in Nat, NEW b \in Nat, NEW c \in Nat, NEW f \in [Outcomes -> Nat],
         f["answered"] = a, f["failed"] = b, f["mismatched"] = c
  PROVE  SumFunction(f) = a + b + c
<1> DEFINE f0 == [o \in Outcomes |-> 0]
           f1 == [o \in Outcomes |-> IF o = "answered" THEN a ELSE 0]
           f2 == [o \in Outcomes |-> IF o = "mismatched" THEN 0 ELSE f[o]]
<1>1. IsFiniteSet(Outcomes)
  <2>1. IsFiniteSet({"answered"}) /\ IsFiniteSet({"failed"}) /\ IsFiniteSet({"mismatched"})
    BY FS_Singleton
  <2>2. IsFiniteSet({"answered"} \union {"failed"})
    BY <2>1, FS_Union
  <2>3. IsFiniteSet(({"answered"} \union {"failed"}) \union {"mismatched"})
    BY <2>1, <2>2, FS_Union
  <2>4. Outcomes = ({"answered"} \union {"failed"}) \union {"mismatched"}
    BY DEF Outcomes
  <2> QED BY <2>3, <2>4
<1>2. /\ "answered" \in Outcomes /\ "failed" \in Outcomes /\ "mismatched" \in Outcomes
      /\ f0 \in [Outcomes -> Nat] /\ f1 \in [Outcomes -> Nat] /\ f2 \in [Outcomes -> Nat]
  BY DEF Outcomes
<1>3. SumFunction(f0) = 0
  <2>1. DOMAIN f0 = Outcomes /\ \A o \in Outcomes : f0[o] = 0
    OBVIOUS
  <2> HIDE DEF f0
  <2> QED BY <1>1, <2>1, SumZero
<1>4. /\ f1["answered"] = f0["answered"] + a
      /\ \A o \in Outcomes : o # "answered" => f1[o] = f0[o]
  BY <1>2
<1>5. /\ f2["failed"] = f1["failed"] + b
      /\ \A o \in Outcomes : o # "failed" => f2[o] = f1[o]
  BY <1>2 DEF Outcomes
<1>6. /\ f["mismatched"] = f2["mismatched"] + c
      /\ \A o \in Outcomes : o # "mismatched" => f[o] = f2[o]
  BY <1>2
<1> HIDE DEF f0, f1, f2
<1>7. SumFunction(f1) = SumFunction(f0) + a
  <2>1. /\ f0 \in [Outcomes -> Nat] /\ f1 \in [Outcomes -> Nat] /\ "answered" \in Outcomes
        /\ f1["answered"] = f0["answered"] + a
        /\ \A o \in Outcomes : o # "answered" => f1[o] = f0[o]
    BY <1>2, <1>4
  <2> QED BY <1>1, <2>1, SumRaised
<1>8. SumFunction(f2) = SumFunction(f1) + b
  <2>1. /\ f1 \in [Outcomes -> Nat] /\ f2 \in [Outcomes -> Nat] /\ "failed" \in Outcomes
        /\ f2["failed"] = f1["failed"] + b
        /\ \A o \in Outcomes : o # "failed" => f2[o] = f1[o]
    BY <1>2, <1>5
  <2> QED BY <1>1, <2>1, SumRaised
<1>9. SumFunction(f) = SumFunction(f2) + c
  BY <1>1, <1>2, <1>6, SumRaised
<1> QED BY <1>3, <1>7, <1>8, <1>9

(* What the book of a worker says of each outcome.                         *)
LEMMA BookValues ==
  ASSUME NEW st, Len(st.Timings) \in Nat, Len(st.Errors) \in Nat, st.IDmismatch \in Nat
  PROVE  /\ BookOf(st) \in [Outcomes -> Nat]
         /\ BookOf(st)["answered"] = Len(st.Timings)
         /\ BookOf(st)["failed"] = Len(st.Errors)
         /\ BookOf(st)["mismatched"] = st.IDmismatch
BY DEF BookOf, Outcomes

(* The book of a worker holds all it counted.                              *)
LEMMA BookedIsTotal ==
  ASSUME NEW st \in Stats(Starts), Accounted(st)
  PROVE  SumFunction(BookOf(st)) = st.Total
<1> DEFINE a == Len(st.Timings)
           b == Len(st.Errors)
           c == st.IDmismatch
           book == BookOf(st)
<1>1. /\ a \in Nat /\ b \in Nat /\ c \in Nat
      /\ st.Success \in Nat /\ st.Negative \in Nat /\ st.Error \in Nat
  BY CountersAreNat
<1>2. /\ book \in [Outcomes -> Nat]
      /\ book["answered"] = a /\ book["failed"] = b /\ book["mismatched"] = c
  BY <1>1, BookValues
<1>3. st.Total = a + b + c
  BY <1>1 DEF Accounted, CountersPartitionTotal, DatapointsMatchCounters
<1> HIDE DEF a, b, c, book
<1>4. SumFunction(book) = a + b + c
  BY <1>1, <1>2, SumOfThree
<1> QED BY <1>3, <1>4 DEF book

(* record books exactly one outcome.                                       *)
LEMMA RecordBooksOne ==
  ASSUME NEW st \in Stats(Starts), NEW s \in Starts, NEW q, NEW r \in Reply
  PROVE  \E o \in Outcomes :
           BookOf(Record(st, q, r, s)) = [BookOf(st) EXCEPT ![o] = @ + 1]
<1> DEFINE rec == Record(st, q, r, s)
           k == OneIf(Kept(r))
           f == OneIf(IsFailure(r))
           m == OneIf(Mismatched(r))
<1>1. /\ st.Timings \in Seq(Starts) /\ st.Errors \in Seq([start : Starts, err : Errs])
      /\ Len(st.Timings) \in Nat /\ Len(st.Errors) \in Nat /\ st.IDmismatch \in Nat
  BY DEF Stats
<1>2. /\ Len(rec.Timings) = Len(st.Timings) + k /\ Len(rec.Errors) = Len(st.Errors) + f
      /\ rec.IDmismatch = st.IDmismatch + m
  <2>1. IsFailure(r) => [start |-> s, err |-> r.err] \in [start : Starts, err : Errs]
    BY DEF Answered, IsFailure, Reply
  <2>2. Kept(r) \in BOOLEAN /\ IsFailure(r) \in BOOLEAN
    BY DEF Kept, Answered, Mismatched, IsFailure
  <2>3. /\ rec.Timings = AppendIf(Kept(r), st.Timings, s)
        /\ rec.Errors = AppendIf(IsFailure(r), st.Errors, [start |-> s, err |-> r.err])
        /\ rec.IDmismatch = st.IDmismatch + m
    BY DEF Record
  <2>4. Len(AppendIf(Kept(r), st.Timings, s)) = Len(st.Timings) + k
    BY <1>1, <2>2, AppendIfOK
  <2>5. Len(AppendIf(IsFailure(r), st.Errors, [start |-> s, err |-> r.err])) = Len(st.Errors) + f
    <3> DEFINE e == [start |-> s, err |-> r.err]
               E == [start : Starts, err : Errs]
               failed == IsFailure(r)
    <3>1. /\ failed \in BOOLEAN /\ (failed => e \in E) /\ st.Errors \in Seq(E)
          /\ f = OneIf(failed)
      BY <1>1, <2>1, <2>2
    <3> HIDE DEF e, E, f, failed
    <3>2. Len(AppendIf(failed, st.Errors, e)) = Len(st.Errors) + OneIf(failed)
      BY <3>1, AppendIfOK
    <3> QED BY <3>1, <3>2 DEF e, failed
  <2> QED BY <2>3, <2>4, <2>5
<1>3. \/ k = 1 /\ f = 0 /\ m = 0
      \/ k = 0 /\ f = 1 /\ m = 0
      \/ k = 0 /\ f = 0 /\ m = 1
  BY DEF OneIf, Kept, IsFailure, Mismatched
<1> DEFINE old == BookOf(st)
           new == BookOf(rec)
<1>4. old \in [Outcomes -> Nat] /\ new \in [Outcomes -> Nat]
  <2>1. k \in Nat /\ f \in Nat /\ m \in Nat
    BY <1>3
  <2>2. Len(rec.Timings) \in Nat /\ Len(rec.Errors) \in Nat /\ rec.IDmismatch \in Nat
    <3> HIDE DEF rec, k, f, m
    <3> QED BY <1>1, <1>2, <2>1
  <2> HIDE DEF rec
  <2> QED BY <1>1, <2>2, BookValues
<1>5. /\ new["answered"] = old["answered"] + k
      /\ new["failed"] = old["failed"] + f
      /\ new["mismatched"] = old["mismatched"] + m
  <2> HIDE DEF rec, k, f, m
  <2>1. /\ new["answered"] = Len(rec.Timings) /\ new["failed"] = Len(rec.Errors)
        /\ new["mismatched"] = rec.IDmismatch
    BY DEF BookOf, Outcomes
  <2>2. /\ old["answered"] = Len(st.Timings) /\ old["failed"] = Len(st.Errors)
        /\ old["mismatched"] = st.IDmismatch
    BY DEF BookOf, Outcomes
  <2> QED BY <1>2, <2>1, <2>2
<1> HIDE DEF rec, k, f, m, old, new
<1>6. \E o \in Outcomes : new = [old EXCEPT ![o] = @ + 1]
  <2>1. CASE k = 1 /\ f = 0 /\ m = 0
    <3>1. new = [old EXCEPT !["answered"] = @ + 1]
      BY <1>4, <1>5, <2>1 DEF Outcomes
    <3> QED BY <3>1 DEF Outcomes
  <2>2. CASE k = 0 /\ f = 1 /\ m = 0
    <3>1. new = [old EXCEPT !["failed"] = @ + 1]
      BY <1>4, <1>5, <2>2 DEF Outcomes
    <3> QED BY <3>1 DEF Outcomes
  <2>3. CASE k = 0 /\ f = 0 /\ m = 1
    <3>1. new = [old EXCEPT !["mismatched"] = @ + 1]
      BY <1>4, <1>5, <2>3 DEF Outcomes
    <3> QED BY <3>1 DEF Outcomes
  <2> QED BY <1>3, <2>1, <2>2, <2>3
<1> QED BY <1>6 DEF old, new, rec

(* What a result of a worker does to its book.                             *)
LEMMA RecordBooks ==
  ASSUME TypeInv, WorkersAccounted, ExtraInv, ReturnsLast, ~Timed => PlaceInv /\ ShareInv,
         NEW w \in Workers, RecordResult(w)
  PROVE  \E o \in Outcomes : Ledger!Book(w, o)
<1>1. /\ stats \in [Workers -> Stats(Starts)] /\ pc \in [Workers -> Places]
      /\ extra \in [Workers -> Nat]
      /\ stats[w] \in Stats(Starts) /\ start[w] \in Starts /\ reply[w] \in Reply
      /\ Accounted(stats[w]) /\ iter[w] \in Nat /\ slot[w] \in Slots
  BY BenchmarkAssumption DEF TypeInv, TypeOK, WorkersAccounted
<1>2. /\ ~panicked /\ pc[w] = "record" /\ pc' = [pc EXCEPT ![w] = "measure"]
      /\ stats' = [stats EXCEPT ![w] = Record(@, Query(slot[w]), reply[w], start[w])]
      /\ extra' = [extra EXCEPT ![w] = @ + OneIf(ctx # "live")]
      /\ UNCHANGED <<ctx, panicked, returned>>
  BY DEF RecordResult, At, Alive, GoTo
<1>3. ~returned /\ extra[w] = 0
  BY <1>2 DEF ReturnsLast, ExtraInv
<1>4. stats[w].Total + 1 \in Share
  <2>1. stats[w].Total \in Nat
    BY <1>1, CountersAreNat
  <2>2. CASE Timed
    BY <2>1, <2>2 DEF Share
  <2>3. CASE ~Timed
    <3> DEFINE n == stats[w].Total
               p == Passed(iter[w], slot[w])
               max == Count * (Len(Questions) * Len(QTypes))
    <3>1. slot[w].q <= Len(Questions) /\ iter[w] < Count
      BY <1>1, <1>2, <2>3, LoopSizes DEF TypeInv, InBody, PlaceInv, Placed
    <3>2. p \in Nat /\ p + 1 <= max
      BY <1>1, <3>1, PassedSteps
    <3>3. n <= p
      <4>1. n <= p + OneIf(pc[w] = "measure")
        BY <2>3 DEF ShareInv
      <4> HIDE DEF n, p
      <4> QED BY <1>2, <2>1, <3>2, <4>1 DEF OneIf
    <3>4. max \in Nat /\ max = Count * Len(Questions) * Len(QTypes)
      BY LoopSizes
    <3> HIDE DEF n, p, max
    <3>5. n \in Nat
      BY <2>1 DEF n
    <3>6. n + 1 \in 0..max
      BY <3>2, <3>3, <3>4, <3>5
    <3> QED BY <2>3, <3>4, <3>6 DEF Share, n
  <2> QED BY <2>2, <2>3
<1>5. PICK o \in Outcomes :
        BookOf(Record(stats[w], Query(slot[w]), reply[w], start[w]))
          = [BookOf(stats[w]) EXCEPT ![o] = @ + 1]
  <2> DEFINE st == stats[w]
             q == Query(slot[w])
             r == reply[w]
             s == start[w]
  <2>1. st \in Stats(Starts) /\ r \in Reply /\ s \in Starts
    BY <1>1
  <2> HIDE DEF st, q, r, s
  <2>2. \E o \in Outcomes : BookOf(Record(st, q, r, s)) = [BookOf(st) EXCEPT ![o] = @ + 1]
    BY <2>1, RecordBooksOne
  <2> QED BY <2>2 DEF st, q, r, s
<1>6. Books' = [Books EXCEPT ![w][o] = @ + 1]
  <2>1. BookOf(stats'[w]) = [BookOf(stats[w]) EXCEPT ![o] = @ + 1]
    BY <1>1, <1>2, <1>5
  <2>2. \A v \in Workers : v # w => BookOf(stats'[v]) = BookOf(stats[v])
    BY <1>1, <1>2
  <2>3. Books' = [v \in Workers |-> BookOf(stats'[v])]
    BY DEF Books, BookOf
  <2> QED BY <2>1, <2>2, <2>3 DEF Books
<1>7. SumFunction(Books[w]) + 1 \in Share
  BY <1>1, <1>4, BookedIsTotal DEF Books
<1>8. /\ extra' = [extra EXCEPT ![w] = IF ctx # "live" THEN 1 ELSE 0]
      /\ ctx # "live" => extra[w] = 0
  BY <1>1, <1>2, <1>3 DEF OneIf
<1>9. Gone' = Gone /\ w \notin Gone
  BY <1>1, <1>2 DEF Gone
<1>10. Phase = "running" /\ Phase' = Phase
  BY <1>2, <1>3 DEF Phase
<1>11. (ctx # "live")' = (ctx # "live")
  BY <1>2
<1>12. Ledger!Booked(w) = SumFunction(Books[w])
  BY DEF Ledger!Booked, Ledger!SumFunction, Ledger!SumFunctionOnSet, Ledger!FoldFunctionOnSet,
         Ledger!MapThenFoldSet, SumFunction, SumFunctionOnSet, FoldFunctionOnSet, MapThenFoldSet
<1>13. Ledger!Book(w, o)
  BY <1>6, <1>7, <1>8, <1>9, <1>10, <1>11, <1>12 DEF Ledger!Book
<1> QED BY <1>13

(* What QueryLedger sees stays as it is while these do.                    *)
LEMMA UnseenSteps ==
  ASSUME UNCHANGED <<ctx, stats, extra, panicked, returned>>, Gone' = Gone
  PROVE  UNCHANGED Ledger!vars
BY DEF Ledger!vars, Books, BookOf, Phase

(* A worker that leaves closes its book.                                   *)
LEMMA LeavingCloses ==
  ASSUME TypeInv, ReturnsLast, NEW w \in Workers, pc[w] # "done", ~panicked,
         GoTo(w, "done"), UNCHANGED <<world, results, extra>>
  PROVE  Ledger!Close(w)
<1>1. /\ pc \in [Workers -> Places] /\ pc' = [pc EXCEPT ![w] = "done"]
      /\ UNCHANGED <<ctx, stats, extra, panicked, returned>> /\ ~returned
  BY DEF TypeInv, TypeOK, GoTo, ReturnsLast
<1>2. w \notin Gone /\ Gone' = Gone \union {w}
  BY <1>1 DEF Gone
<1>3. Phase = "running" /\ Phase' = Phase
  BY <1>1 DEF Phase
<1>4. Books' = Books /\ extra' = extra /\ (ctx # "live")' = (ctx # "live")
  BY <1>1 DEF Books, BookOf
<1> QED BY <1>2, <1>3, <1>4 DEF Ledger!Close

(* Run keeps the promise of QueryLedger: each of its steps is one that the *)
(* promise allows, or one that nobody can see there.  What it hands to the *)
(* reporters is complete, no worker still writes into it, and no worker    *)
(* books more than its share, or more than one result after the stop.      *)
THEOREM RunKeepsLedger == Spec => Ledger!Spec
<1>1. Init => Ledger!Init
  <2> SUFFICES ASSUME Init PROVE Ledger!Init
    OBVIOUS
  <2>1. Books = [w \in Workers |-> [o \in Outcomes |-> 0]]
    <3>1. ASSUME NEW w \in Workers, NEW o \in Outcomes PROVE BookOf(stats[w])[o] = 0
      <4>1. /\ Len(stats[w].Timings) = 0 /\ Len(stats[w].Errors) = 0
            /\ stats[w].IDmismatch = 0
        BY DEF Init, NewResultStats
      <4> QED BY <4>1, BookValues DEF Outcomes
    <3>2. ASSUME NEW w \in Workers PROVE BookOf(stats[w]) = [o \in Outcomes |-> 0]
      BY <3>1 DEF BookOf
    <3> QED BY <3>2 DEF Books
  <2>2. Gone = {} /\ Phase = "running" /\ ctx = "live" /\ extra = [w \in Workers |-> 0]
    BY DEF Init, Gone, Phase
  <2> QED BY <2>1, <2>2 DEF Ledger!Init
<1>2. ASSUME TypeInv, WorkersAccounted, ExtraInv, ReturnsLast, ~Timed => PlaceInv /\ ShareInv,
             [Next]_vars
      PROVE  [Ledger!Next]_(Ledger!vars)
  <2>1. CASE ClockPasses \/ Terminating \/ UNCHANGED vars \/ \E w \in Workers : Grant(w)
    <3>1. UNCHANGED <<ctx, stats, extra, panicked, returned>> /\ pc' = pc
      BY <2>1 DEF ClockPasses, Terminating, vars, Grant
    <3>2. Gone' = Gone
      BY <3>1 DEF Gone
    <3> QED BY <3>1, <3>2, UnseenSteps
  <2>2. CASE Expire \/ Interrupt
    <3>1. /\ ~panicked /\ ~returned /\ ctx = "live" /\ ctx' # "live"
          /\ UNCHANGED <<stats, extra, panicked, returned, pc>>
      BY <2>2 DEF Expire, Interrupt, ContextDone, Alive
    <3>2. /\ Phase = "running" /\ Phase' = Phase /\ Gone' = Gone /\ Books' = Books
      BY <3>1 DEF Phase, Gone, Books, BookOf
    <3>3. Ledger!Stop
      BY <3>1, <3>2 DEF Ledger!Stop
    <3> QED BY <3>3 DEF Ledger!Next
  <2>3. CASE RunReturns
    <3>1. /\ ~panicked /\ ~returned /\ returned' = TRUE /\ Gone = Workers
          /\ UNCHANGED <<ctx, stats, extra, panicked, pc>>
      BY <2>3 DEF RunReturns, Alive, Gone
    <3>2. /\ Phase = "running" /\ Phase' = "delivered" /\ Gone' = Gone /\ Books' = Books
      BY <3>1 DEF Phase, Gone, Books, BookOf
    <3>3. Ledger!Deliver
      BY <3>1, <3>2 DEF Ledger!Deliver, Ledger!End
    <3> QED BY <3>3 DEF Ledger!Next
  <2>4. ASSUME NEW w \in Workers, Step(w) PROVE [Ledger!Next]_(Ledger!vars)
    <3>1. CASE RecordResult(w)
      <4>1. \E o \in Outcomes : Ledger!Book(w, o)
        BY <1>2, <3>1, RecordBooks
      <4> QED BY <4>1 DEF Ledger!Next
    <3>2. CASE Finish(w) \/ Stopped(w) \/ Abandon(w) \/ Drop(w)
      <4>1. /\ pc[w] # "done" /\ ~panicked
            /\ GoTo(w, "done") /\ UNCHANGED <<world, results, extra>>
        BY <3>2 DEF Finish, Stopped, Abandon, Drop, Leave, At, AtPair, Waiting, Gates, Alive
      <4>2. Ledger!Close(w)
        BY <1>2, <4>1, LeavingCloses
      <4> QED BY <4>2 DEF Ledger!Next
    <3>3. CASE Panic(w)
      <4>1. /\ ~panicked /\ panicked' = TRUE /\ pc[w] = "measure"
            /\ UNCHANGED <<ctx, stats, extra, returned, pc>>
        BY <3>3 DEF Panic, At, Alive
      <4>2. /\ Phase = "running" /\ Phase' = "crashed" /\ Gone' = Gone /\ Books' = Books
        BY <1>2, <4>1 DEF ReturnsLast, Phase, Gone, Books, BookOf
      <4>3. Ledger!Crash
        BY <4>1, <4>2 DEF Ledger!Crash, Ledger!End
      <4> QED BY <4>3 DEF Ledger!Next
    <3>4. CASE Spawn(w) \/ EndRound(w) \/ Skip(w) \/ Proceed(w) \/ Acquire(w) \/ Send(w)
               \/ Respond(w) \/ Log(w) \/ Measure(w)
      <4>1. UNCHANGED <<ctx, stats, extra, panicked, returned>>
        BY <3>4 DEF Spawn, EndRound, Skip, Proceed, Acquire, Send, Respond, Log, Measure, Advance
      <4>2. pc[w] # "done" /\ pc'[w] # "done" /\ pc \in [Workers -> Places]
        BY <1>2, <3>4 DEF TypeInv, TypeOK, Spawn, EndRound, Skip, Proceed, Acquire, Send, Respond,
             Log, Measure, Advance, After, At, AtPair, GoTo, Waiting, Gates
      <4>3. \A v \in Workers : v # w => pc'[v] = pc[v]
        BY <1>2, <2>4, OthersUntouched
      <4>4. Gone' = Gone
        BY <4>2, <4>3 DEF Gone
      <4> QED BY <4>1, <4>4, UnseenSteps
    <3> QED BY <2>4, <3>1, <3>2, <3>3, <3>4 DEF Step
  <2> QED BY <1>2, <2>1, <2>2, <2>3, <2>4 DEF Next
<1>3. Spec => [](~Timed => PlaceInv /\ ShareInv)
  <2>1. CASE Timed
    <3>1. ~Timed => PlaceInv /\ ShareInv
      BY <2>1
    <3> QED BY <3>1, PTL
  <2>2. CASE ~Timed
    <3>1. (Spec => []PlaceInv) /\ (Spec => []ShareInv)
      BY <2>2, PlacesKept, SharesKept
    <3> QED BY <3>1, PTL
  <2> QED BY <2>1, <2>2
<1> QED BY <1>1, <1>2, <1>3, Typed, ResultsAccounted, ExtraOnTheWayOut, Returns, PTL
        DEF Spec, Ledger!Spec
=============================================================================

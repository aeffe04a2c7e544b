----------------------------- MODULE ResultStats -----------------------------
(***************************************************************************)
(* What one worker remembers of its queries: dnsbench.ResultStats and its  *)
(* record method (pkg/dnsbench/result.go).                                 *)
(*                                                                         *)
(* A query ends in a "reply": an error, or a DNS response of which only    *)
(* the parts that record looks at are kept.  The pair (err, resp) of the   *)
(* code is one record whose response fields mean nothing when err # NoErr. *)
(* A datapoint is the stamp of its query: its start time, and its duration *)
(* where a module looks at it.                                             *)
(***************************************************************************)
EXTENDS Integers, Sequences, FiniteSets, Functions

CONSTANTS
  RcodeSet,   \* DNS response codes
  QtypeSet,   \* DNS query types
  Names,      \* domain names asked for
  EdeCodes,   \* Extended DNS Error info codes
  Errs,       \* errors a query can end in, identified by their text
  HttpErrs,   \* those that are a doh.UnexpectedServerHTTPStatusError
  CountRcodes,\* Benchmark.Rcodes
  UseDoH      \* Benchmark.useDoH

NOERROR  == "NOERROR"
NXDOMAIN == "NXDOMAIN"
NoErr    == "nil"
HttpOK   == "200"

(* Codes and types are numbers of 16 bits, a status one of three digits.   *)
ASSUME ResultStatsAssumption ==
  /\ IsFiniteSet(RcodeSet) /\ IsFiniteSet(QtypeSet) /\ IsFiniteSet(HttpErrs)
  /\ {NOERROR, NXDOMAIN} \subseteq RcodeSet
  /\ NoErr \notin Errs
  /\ HttpErrs \subseteq Errs
  /\ HttpOK \notin HttpErrs
  /\ CountRcodes \in BOOLEAN
  /\ UseDoH \in BOOLEAN

HttpStatuses == HttpErrs \union {HttpOK}

(* What query(ctx, req) returns, as far as this program looks at it.       *)
Reply ==
  [ err      : Errs \union {NoErr},
    rcode    : RcodeSet,
    sameId   : BOOLEAN,            \* resp.Id = req.Id
    answer   : BOOLEAN,            \* len(resp.Answer) > 0
    tc       : BOOLEAN,            \* resp.Truncated
    ad       : BOOLEAN,            \* resp.AuthenticatedData
    ede      : [EdeCodes -> Nat],  \* how often each EDE option occurs
    question : BOOLEAN,            \* len(resp.Question) > 0
    cookie   : {"none", "echo", "foreign"}, \* COOKIE option of the response
    inRange  : BOOLEAN ]           \* the histogram can hold the duration

(* Results whose datapoints carry start times taken from Stamps.           *)
Stats(Stamps) ==
  [ Total : Nat, IOError : Nat, Success : Nat, Negative : Nat, Error : Nat,
    IDmismatch : Nat, Truncated : Nat,
    Codes : [RcodeSet -> Nat], Qtypes : [QtypeSet -> Nat],
    DoHStatusCodes : [HttpStatuses -> Nat], EDECodes : [EdeCodes -> Nat],
    AuthenticatedDomains : SUBSET Names,
    Hist : Nat,                    \* how many durations the histogram holds
    Timings : Seq(Stamps),
    Errors : Seq([start : Stamps, err : Errs]) ]

NewResultStats ==
  [ Total |-> 0, IOError |-> 0, Success |-> 0, Negative |-> 0, Error |-> 0,
    IDmismatch |-> 0, Truncated |-> 0,
    Codes   |-> [c \in RcodeSet |-> 0],
    Qtypes  |-> [t \in QtypeSet |-> 0],
    DoHStatusCodes |-> [s \in HttpStatuses |-> 0],
    EDECodes |-> [c \in EdeCodes |-> 0],
    AuthenticatedDomains |-> {},
    Hist    |-> 0,
    Timings |-> << >>,
    Errors  |-> << >> ]

OneIf(b) == IF b THEN 1 ELSE 0
AppendIf(b, s, e) == IF b THEN Append(s, e) ELSE s

Answered(r) == r.err = NoErr

(* Only a NOERROR response has its ID compared with the request's.         *)
Mismatched(r) == Answered(r) /\ r.rcode = NOERROR /\ ~r.sameId

(* Mutant: a mismatched response is counted but record does not return.    *)
KeptWhateverTheId(r) == Answered(r)

(* The replies that reach the end of record and leave a datapoint.         *)
Kept(r) == Answered(r) /\ ~Mismatched(r)

IsNegative(r) ==
  Kept(r) /\ (r.rcode = NXDOMAIN \/ (r.rcode = NOERROR /\ ~r.answer))

IsSuccess(r)   == Kept(r) /\ r.rcode = NOERROR /\ r.answer
IsError(r)     == Kept(r) /\ r.rcode \notin {NOERROR, NXDOMAIN}
IsFailure(r)   == ~Answered(r)
IsTruncated(r) == Answered(r) /\ r.tc
InHistogram(r) == Kept(r) /\ r.inRange

(* Mutant: a mismatched response has no HTTP status.                       *)
StatusOfKept(r) == IF Kept(r) THEN {HttpOK} ELSE {r.err} \intersect HttpErrs

(* The HTTP statuses that record counts for one reply: none or one.        *)
StatusOf(r) == IF Answered(r) THEN {HttpOK} ELSE {r.err} \intersect HttpErrs

(* record: q is the question of the request, start its start time.         *)
Record(st, q, r, start) ==
  [ Total      |-> st.Total + 1,
    IOError    |-> st.IOError + OneIf(IsFailure(r)),
    Truncated  |-> st.Truncated + OneIf(IsTruncated(r)),
    IDmismatch |-> st.IDmismatch + OneIf(Mismatched(r)),
    Success    |-> st.Success + OneIf(IsSuccess(r)),
    Negative   |-> st.Negative + OneIf(IsNegative(r)),
    Error      |-> st.Error + OneIf(IsError(r)),
    Codes      |-> [c \in RcodeSet |->
                      st.Codes[c] + OneIf(CountRcodes /\ Kept(r) /\ c = r.rcode)],
    Qtypes     |-> [t \in QtypeSet |-> st.Qtypes[t] + OneIf(t = q.qtype)],
    DoHStatusCodes |-> [s \in HttpStatuses |->
                      st.DoHStatusCodes[s] + OneIf(UseDoH /\ s \in StatusOf(r))],
    EDECodes   |-> [c \in EdeCodes |->
                      st.EDECodes[c] + IF Kept(r) THEN r.ede[c] ELSE 0],
    AuthenticatedDomains |-> st.AuthenticatedDomains
                      \union IF Kept(r) /\ r.ad THEN {q.name} ELSE {},
    Hist       |-> st.Hist + OneIf(InHistogram(r)),
    Timings    |-> AppendIf(Kept(r), st.Timings, start),
    Errors     |-> AppendIf(IsFailure(r), st.Errors, [start |-> start, err |-> r.err]) ]

(***************************************************************************)
(* What the counters of one worker mean to one another.  The reporters     *)
(* rely on it: percentages are shares of Total, latency statistics are     *)
(* those of the Timings, the error plot is drawn from Errors.              *)
(***************************************************************************)
CountersPartitionTotal(st) ==
  st.Total = st.IOError + st.Success + st.Negative + st.Error + st.IDmismatch

DatapointsMatchCounters(st) ==
  /\ Len(st.Errors) = st.IOError
  /\ Len(st.Timings) = st.Success + st.Negative + st.Error
  /\ st.Hist <= Len(st.Timings)
  /\ st.Truncated <= st.Total - st.IOError

Accounted(st) == CountersPartitionTotal(st) /\ DatapointsMatchCounters(st)

(* The breakdowns by type, by response code and by HTTP status are         *)
(* breakdowns of those counters: each printed share is a share of a total. *)
BreakdownsMatchCounters(st) ==
  /\ SumFunction(st.Qtypes) = st.Total
  /\ CountRcodes => SumFunction(st.Codes) = Len(st.Timings)
  /\ CountRcodes => st.Codes[NOERROR] >= st.Success
  /\ UseDoH => /\ st.DoHStatusCodes[HttpOK] = st.Total - st.IOError
               /\ SumFunction(st.DoHStatusCodes) <= st.Total
  /\ Cardinality(st.AuthenticatedDomains) <= Len(st.Timings)
=============================================================================

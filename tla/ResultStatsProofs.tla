------------------------- MODULE ResultStatsProofs --------------------------
(***************************************************************************)
(* What record (pkg/dnsbench/result.go) keeps true of the results of one   *)
(* worker, for any reply at all.                                           *)
(***************************************************************************)
EXTENDS ResultStats, SumTheorems, TLAPS

(* Fresh results are results and add up.                                   *)
LEMMA NewResultStatsOK ==
  ASSUME NEW Stamps
  PROVE  NewResultStats \in Stats(Stamps) /\ Accounted(NewResultStats)
BY DEF NewResultStats, Stats, Accounted, CountersPartitionTotal,
       DatapointsMatchCounters

(* Appending under a condition.                                            *)
LEMMA AppendIfOK ==
  ASSUME NEW S, NEW s \in Seq(S), NEW b \in BOOLEAN, NEW e, b => e \in S
  PROVE  AppendIf(b, s, e) \in Seq(S) /\ Len(AppendIf(b, s, e)) = Len(s) + OneIf(b)
BY DEF AppendIf, OneIf

(* Each reply falls into exactly one of the five classes that the counters *)
(* stand for.                                                              *)
LEMMA FiveClasses ==
  ASSUME NEW r \in Reply
  PROVE  /\ OneIf(IsFailure(r)) + OneIf(Kept(r)) + OneIf(Mismatched(r)) = 1
         /\ OneIf(Kept(r)) =
              OneIf(IsSuccess(r)) + OneIf(IsNegative(r))
              + OneIf(IsError(r))
BY DEF OneIf, Kept, Answered, Mismatched, IsNegative, IsSuccess, IsError, IsFailure,
       NOERROR, NXDOMAIN, Reply

(* The number fields of recorded results, for later use with Record hidden. *)
LEMMA RecordFields ==
  ASSUME NEW Stamps, NEW st \in Stats(Stamps), NEW start, NEW q, NEW r \in Reply
  PROVE  /\ Record(st, q, r, start).Total = st.Total + 1
         /\ Record(st, q, r, start).IOError = st.IOError + OneIf(IsFailure(r))
         /\ Record(st, q, r, start).IDmismatch = st.IDmismatch + OneIf(Mismatched(r))
         /\ Record(st, q, r, start).Success = st.Success + OneIf(IsSuccess(r))
         /\ Record(st, q, r, start).Negative = st.Negative + OneIf(IsNegative(r))
         /\ Record(st, q, r, start).Error = st.Error + OneIf(IsError(r))
         /\ Record(st, q, r, start).Truncated = st.Truncated + OneIf(IsTruncated(r))
         /\ Record(st, q, r, start).Hist = st.Hist + OneIf(InHistogram(r))
BY DEF Record

(* All of them are natural numbers.                                        *)
LEMMA CountersAreNat ==
  ASSUME NEW Stamps, NEW st \in Stats(Stamps)
  PROVE  /\ st.Total \in Nat /\ st.IOError \in Nat /\ st.Success \in Nat
         /\ st.Negative \in Nat /\ st.Error \in Nat /\ st.IDmismatch \in Nat
         /\ st.Truncated \in Nat /\ st.Hist \in Nat
         /\ Len(st.Timings) \in Nat /\ Len(st.Errors) \in Nat
BY DEF Stats

(* So are the terms that a recorded reply adds.                            *)
LEMMA OneIfIsNat ==
  ASSUME NEW r \in Reply
  PROVE  /\ OneIf(IsTruncated(r)) \in Nat /\ OneIf(InHistogram(r)) \in Nat
         /\ OneIf(IsFailure(r)) \in Nat /\ OneIf(Kept(r)) \in Nat
         /\ OneIf(Mismatched(r)) \in Nat /\ OneIf(IsNegative(r)) \in Nat
         /\ OneIf(IsSuccess(r)) \in Nat
         /\ OneIf(IsError(r)) \in Nat
BY DEF OneIf

(* record returns results again.                                           *)
LEMMA RecordType ==
  ASSUME NEW Stamps, NEW st \in Stats(Stamps), NEW start \in Stamps,
         NEW q \in [name : Names, qtype : QtypeSet], NEW r \in Reply
  PROVE  Record(st, q, r, start) \in Stats(Stamps)
<1> DEFINE rec == Record(st, q, r, start)
<1>1. \A b \in BOOLEAN : OneIf(b) \in Nat
  BY DEF OneIf
<1>2. AppendIf(Kept(r), st.Timings, start) \in Seq(Stamps)
  BY AppendIfOK DEF Stats, Kept, Answered, Mismatched
<1>3. AppendIf(IsFailure(r), st.Errors, [start |-> start, err |-> r.err])
        \in Seq([start : Stamps, err : Errs])
  <2>1. IsFailure(r) => [start |-> start, err |-> r.err] \in [start : Stamps, err : Errs]
    BY DEF Answered, IsFailure, Reply
  <2> QED BY <2>1, AppendIfOK DEF Stats, IsFailure
<1>4. [c \in EdeCodes |-> st.EDECodes[c] + IF Kept(r) THEN r.ede[c] ELSE 0]
        \in [EdeCodes -> Nat]
  BY DEF Stats, Reply
<1>5. /\ [c \in RcodeSet |-> st.Codes[c] + OneIf(CountRcodes /\ Kept(r) /\ c = r.rcode)]
           \in [RcodeSet -> Nat]
      /\ [t \in QtypeSet |-> st.Qtypes[t] + OneIf(t = q.qtype)] \in [QtypeSet -> Nat]
      /\ [s \in HttpStatuses |-> st.DoHStatusCodes[s] + OneIf(UseDoH /\ s \in StatusOf(r))]
           \in [HttpStatuses -> Nat]
  BY DEF Stats, OneIf
<1>6. st.AuthenticatedDomains \union (IF Kept(r) /\ r.ad THEN {q.name} ELSE {})
        \in SUBSET Names
  BY DEF Stats
<1>7. /\ rec.Total \in Nat /\ rec.IOError \in Nat /\ rec.Success \in Nat
      /\ rec.Negative \in Nat /\ rec.Error \in Nat /\ rec.IDmismatch \in Nat
      /\ rec.Truncated \in Nat /\ rec.Hist \in Nat
  <2>1. /\ rec.Total = st.Total + 1
        /\ rec.IOError = st.IOError + OneIf(IsFailure(r))
        /\ rec.IDmismatch = st.IDmismatch + OneIf(Mismatched(r))
        /\ rec.Success = st.Success + OneIf(IsSuccess(r))
        /\ rec.Negative = st.Negative + OneIf(IsNegative(r))
        /\ rec.Error = st.Error + OneIf(IsError(r))
        /\ rec.Truncated = st.Truncated + OneIf(IsTruncated(r))
        /\ rec.Hist = st.Hist + OneIf(InHistogram(r))
    BY RecordFields
  <2> HIDE DEF rec
  <2>2. /\ st.Total \in Nat /\ st.IOError \in Nat /\ st.Success \in Nat
        /\ st.Negative \in Nat /\ st.Error \in Nat /\ st.IDmismatch \in Nat
        /\ st.Truncated \in Nat /\ st.Hist \in Nat
    BY CountersAreNat
  <2> QED BY <2>1, <2>2, OneIfIsNat
<1> QED
  BY <1>2, <1>3, <1>4, <1>5, <1>6, <1>7 DEF Record, Stats

(* The sum behind it, in plain numbers: one reply adds one to the total    *)
(* and one to exactly one of its five parts.                               *)
LEMMA OneMoreOfFive ==
  ASSUME NEW total \in Nat, NEW ioError \in Nat, NEW success \in Nat,
         NEW negative \in Nat, NEW error \in Nat, NEW mismatch \in Nat,
         NEW f \in Nat, NEW s \in Nat, NEW n \in Nat, NEW e \in Nat, NEW m \in Nat,
         f + (s + n + e) + m = 1,
         total = ioError + success + negative + error + mismatch
  PROVE  total + 1 =
           (ioError + f) + (success + s) + (negative + n) + (error + e) + (mismatch + m)
OBVIOUS

(* record keeps the counters a partition of Total and the datapoints as    *)
(* many as the counters say.                                               *)
THEOREM RecordAccounted ==
  ASSUME NEW Stamps, NEW st \in Stats(Stamps), NEW start \in Stamps,
         NEW q, NEW r \in Reply, Accounted(st)
  PROVE  Accounted(Record(st, q, r, start))
<1> DEFINE rec == Record(st, q, r, start)
           f == OneIf(IsFailure(r))
           k == OneIf(Kept(r))
           m == OneIf(Mismatched(r))
           s == OneIf(IsSuccess(r))
           n == OneIf(IsNegative(r))
           e == OneIf(IsError(r))
           t == OneIf(IsTruncated(r))
           h == OneIf(InHistogram(r))
<1>1. Len(rec.Timings) = Len(st.Timings) + k /\ Len(rec.Errors) = Len(st.Errors) + f
  <2>1. IsFailure(r) => [start |-> start, err |-> r.err] \in [start : Stamps, err : Errs]
    BY DEF Answered, IsFailure, Reply
  <2>2. st.Timings \in Seq(Stamps) /\ st.Errors \in Seq([start : Stamps, err : Errs])
    BY DEF Stats
  <2>3. Kept(r) \in BOOLEAN /\ IsFailure(r) \in BOOLEAN
    BY DEF Kept, Answered, Mismatched, IsFailure
  <2>4. /\ rec.Timings = AppendIf(Kept(r), st.Timings, start)
        /\ rec.Errors = AppendIf(IsFailure(r), st.Errors, [start |-> start, err |-> r.err])
    BY DEF Record
  <2>5. Len(AppendIf(Kept(r), st.Timings, start)) = Len(st.Timings) + k
    BY <2>2, <2>3, AppendIfOK
  <2>6. Len(AppendIf(IsFailure(r), st.Errors, [start |-> start, err |-> r.err]))
          = Len(st.Errors) + f
    BY <2>1, <2>2, <2>3, AppendIfOK
  <2> QED BY <2>4, <2>5, <2>6
<1>2. t <= 1 - f /\ h <= k
  BY DEF OneIf, IsTruncated, IsFailure, InHistogram
<1>3. /\ rec.Total = st.Total + 1         /\ rec.IOError = st.IOError + f
      /\ rec.IDmismatch = st.IDmismatch + m /\ rec.Success = st.Success + s
      /\ rec.Negative = st.Negative + n   /\ rec.Error = st.Error + e
      /\ rec.Truncated = st.Truncated + t /\ rec.Hist = st.Hist + h
  BY RecordFields
<1>4. f + (s + n + e) + m = 1 /\ k = s + n + e
  BY FiveClasses, OneIfIsNat
<1>5. /\ f \in Nat /\ k \in Nat /\ m \in Nat /\ s \in Nat
      /\ n \in Nat /\ e \in Nat /\ t \in Nat /\ h \in Nat
  BY OneIfIsNat
<1> DEFINE total == st.Total
           ioError == st.IOError
           success == st.Success
           negative == st.Negative
           error == st.Error
           mismatch == st.IDmismatch
           truncated == st.Truncated
           hist == st.Hist
           timings == Len(st.Timings)
           errors == Len(st.Errors)
<1>6. /\ total \in Nat /\ ioError \in Nat /\ success \in Nat /\ negative \in Nat
      /\ error \in Nat /\ mismatch \in Nat /\ truncated \in Nat /\ hist \in Nat
      /\ timings \in Nat /\ errors \in Nat
  BY CountersAreNat
<1>7. /\ total = ioError + success + negative + error + mismatch
      /\ errors = ioError /\ timings = success + negative + error
      /\ hist <= timings /\ truncated <= total - ioError
  BY DEF Accounted, CountersPartitionTotal, DatapointsMatchCounters
<1>8. CountersPartitionTotal(rec)
  <2>1. total + 1 =
          (ioError + f) + (success + s) + (negative + n) + (error + e) + (mismatch + m)
    <3> HIDE DEF f, m, s, n, e, total, ioError, success, negative, error, mismatch
    <3> QED BY <1>4, <1>5, <1>6, <1>7, OneMoreOfFive
  <2> HIDE DEF rec
  <2> QED BY <1>3, <2>1 DEF CountersPartitionTotal
<1>9. DatapointsMatchCounters(rec)
  <2>1. /\ errors + f = ioError + f
        /\ timings + k = (success + s) + (negative + n) + (error + e)
        /\ hist + h <= timings + k
        /\ truncated + t <= (total + 1) - (ioError + f)
    <3> HIDE DEF f, k, m, s, n, e, t, h, total, ioError, success, negative, error,
                 mismatch, truncated, hist, timings, errors
    <3> QED BY <1>2, <1>4, <1>5, <1>6, <1>7
  <2> HIDE DEF rec
  <2> QED BY <1>1, <1>3, <2>1 DEF DatapointsMatchCounters
<1> QED BY <1>8, <1>9 DEF Accounted

(***************************************************************************)
(* The breakdowns.                                                         *)
(***************************************************************************)
(* BreakdownsMatchCounters counts the names that were authenticated, which *)
(* says something of a finite set only.                                    *)
BrokenDown(st) == IsFiniteSet(st.AuthenticatedDomains) /\ BreakdownsMatchCounters(st)

(* The breakdowns of fresh results are empty.                              *)
LEMMA NewResultStatsBrokenDown == BrokenDown(NewResultStats)
<1> DEFINE codes == [c \in RcodeSet |-> 0]
           types == [t \in QtypeSet |-> 0]
           statuses == [s \in HttpStatuses |-> 0]
<1>1. IsFiniteSet(RcodeSet) /\ IsFiniteSet(QtypeSet) /\ IsFiniteSet(HttpStatuses)
  BY ResultStatsAssumption, FS_AddElement DEF HttpStatuses
<1>2. SumFunction(codes) = 0 /\ SumFunction(types) = 0 /\ SumFunction(statuses) = 0
  BY <1>1, SumZero
<1>3. codes[NOERROR] = 0 /\ statuses[HttpOK] = 0
  BY ResultStatsAssumption DEF HttpStatuses
<1>4. IsFiniteSet({}) /\ Cardinality({}) = 0 /\ Len(<< >>) = 0
  BY FS_EmptySet
<1> QED BY <1>2, <1>3, <1>4 DEF BrokenDown, BreakdownsMatchCounters, NewResultStats

(* record counts a query for its type, and only for that.                  *)
LEMMA RecordByType ==
  ASSUME NEW Stamps, NEW st \in Stats(Stamps), NEW start,
         NEW q \in [name : Names, qtype : QtypeSet], NEW r \in Reply
  PROVE  SumFunction(Record(st, q, r, start).Qtypes) = SumFunction(st.Qtypes) + 1
<1> DEFINE f == st.Qtypes
           g == Record(st, q, r, start).Qtypes
<1>1. f \in [QtypeSet -> Nat]
  BY DEF Stats
<1>2. DOMAIN g = QtypeSet /\ \A t \in QtypeSet : g[t] = f[t] + IF t = q.qtype THEN 1 ELSE 0
  BY DEF Record, OneIf
<1>3. IsFiniteSet(QtypeSet) /\ q.qtype \in QtypeSet
  BY ResultStatsAssumption
<1> HIDE DEF f, g
<1>4. SumFunction(g) = SumFunction(f) + 1
  BY <1>1, <1>2, <1>3, SumAdded
<1> QED BY <1>4 DEF f, g

(* It counts a response that it keeps for its code.                        *)
LEMMA RecordByCode ==
  ASSUME NEW Stamps, NEW st \in Stats(Stamps), NEW start, NEW q, NEW r \in Reply, CountRcodes
  PROVE  LET rec == Record(st, q, r, start) IN
         /\ SumFunction(rec.Codes) = SumFunction(st.Codes) + OneIf(Kept(r))
         /\ rec.Codes[NOERROR] = st.Codes[NOERROR] + OneIf(Kept(r) /\ r.rcode = NOERROR)
<1> DEFINE f == st.Codes
           g == Record(st, q, r, start).Codes
           k == OneIf(Kept(r))
<1>1. f \in [RcodeSet -> Nat]
  BY DEF Stats
<1>2. k \in Nat
  BY OneIfIsNat
<1>3. DOMAIN g = RcodeSet /\ \A c \in RcodeSet : g[c] = f[c] + IF c = r.rcode THEN k ELSE 0
  BY DEF Record, OneIf
<1>4. IsFiniteSet(RcodeSet) /\ r.rcode \in RcodeSet /\ NOERROR \in RcodeSet
  BY ResultStatsAssumption DEF Reply
<1>5. g[NOERROR] = f[NOERROR] + OneIf(Kept(r) /\ r.rcode = NOERROR)
  BY <1>3, <1>4 DEF OneIf
<1> HIDE DEF f, g, k
<1>6. SumFunction(g) = SumFunction(f) + k
  BY <1>1, <1>2, <1>3, <1>4, SumAdded
<1> QED BY <1>5, <1>6 DEF f, g, k

(* It counts a reply for at most one HTTP status, an answer for 200.       *)
LEMMA RecordByStatus ==
  ASSUME NEW Stamps, NEW st \in Stats(Stamps), NEW start, NEW q, NEW r \in Reply, UseDoH
  PROVE  LET rec == Record(st, q, r, start) IN
         /\ SumFunction(rec.DoHStatusCodes)
              \in {SumFunction(st.DoHStatusCodes), SumFunction(st.DoHStatusCodes) + 1}
         /\ rec.DoHStatusCodes[HttpOK] = st.DoHStatusCodes[HttpOK] + OneIf(Answered(r))
<1> DEFINE f == st.DoHStatusCodes
           g == Record(st, q, r, start).DoHStatusCodes
<1>1. f \in [HttpStatuses -> Nat]
  BY DEF Stats
<1>2. DOMAIN g = HttpStatuses /\ \A s \in HttpStatuses : g[s] = f[s] + OneIf(s \in StatusOf(r))
  BY DEF Record
<1>3. IsFiniteSet(HttpStatuses) /\ HttpOK \in HttpStatuses
  BY ResultStatsAssumption, FS_AddElement DEF HttpStatuses
<1>4. g[HttpOK] = f[HttpOK] + OneIf(Answered(r))
  <2>1. HttpOK \in StatusOf(r) <=> Answered(r)
    BY ResultStatsAssumption DEF StatusOf
  <2> HIDE DEF f, g
  <2> QED BY <1>2, <1>3, <2>1 DEF OneIf
<1>5. \/ StatusOf(r) = {}
      \/ \E a \in HttpStatuses : StatusOf(r) = {a}
  <2>1. CASE Answered(r)
    BY <1>3, <2>1 DEF StatusOf
  <2>2. CASE ~Answered(r)
    BY <2>2 DEF StatusOf, HttpStatuses
  <2> QED BY <2>1, <2>2
<1> HIDE DEF f, g
<1>6. CASE StatusOf(r) = {}
  <2>1. \A s \in HttpStatuses : g[s] = f[s] + IF s = HttpOK THEN 0 ELSE 0
    BY <1>2, <1>6 DEF OneIf
  <2>2. SumFunction(g) = SumFunction(f) + 0
    BY <1>1, <1>2, <1>3, <2>1, SumAdded
  <2>3. SumFunction(f) \in Nat
    BY <1>1, <1>3, SumType
  <2> QED BY <1>4, <2>2, <2>3 DEF f, g
<1>7. ASSUME NEW a \in HttpStatuses, StatusOf(r) = {a}
      PROVE  SumFunction(g) = SumFunction(f) + 1
  <2>1. \A s \in HttpStatuses : g[s] = f[s] + IF s = a THEN 1 ELSE 0
    BY <1>2, <1>7 DEF OneIf
  <2> QED BY <1>1, <1>2, <1>3, <2>1, SumAdded
<1> QED BY <1>4, <1>5, <1>6, <1>7 DEF f, g

(* It adds a name at most where it adds a timing.                          *)
LEMMA RecordNames ==
  ASSUME NEW Stamps, NEW st \in Stats(Stamps), NEW start, NEW q, NEW r \in Reply,
         IsFiniteSet(st.AuthenticatedDomains)
  PROVE  LET rec == Record(st, q, r, start) IN
         /\ IsFiniteSet(rec.AuthenticatedDomains)
         /\ Cardinality(rec.AuthenticatedDomains)
              <= Cardinality(st.AuthenticatedDomains) + OneIf(Kept(r))
<1> DEFINE new == Record(st, q, r, start).AuthenticatedDomains
           old == st.AuthenticatedDomains
<1>1. IsFiniteSet(old) /\ Cardinality(old) \in Nat
  BY FS_CardinalityType
<1>2. CASE Kept(r) /\ r.ad
  <2>1. new = old \union {q.name}
    BY <1>2 DEF Record
  <2>2. OneIf(Kept(r)) = 1
    BY <1>2 DEF OneIf
  <2> HIDE DEF new, old
  <2>3. IsFiniteSet(new) /\ Cardinality(new) <= Cardinality(old) + 1
    <3> DEFINE name == q.name
    <3> HIDE DEF name
    <3>1. new = old \union {name}
      BY <2>1 DEF name
    <3>2. /\ IsFiniteSet(old \union {name})
          /\ Cardinality(old \union {name})
               = IF name \in old THEN Cardinality(old) ELSE Cardinality(old) + 1
      BY <1>1, FS_AddElement
    <3> QED BY <1>1, <3>1, <3>2
  <2>4. IsFiniteSet(new) /\ Cardinality(new) <= Cardinality(old) + OneIf(Kept(r))
    BY <2>2, <2>3
  <2> QED BY <2>4 DEF new, old
<1>3. CASE ~(Kept(r) /\ r.ad)
  <2>1. new = old
    BY <1>3 DEF Record
  <2>2. OneIf(Kept(r)) \in Nat
    BY OneIfIsNat
  <2> HIDE DEF new, old
  <2>4. IsFiniteSet(new) /\ Cardinality(new) <= Cardinality(old) + OneIf(Kept(r))
    BY <1>1, <2>1, <2>2
  <2> QED BY <2>4 DEF new, old
<1> QED BY <1>2, <1>3

(* So every printed breakdown stays one of the counters, for any reply.    *)
THEOREM RecordBrokenDown ==
  ASSUME NEW Stamps, NEW st \in Stats(Stamps), NEW start \in Stamps,
         NEW q \in [name : Names, qtype : QtypeSet], NEW r \in Reply,
         Accounted(st), BrokenDown(st)
  PROVE  BrokenDown(Record(st, q, r, start))
<1> DEFINE rec == Record(st, q, r, start)
           f == OneIf(IsFailure(r))
           k == OneIf(Kept(r))
           s == OneIf(IsSuccess(r))
           a == OneIf(Answered(r))
           c == OneIf(Kept(r) /\ r.rcode = NOERROR)
<1>1. /\ f \in Nat /\ k \in Nat /\ s \in Nat
      /\ f + a = 1 /\ s <= c /\ c \in Nat /\ a \in Nat
  BY DEF OneIf, IsFailure, IsSuccess
<1>2. rec.Total = st.Total + 1 /\ rec.IOError = st.IOError + f /\ rec.Success = st.Success + s
  BY RecordFields
<1>3. Len(rec.Timings) = Len(st.Timings) + k
  <2>1. Kept(r) \in BOOLEAN /\ st.Timings \in Seq(Stamps)
    BY DEF Kept, Answered, Mismatched, Stats
  <2>2. rec.Timings = AppendIf(Kept(r), st.Timings, start)
    BY DEF Record
  <2> QED BY <2>1, <2>2, AppendIfOK
<1>4. /\ st.Total \in Nat /\ st.IOError \in Nat /\ st.Success \in Nat /\ Len(st.Timings) \in Nat
      /\ st.Codes[NOERROR] \in Nat
  BY CountersAreNat, ResultStatsAssumption DEF Stats
<1> HIDE DEF rec, f, k, s, a, c
<1>5. SumFunction(rec.Qtypes) = rec.Total
  <2>1. SumFunction(rec.Qtypes) = SumFunction(st.Qtypes) + 1
    BY RecordByType DEF rec
  <2> QED BY <1>2, <2>1 DEF BrokenDown, BreakdownsMatchCounters
<1>6. ASSUME CountRcodes
      PROVE  SumFunction(rec.Codes) = Len(rec.Timings) /\ rec.Codes[NOERROR] >= rec.Success
  <2>1. /\ SumFunction(rec.Codes) = SumFunction(st.Codes) + k
        /\ rec.Codes[NOERROR] = st.Codes[NOERROR] + c
    BY <1>6, RecordByCode DEF rec, k, c
  <2>2. SumFunction(st.Codes) = Len(st.Timings) /\ st.Codes[NOERROR] >= st.Success
    BY <1>6 DEF BrokenDown, BreakdownsMatchCounters
  <2> QED BY <1>1, <1>2, <1>3, <1>4, <2>1, <2>2
<1>7. ASSUME UseDoH
      PROVE  /\ rec.DoHStatusCodes[HttpOK] = rec.Total - rec.IOError
             /\ SumFunction(rec.DoHStatusCodes) <= rec.Total
  <2>1. /\ SumFunction(rec.DoHStatusCodes)
             \in {SumFunction(st.DoHStatusCodes), SumFunction(st.DoHStatusCodes) + 1}
        /\ rec.DoHStatusCodes[HttpOK] = st.DoHStatusCodes[HttpOK] + a
    BY <1>7, RecordByStatus DEF rec, a
  <2>2. /\ st.DoHStatusCodes[HttpOK] = st.Total - st.IOError
        /\ SumFunction(st.DoHStatusCodes) <= st.Total
    BY <1>7 DEF BrokenDown, BreakdownsMatchCounters
  <2>3. SumFunction(st.DoHStatusCodes) \in Nat
    <3>1. st.DoHStatusCodes \in [HttpStatuses -> Nat] /\ IsFiniteSet(HttpStatuses)
      BY ResultStatsAssumption, FS_AddElement DEF HttpStatuses, Stats
    <3> QED BY <3>1, SumType
  <2> DEFINE old == st.DoHStatusCodes[HttpOK]
             oldSum == SumFunction(st.DoHStatusCodes)
             newSum == SumFunction(rec.DoHStatusCodes)
             total == st.Total
             ioError == st.IOError
  <2>4. /\ oldSum \in Nat /\ total \in Nat /\ ioError \in Nat
        /\ old = total - ioError /\ oldSum <= total
        /\ newSum \in {oldSum, oldSum + 1}
    BY <1>4, <2>1, <2>2, <2>3
  <2>5. rec.DoHStatusCodes[HttpOK] = old + a
    BY <2>1
  <2>6. rec.Total = total + 1 /\ rec.IOError = ioError + f
    BY <1>2
  <2> HIDE DEF old, oldSum, newSum, total, ioError
  <2>7. newSum <= total + 1 /\ old + a = (total + 1) - (ioError + f)
    BY <1>1, <2>4
  <2> QED BY <2>5, <2>6, <2>7 DEF newSum
<1>8. /\ IsFiniteSet(rec.AuthenticatedDomains)
      /\ Cardinality(rec.AuthenticatedDomains) <= Len(rec.Timings)
  <2>1. /\ IsFiniteSet(rec.AuthenticatedDomains)
        /\ Cardinality(rec.AuthenticatedDomains) <= Cardinality(st.AuthenticatedDomains) + k
    BY RecordNames DEF rec, k, BrokenDown
  <2>2. /\ Cardinality(rec.AuthenticatedDomains) \in Nat
        /\ Cardinality(st.AuthenticatedDomains) \in Nat
        /\ Cardinality(st.AuthenticatedDomains) <= Len(st.Timings)
    BY <2>1, FS_CardinalityType DEF BrokenDown, BreakdownsMatchCounters
  <2> DEFINE new == Cardinality(rec.AuthenticatedDomains)
             old == Cardinality(st.AuthenticatedDomains)
             len == Len(st.Timings)
  <2>3. new \in Nat /\ old \in Nat /\ len \in Nat /\ old <= len /\ new <= old + k
    BY <1>4, <2>1, <2>2
  <2> HIDE DEF new, old, len
  <2>4. new <= len + k
    BY <1>1, <2>3
  <2> QED BY <1>3, <2>1, <2>4 DEF new, len
<1>9. BrokenDown(rec)
  BY <1>5, <1>6, <1>7, <1>8 DEF BrokenDown, BreakdownsMatchCounters
<1> QED BY <1>9 DEF rec
=============================================================================

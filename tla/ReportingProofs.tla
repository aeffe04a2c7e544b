-------------------------- MODULE ReportingProofs ---------------------------
(***************************************************************************)
(* What every report of a run shows, however its queries were spread over  *)
(* the workers and whatever they ended in: proofs about MergedResults,     *)
(* Reporters, Plots and Durations.                                         *)
(*                                                                         *)
(* Merge and the choice of the top errors are folds over sequences, and    *)
(* the sections up to "Bags" are what a fold, an insertion sort and the    *)
(* bag of a sequence are, in general.  Then MergeInv says that whole, the  *)
(* history of MergedResults, is at any time the sum of what the workers    *)
(* have recorded, and the theorems compare with it what Merge returns.     *)
(* The sections on the histogram follow its values, which are the sorted   *)
(* durations, through the bars to what the two reports make of these.      *)
(***************************************************************************)
EXTENDS Reporters, Plots, ResultStatsProofs, SumTheorems, SequenceTheorems, TLAPS

(***************************************************************************)
(* Types.                                                                  *)
(***************************************************************************)
Datapoints == [at : Nat, took : Nat]

WorkerResults == Stats(Datapoints)

(* What Merge adds up.                                                     *)
Totals ==
  [ GroupedErrors : [ErrTexts -> Nat],
    Total : Nat, IOError : Nat, Success : Nat, Negative : Nat, Error : Nat,
    IDmismatch : Nat, Truncated : Nat,
    Codes : [RcodeSet -> Nat], Qtypes : [QtypeSet -> Nat],
    DoHStatusCodes : [HttpStatuses -> Nat], EDECodes : [EdeCodes -> Nat],
    AuthenticatedDomains : SUBSET Names, Hist : Nat,
    Timings : Seq(Datapoints), Errors : Seq([start : Datapoints, err : Errs]) ]

(* Adding two breakdowns.                                                  *)
LEMMA PlusType ==
  ASSUME NEW S, NEW f \in [S -> Nat], NEW g \in [S -> Nat]
  PROVE  Plus(f, g) \in [S -> Nat] /\ \A x \in S : Plus(f, g)[x] = f[x] + g[x]
BY DEF Plus, Pointwise

(* The groups of some errors.                                              *)
LEMMA GroupedType ==
  ASSUME NEW X, NEW errors \in Seq(X)
  PROVE  Grouped(errors) \in [ErrTexts -> Nat]
<1>1. ASSUME NEW t \in ErrTexts
      PROVE  Cardinality({k \in DOMAIN errors : ErrString[errors[k].err] = t}) \in Nat
  <2>1. IsFiniteSet(DOMAIN errors)
    BY FS_Interval
  <2> DEFINE S == {k \in DOMAIN errors : ErrString[errors[k].err] = t}
  <2>2. S \in SUBSET DOMAIN errors
    OBVIOUS
  <2> HIDE DEF S
  <2>3. IsFiniteSet(S)
    BY <2>1, <2>2, FS_Subset
  <2>4. Cardinality(S) \in Nat
    BY <2>3, FS_CardinalityType
  <2> QED BY <2>4 DEF S
<1> QED BY <1>1 DEF Grouped

(* What Merge starts with has nothing in it.                               *)
LEMMA EmptyType ==
  /\ Empty \in Totals
  /\ Empty.GroupedErrors = [t \in ErrTexts |-> 0]
  /\ \A f \in DOMAIN NewResultStats : Empty[f] = NewResultStats[f]
<1>1. DOMAIN NewResultStats = { "Total", "IOError", "Success", "Negative", "Error",
        "IDmismatch", "Truncated", "Codes", "Qtypes", "DoHStatusCodes", "EDECodes",
        "AuthenticatedDomains", "Hist", "Timings", "Errors" }
  BY DEF NewResultStats
<1>2. /\ DOMAIN Empty = {"GroupedErrors"} \union DOMAIN NewResultStats
      /\ Empty.GroupedErrors = [t \in ErrTexts |-> 0]
      /\ \A f \in DOMAIN NewResultStats : Empty[f] = NewResultStats[f]
  BY <1>1 DEF Empty
<1>3. /\ Empty.Total = 0 /\ Empty.IOError = 0 /\ Empty.Success = 0 /\ Empty.Negative = 0
      /\ Empty.Error = 0 /\ Empty.IDmismatch = 0 /\ Empty.Truncated = 0 /\ Empty.Hist = 0
      /\ Empty.Codes = [c \in RcodeSet |-> 0] /\ Empty.Qtypes = [c \in QtypeSet |-> 0]
      /\ Empty.DoHStatusCodes = [c \in HttpStatuses |-> 0]
      /\ Empty.EDECodes = [c \in EdeCodes |-> 0]
      /\ Empty.AuthenticatedDomains = {} /\ Empty.Timings = << >> /\ Empty.Errors = << >>
  BY <1>1, <1>2 DEF NewResultStats
<1> DEFINE zero == [ GroupedErrors |-> [t \in ErrTexts |-> 0],
        Total |-> 0, IOError |-> 0, Success |-> 0, Negative |-> 0, Error |-> 0,
        IDmismatch |-> 0, Truncated |-> 0,
        Codes |-> [c \in RcodeSet |-> 0], Qtypes |-> [c \in QtypeSet |-> 0],
        DoHStatusCodes |-> [c \in HttpStatuses |-> 0], EDECodes |-> [c \in EdeCodes |-> 0],
        AuthenticatedDomains |-> {}, Hist |-> 0, Timings |-> << >>, Errors |-> << >> ]
<1>4. Empty = zero
  <2> DEFINE X == {"GroupedErrors"} \union DOMAIN NewResultStats
  <2>1. Empty = [x \in X |-> Empty[x]]
    BY DEF Empty
  <2>2. DOMAIN zero = X /\ zero = [x \in DOMAIN zero |-> zero[x]]
    BY <1>1
  <2>3. \A x \in X : Empty[x] = zero[x]
    <3>1. /\ Empty["GroupedErrors"] = zero["GroupedErrors"]
          /\ Empty["Codes"] = zero["Codes"] /\ Empty["Qtypes"] = zero["Qtypes"]
          /\ Empty["DoHStatusCodes"] = zero["DoHStatusCodes"]
          /\ Empty["EDECodes"] = zero["EDECodes"]
      BY <1>2, <1>3
    <3>2. /\ Empty["Total"] = zero["Total"]
          /\ Empty["IOError"] = zero["IOError"]
          /\ Empty["Success"] = zero["Success"]
          /\ Empty["Negative"] = zero["Negative"]
          /\ Empty["Error"] = zero["Error"]
          /\ Empty["IDmismatch"] = zero["IDmismatch"]
          /\ Empty["Truncated"] = zero["Truncated"]
          /\ Empty["Hist"] = zero["Hist"]
          /\ Empty["AuthenticatedDomains"] = zero["AuthenticatedDomains"]
          /\ Empty["Timings"] = zero["Timings"]
          /\ Empty["Errors"] = zero["Errors"]
      BY <1>3
    <3> HIDE DEF zero
    <3> QED BY <1>1, <3>1, <3>2
  <2> HIDE DEF zero, X
  <2> QED BY <2>1, <2>2, <2>3
<1>5. zero \in Totals
  BY DEF Totals
<1> QED BY <1>2, <1>4, <1>5

(* One turn of the loop keeps the type.                                    *)
LEMMA MergeOneType ==
  ASSUME NEW t \in Totals, NEW s \in WorkerResults
  PROVE  MergeOne(t, s) \in Totals
<1>1. /\ Plus(t.Codes, s.Codes) \in [RcodeSet -> Nat]
      /\ Plus(t.Qtypes, s.Qtypes) \in [QtypeSet -> Nat]
      /\ Plus(t.DoHStatusCodes, s.DoHStatusCodes) \in [HttpStatuses -> Nat]
      /\ Plus(t.EDECodes, s.EDECodes) \in [EdeCodes -> Nat]
  BY PlusType DEF Totals, WorkerResults, Stats
<1>2. AddGroups(t.GroupedErrors, s) \in [ErrTexts -> Nat]
  <2>1. s.Errors \in Seq([start : Datapoints, err : Errs])
    BY DEF WorkerResults, Stats
  <2>2. Grouped(s.Errors) \in [ErrTexts -> Nat]
    BY <2>1, GroupedType
  <2> QED BY <2>2, PlusType DEF AddGroups, Totals
<1>3. /\ t.Timings \o s.Timings \in Seq(Datapoints)
      /\ t.Errors \o s.Errors \in Seq([start : Datapoints, err : Errs])
  BY DEF Totals, WorkerResults, Stats
<1>4. t.AuthenticatedDomains \union (IF DNSSEC THEN s.AuthenticatedDomains ELSE {})
        \in SUBSET Names
  BY DEF Totals, WorkerResults, Stats
<1>5. /\ t.Hist + s.Hist \in Nat /\ t.Total + s.Total \in Nat
      /\ t.IOError + s.IOError \in Nat /\ t.Success + s.Success \in Nat
      /\ t.Negative + s.Negative \in Nat /\ t.Error + s.Error \in Nat
      /\ t.IDmismatch + s.IDmismatch \in Nat /\ t.Truncated + s.Truncated \in Nat
  <2>1. /\ t.Hist \in Nat /\ t.Total \in Nat /\ t.IOError \in Nat
        /\ t.Success \in Nat /\ t.Negative \in Nat /\ t.Error \in Nat
        /\ t.IDmismatch \in Nat /\ t.Truncated \in Nat
    BY DEF Totals
  <2>2. /\ s.Hist \in Nat /\ s.Total \in Nat /\ s.IOError \in Nat
        /\ s.Success \in Nat /\ s.Negative \in Nat /\ s.Error \in Nat
        /\ s.IDmismatch \in Nat /\ s.Truncated \in Nat
    BY CountersAreNat DEF WorkerResults
  <2> QED BY <2>1, <2>2
<1> QED BY <1>1, <1>2, <1>3, <1>4, <1>5 DEF MergeOne, Totals

(* So Merge is the last of a sequence of totals, one for each worker.      *)
LEMMA MergeFold ==
  ASSUME NEW s \in Seq(WorkerResults)
  PROVE  \E r : /\ r[0] = Empty
                /\ \A k \in 1..Len(s) : r[k] = MergeOne(r[k - 1], s[k])
                /\ \A k \in 0..Len(s) : r[k] \in Totals
                /\ FoldLeft(MergeOne, Empty, s) = r[Len(s)]
<1> DEFINE Eq(h) == h = [T \in SUBSET DOMAIN s |->
                     IF T = {} THEN Empty ELSE MergeOne(h[T \ {Max(T)}], s[Max(T)])]
           op == [p \in Totals \X WorkerResults |-> MergeOne(p[1], p[2])]
           g == CHOOSE h : Eq(h)
<1>1. FoldLeft(MergeOne, Empty, s) = g[DOMAIN s]
  BY DEF FoldLeft, MapThenFoldSet
<1>2. /\ StaysIn(op, Totals, WorkerResults)
      /\ \A t \in Totals, w \in WorkerResults : op[<<t, w>>] = MergeOne(t, w)
  BY MergeOneType DEF StaysIn
<1>3. Empty \in Totals
  BY EmptyType
<1> HIDE DEF op
<1>4. PICK h : LeftFolds(h, op, Empty, s) /\ \A T \in SUBSET DOMAIN s : h[T] \in Totals
  BY <1>2, <1>3, LeftFoldExists
<1>5. ASSUME NEW T \in SUBSET DOMAIN s, T # {}
      PROVE  op[<<h[T \ {Max(T)}], s[Max(T)]>>] = MergeOne(h[T \ {Max(T)}], s[Max(T)])
  <2>1. s[Max(T)] \in WorkerResults /\ h[T \ {Max(T)}] \in Totals
    BY <1>4, <1>5, MaxIndex
  <2> QED BY <1>2, <2>1
<1>6. Eq(h)
  BY <1>4, <1>5 DEF LeftFolds
<1>7. Eq(g)
  BY <1>6
<1> HIDE DEF g
<1>8. g[{}] = Empty /\ FoldsWithin(g, Totals, op, s)
  <2>1. \A T \in SUBSET DOMAIN s : T # {} => s[Max(T)] \in WorkerResults
    BY MaxIndex
  <2> QED BY <1>2, <1>7, <2>1 DEF FoldsWithin
<1>9. PICK r : FoldValues(r, Empty, op, s, Totals) /\ g[DOMAIN s] = r[Len(s)]
  BY <1>2, <1>3, <1>8, FoldRuns
<1>10. \A k \in 1..Len(s) : k - 1 \in 0..Len(s) /\ s[k] \in WorkerResults
  OBVIOUS
<1>11. \A k \in 1..Len(s) : r[k] = MergeOne(r[k - 1], s[k])
  BY <1>2, <1>9, <1>10 DEF FoldValues
<1> QED BY <1>1, <1>9, <1>11 DEF FoldValues

(***************************************************************************)
(* How often a value occurs in a sequence.                                 *)
(***************************************************************************)
Places(s, d) == {i \in DOMAIN s : s[i] = d}

Occurrences(s, d) == Cardinality(Places(s, d))

(* It is a number, and not zero exactly of what is in the sequence.        *)
LEMMA OccurrencesType ==
  ASSUME NEW X, NEW s \in Seq(X), NEW d
  PROVE  /\ IsFiniteSet(Places(s, d)) /\ Occurrences(s, d) \in Nat
         /\ Occurrences(s, d) > 0 <=> d \in ToSet(s)
<1>1. IsFiniteSet(DOMAIN s)
  BY FS_Interval
<1>2. Places(s, d) \in SUBSET DOMAIN s
  BY DEF Places
<1>3. IsFiniteSet(Places(s, d))
  BY <1>1, <1>2, FS_Subset
<1>4. /\ Cardinality(Places(s, d)) \in Nat
      /\ Cardinality(Places(s, d)) = 0 <=> Places(s, d) = {}
  BY <1>3, FS_CardinalityType, FS_EmptySet
<1>5. Places(s, d) = {} <=> d \notin ToSet(s)
  BY DEF Places, ToSet
<1> QED BY <1>3, <1>4, <1>5 DEF Occurrences

(* Sets of places that a shift makes equal are as large.                   *)
LEMMA ShiftedPlaces ==
  ASSUME NEW A, IsFiniteSet(A), NEW B, NEW f \in [A -> B],
         \A i, j \in A : f[i] = f[j] => i = j,
         \A j \in B : \E i \in A : f[i] = j
  PROVE  IsFiniteSet(B) /\ Cardinality(B) = Cardinality(A)
<1>1. f \in Bijection(A, B)
  BY DEF Bijection, Injection, Surjection, IsInjective
<1>2. ExistsBijection(A, B)
  BY <1>1 DEF ExistsBijection
<1> QED BY <1>2, FS_Bijection

(* InsertAt, written out.                                                  *)
LEMMA InsertAtMeans ==
  ASSUME NEW s, NEW m, NEW e
  PROVE  InsertAt(s, m + 1, e)
           = (SubSeq(s, 1, (m + 1) - 1) \o <<e>>) \o SubSeq(s, m + 1, Len(s))
BY DEF InsertAt

(* Putting e behind the first m elements.                                  *)
LEMMA InsertedAt ==
  ASSUME NEW X, NEW s \in Seq(X), NEW e \in X, NEW m \in 0..Len(s)
  PROVE  LET t == InsertAt(s, m + 1, e) IN
         /\ t \in Seq(X) /\ Len(t) = Len(s) + 1
         /\ t = [i \in 1..Len(s) + 1 |->
                   IF i <= m THEN s[i] ELSE IF i = m + 1 THEN e ELSE s[i - 1]]
<1> DEFINE a == SubSeq(s, 1, (m + 1) - 1)
           b == SubSeq(s, m + 1, Len(s))
<1>1. m \in Nat /\ Len(s) \in Nat /\ m <= Len(s) /\ (m + 1) - 1 = m
  OBVIOUS
<1>2. a \in Seq(X) /\ Len(a) = m /\ \A i \in 1..m : a[i] = s[i]
  BY <1>1
<1>3. /\ b \in Seq(X) /\ Len(b) = Len(s) - m
      /\ \A i \in 1..Len(s) - m : b[i] = s[m + i]
  BY <1>1
<1>4. InsertAt(s, m + 1, e) = (a \o <<e>>) \o b
  BY InsertAtMeans
<1> DEFINE c == a \o <<e>>
<1> HIDE DEF a, b
<1>5. <<e>> \in Seq(X) /\ Len(<<e>>) = 1 /\ <<e>>[1] = e
  OBVIOUS
<1>6. /\ c \in Seq(X) /\ Len(c) = m + 1
      /\ \A i \in 1..m + 1 : c[i] = IF i <= m THEN s[i] ELSE e
  BY <1>1, <1>2, <1>5, ConcatProperties
<1> HIDE DEF c
<1>7. /\ c \o b \in Seq(X) /\ Len(c \o b) = Len(s) + 1
      /\ \A i \in 1..Len(s) + 1 : (c \o b)[i] =
           IF i <= m + 1 THEN c[i] ELSE b[i - (m + 1)]
  BY <1>1, <1>3, <1>6, ConcatProperties
<1>8. \A i \in 1..Len(s) + 1 : (c \o b)[i] =
         IF i <= m THEN s[i] ELSE IF i = m + 1 THEN e ELSE s[i - 1]
  <2>1. ASSUME NEW i \in 1..Len(s) + 1, i > m + 1 PROVE b[i - (m + 1)] = s[i - 1]
    <3>1. i - (m + 1) \in 1..Len(s) - m /\ m + (i - (m + 1)) = i - 1
      BY <1>1, <2>1
    <3> QED BY <1>3, <3>1
  <2> QED BY <1>1, <1>6, <1>7, <2>1
<1> DEFINE t == c \o b
<1>9. t \in Seq(X) /\ Len(t) = Len(s) + 1 /\ InsertAt(s, m + 1, e) = t
  BY <1>4, <1>7 DEF c
<1>10. \A i \in 1..Len(s) + 1 : t[i] = IF i <= m THEN s[i] ELSE IF i = m + 1 THEN e ELSE s[i - 1]
  BY <1>8
<1> HIDE DEF t
<1>11. t = [i \in 1..Len(s) + 1 |-> t[i]]
  BY <1>9
<1> QED BY <1>9, <1>10, <1>11

(* So e occurs once more, and nothing else changes.                        *)
LEMMA InsertedOccurs ==
  ASSUME NEW X, NEW s \in Seq(X), NEW e \in X, NEW m \in 0..Len(s), NEW d
  PROVE  Occurrences(InsertAt(s, m + 1, e), d) = Occurrences(s, d) + OneIf(d = e)
<1> DEFINE t == InsertAt(s, m + 1, e)
           A == Places(s, d)
           B == Places(t, d) \ {m + 1}
           f == [i \in A |-> IF i <= m THEN i ELSE i + 1]
<1>1. /\ t \in Seq(X) /\ Len(t) = Len(s) + 1
      /\ t = [i \in 1..Len(s) + 1 |->
                IF i <= m THEN s[i] ELSE IF i = m + 1 THEN e ELSE s[i - 1]]
  BY InsertedAt
<1>2. /\ m \in Nat /\ Len(s) \in Nat /\ m <= Len(s)
      /\ DOMAIN s = 1..Len(s) /\ DOMAIN t = 1..Len(s) + 1
  BY <1>1
<1>3. /\ \A i \in 1..m : t[i] = s[i]
      /\ t[m + 1] = e
      /\ \A i \in 1..Len(s) : i > m => t[i + 1] = s[i]
  BY <1>1, <1>2
<1> HIDE DEF t
<1>4. IsFiniteSet(A) /\ IsFiniteSet(Places(t, d))
  BY <1>1, OccurrencesType
<1>5. \A i \in A : i \in 1..Len(s) /\ s[i] = d
  BY <1>2 DEF Places
<1>6. \A j \in B : j \in 1..Len(s) + 1 /\ j # m + 1 /\ t[j] = d
  BY <1>2 DEF Places
<1>7. \A j \in 1..Len(s) + 1 : j # m + 1 /\ t[j] = d => j \in B
  BY <1>2 DEF Places
<1>8. \A i \in 1..Len(s) : s[i] = d => i \in A
  BY <1>2 DEF Places
<1> HIDE DEF A, B
<1>9. f \in [A -> B]
  BY <1>2, <1>3, <1>5, <1>7
<1>10. \A i, j \in A : f[i] = f[j] => i = j
  BY <1>2, <1>5
<1>11. \A j \in B : \E i \in A : f[i] = j
  <2> TAKE j \in B
  <2>1. CASE j <= m
    <3>1. j \in A /\ f[j] = j
      BY <1>2, <1>3, <1>6, <1>8, <2>1
    <3> QED BY <3>1
  <2>2. CASE j > m + 1
    <3>1. j - 1 \in 1..Len(s) /\ j - 1 > m /\ (j - 1) + 1 = j
      BY <1>2, <1>6, <2>2
    <3>2. j - 1 \in A
      BY <1>3, <1>6, <1>8, <3>1
    <3>3. f[j - 1] = j
      BY <1>2, <3>1, <3>2
    <3> QED BY <3>2, <3>3
  <2> QED BY <1>2, <1>6, <2>1, <2>2
<1> HIDE DEF f
<1>12. IsFiniteSet(B) /\ Cardinality(B) = Cardinality(A)
  BY <1>4, <1>9, <1>10, <1>11, ShiftedPlaces
<1>13. m + 1 \in Places(t, d) <=> d = e
  BY <1>2, <1>3 DEF Places
<1>14. Cardinality(Places(t, d)) = Cardinality(B) + OneIf(d = e)
  <2>1. Places(t, d) = IF d = e THEN B \union {m + 1} ELSE B
    BY <1>13 DEF B
  <2>2. m + 1 \notin B
    BY DEF B
  <2>3. Cardinality(B \union {m + 1}) = Cardinality(B) + 1
    BY <1>12, <2>2, FS_AddElement
  <2>4. Cardinality(B) \in Nat
    BY <1>12, FS_CardinalityType
  <2> QED BY <2>1, <2>3, <2>4 DEF OneIf
<1> QED BY <1>12, <1>14 DEF Occurrences, A, t

(* What is in one sequence after the other.                                *)
LEMMA ConcatOccurs ==
  ASSUME NEW X, NEW s \in Seq(X), NEW u \in Seq(X), NEW d
  PROVE  Occurrences(s \o u, d) = Occurrences(s, d) + Occurrences(u, d)
<1> DEFINE t == s \o u
           A == Places(u, d)
           B == Places(t, d) \ Places(s, d)
           f == [i \in A |-> i + Len(s)]
<1>1. /\ t \in Seq(X) /\ Len(t) = Len(s) + Len(u)
      /\ \A i \in 1..Len(s) + Len(u) : t[i] = IF i <= Len(s) THEN s[i] ELSE u[i - Len(s)]
  BY ConcatProperties
<1>2. /\ Len(s) \in Nat /\ Len(u) \in Nat
      /\ DOMAIN s = 1..Len(s) /\ DOMAIN u = 1..Len(u) /\ DOMAIN t = 1..Len(s) + Len(u)
  BY <1>1
<1>3. /\ \A i \in 1..Len(s) : t[i] = s[i]
      /\ \A i \in 1..Len(u) : t[i + Len(s)] = u[i]
  BY <1>1, <1>2
<1> HIDE DEF t
<1>4. IsFiniteSet(A) /\ IsFiniteSet(Places(t, d)) /\ IsFiniteSet(Places(s, d))
  BY <1>1, OccurrencesType
<1>5. \A i \in A : i \in 1..Len(u) /\ u[i] = d
  BY <1>2 DEF Places
<1>6. \A j \in B : j \in 1..Len(s) + Len(u) /\ ~(j <= Len(s)) /\ t[j] = d
  BY <1>2, <1>3 DEF Places
<1>7. \A j \in 1..Len(s) + Len(u) : j > Len(s) /\ t[j] = d => j \in B
  BY <1>2 DEF Places
<1>8. \A i \in 1..Len(u) : u[i] = d => i \in A
  BY <1>2 DEF Places
<1>9. Places(s, d) \subseteq Places(t, d)
  BY <1>2, <1>3 DEF Places
<1> HIDE DEF A, B
<1>10. f \in [A -> B]
  BY <1>2, <1>3, <1>5, <1>7
<1>11. \A i, j \in A : f[i] = f[j] => i = j
  BY <1>2, <1>5
<1>12. \A j \in B : \E i \in A : f[i] = j
  <2> TAKE j \in B
  <2>1. j - Len(s) \in 1..Len(u) /\ (j - Len(s)) + Len(s) = j
    BY <1>2, <1>6
  <2>2. j - Len(s) \in A
    BY <1>3, <1>6, <1>8, <2>1
  <2>3. f[j - Len(s)] = j
    BY <2>1, <2>2
  <2> QED BY <2>2, <2>3
<1> HIDE DEF f
<1>13. IsFiniteSet(B) /\ Cardinality(B) = Cardinality(A)
  BY <1>4, <1>10, <1>11, <1>12, ShiftedPlaces
<1>14. Places(t, d) = Places(s, d) \union B /\ Places(s, d) \intersect B = {}
  BY <1>9 DEF B
<1>15. Cardinality(Places(t, d)) = Cardinality(Places(s, d)) + Cardinality(B)
  <2>1. Cardinality(Places(s, d)) \in Nat /\ Cardinality(B) \in Nat
    BY <1>4, <1>13, FS_CardinalityType
  <2>2. Cardinality(Places(s, d) \intersect B) = 0
    BY <1>14, FS_EmptySet
  <2>3. Cardinality(Places(s, d) \union B)
          = Cardinality(Places(s, d)) + Cardinality(B) - Cardinality(Places(s, d) \intersect B)
    BY <1>4, <1>13, FS_Union
  <2> QED BY <1>14, <2>1, <2>2, <2>3
<1> QED BY <1>13, <1>15 DEF Occurrences, A, t

(* Appending under a condition.                                            *)
LEMMA AppendIfOccurs ==
  ASSUME NEW X, NEW s \in Seq(X), NEW b \in BOOLEAN, NEW e, b => e \in X, NEW d
  PROVE  Occurrences(AppendIf(b, s, e), d) = Occurrences(s, d) + OneIf(b /\ d = e)
<1>1. CASE b
  <2> DEFINE u == <<e>>
  <2>1. u \in Seq(X) /\ Append(s, e) = s \o u /\ Len(u) = 1 /\ u[1] = e
    BY <1>1
  <2>2. Places(u, d) = IF d = e THEN {1} ELSE {}
    BY DEF Places
  <2>3. Occurrences(u, d) = OneIf(d = e)
    BY <2>2, FS_EmptySet, FS_Singleton DEF Occurrences, OneIf
  <2> HIDE DEF u
  <2>4. Occurrences(s \o u, d) = Occurrences(s, d) + Occurrences(u, d)
    BY <2>1, ConcatOccurs
  <2> QED BY <1>1, <2>1, <2>3, <2>4 DEF AppendIf
<1>2. CASE ~b
  <2>1. Occurrences(s, d) \in Nat
    BY OccurrencesType
  <2> QED BY <1>2, <2>1 DEF AppendIf, OneIf
<1> QED BY <1>1, <1>2

(***************************************************************************)
(* Sorting.                                                                *)
(***************************************************************************)
Earlier(done, e, start) == {k \in DOMAIN done : start[done[k]] <= start[e]}

Inserted(done, e, start) == InsertAt(done, Cardinality(Earlier(done, e, start)) + 1, e)

Sorted(s, start) == \A j, k \in DOMAIN s : j < k => start[s[j]] <= start[s[k]]

(* Indices of which none is left out are the first ones.                   *)
LEMMA FirstIndices ==
  ASSUME NEW n \in Nat, NEW A \in SUBSET (1..n),
         \A i \in A : \A j \in 1..n : j < i => j \in A
  PROVE  Cardinality(A) \in 0..n /\ A = 1..Cardinality(A)
<1>1. CASE A = {}
  <2>1. Cardinality(A) = 0
    BY <1>1, FS_EmptySet
  <2> QED BY <1>1, <2>1
<1>2. CASE A # {}
  <2>1. Max(A) \in A /\ \A x \in A : x <= Max(A)
    BY <1>2, MaxIn
  <2>2. PICK m \in 1..n : m = Max(A)
    BY <2>1
  <2>3. A = 1..m
    <3>1. \A x \in A : x \in 1..n /\ x <= m
      BY <2>1, <2>2
    <3>2. \A x \in 1..m : x \in 1..n /\ (x < m \/ x = m)
      BY <2>2
    <3>3. m \in A
      BY <2>1, <2>2
    <3>4. \A x \in 1..m : x \in A
      BY <3>2, <3>3
    <3>5. \A x \in 1..n : x <= m => x \in 1..m
      BY <2>2
    <3> QED BY <3>1, <3>4, <3>5
  <2>4. Cardinality(1..m) = m
    BY FS_Interval
  <2> QED BY <2>3, <2>4
<1> QED BY <1>1, <1>2

(* Behind whatever is not later, e is at its place.                        *)
LEMMA InsertSorted ==
  ASSUME NEW X, NEW done \in Seq(X), NEW e \in X, NEW start \in [X -> Nat],
         Sorted(done, start)
  PROVE  LET t == Inserted(done, e, start) IN
         /\ t \in Seq(X) /\ Sorted(t, start)
         /\ \A d : Occurrences(t, d) = Occurrences(done, d) + OneIf(d = e)
<1> DEFINE m == Cardinality(Earlier(done, e, start))
           t == Inserted(done, e, start)
<1>1. DOMAIN done = 1..Len(done) /\ Len(done) \in Nat /\ \A k \in 1..Len(done) : done[k] \in X
  OBVIOUS
<1>2. \A x \in X : start[x] \in Nat
  OBVIOUS
<1>3. /\ Earlier(done, e, start) \in SUBSET (1..Len(done))
      /\ \A i \in Earlier(done, e, start) : \A j \in 1..Len(done) :
           j < i => j \in Earlier(done, e, start)
  <2>1. ASSUME NEW i \in 1..Len(done), NEW j \in 1..Len(done), j < i,
               start[done[i]] <= start[e]
        PROVE  start[done[j]] <= start[e]
    <3>1. start[done[j]] <= start[done[i]]
      BY <1>1, <2>1 DEF Sorted
    <3> QED BY <1>1, <1>2, <2>1, <3>1
  <2> QED BY <1>1, <2>1 DEF Earlier
<1>4. m \in 0..Len(done) /\ Earlier(done, e, start) = 1..m
  BY <1>1, <1>3, FirstIndices
<1>5. \A k \in 1..Len(done) : start[done[k]] <= start[e] <=> k <= m
  <2>1. \A k \in 1..Len(done) : k \in Earlier(done, e, start) <=> k \in 1..m
    BY <1>4
  <2> HIDE DEF m
  <2> QED BY <1>1, <1>4, <2>1 DEF Earlier
<1>6. t = InsertAt(done, m + 1, e)
  BY DEF Inserted
<1> HIDE DEF m, t
<1>7. /\ t \in Seq(X) /\ Len(t) = Len(done) + 1
      /\ t = [i \in 1..Len(done) + 1 |->
                IF i <= m THEN done[i] ELSE IF i = m + 1 THEN e ELSE done[i - 1]]
  BY <1>4, <1>6, InsertedAt
<1>8. \A d : Occurrences(t, d) = Occurrences(done, d) + OneIf(d = e)
  BY <1>4, <1>6, InsertedOccurs
<1>9. ASSUME NEW j \in DOMAIN t, NEW k \in DOMAIN t, j < k
      PROVE  start[t[j]] <= start[t[k]]
  <2>1. j \in 1..Len(done) + 1 /\ k \in 1..Len(done) + 1 /\ m \in Nat /\ m <= Len(done)
    BY <1>1, <1>4, <1>7
  <2>2. /\ t[j] = IF j <= m THEN done[j] ELSE IF j = m + 1 THEN e ELSE done[j - 1]
        /\ t[k] = IF k <= m THEN done[k] ELSE IF k = m + 1 THEN e ELSE done[k - 1]
    BY <1>7, <2>1
  <2>3. \A i, l \in 1..Len(done) : i < l => start[done[i]] <= start[done[l]]
    BY <1>1 DEF Sorted
  <2>4. \A i \in 1..Len(done) : start[done[i]] \in Nat
    BY <1>1, <1>2
  <2>5. start[e] \in Nat
    BY <1>2
  <2>6. CASE k <= m
    BY <1>9, <2>1, <2>2, <2>3, <2>6, SMTT(30)
  <2>7. CASE k = m + 1
    BY <1>5, <1>9, <2>1, <2>2, <2>7
  <2>8. CASE k > m + 1 /\ j <= m
    <3>1. k - 1 \in 1..Len(done) /\ j \in 1..Len(done) /\ j < k - 1
      BY <2>1, <2>8
    <3> QED BY <2>1, <2>2, <2>3, <2>8, <3>1
  <2>9. CASE k > m + 1 /\ j = m + 1
    <3>1. k - 1 \in 1..Len(done) /\ ~(k - 1 <= m)
      BY <2>1, <2>9
    <3>2. ~(start[done[k - 1]] <= start[e])
      BY <1>5, <3>1
    <3>3. start[e] <= start[done[k - 1]]
      BY <2>4, <2>5, <3>1, <3>2
    <3> QED BY <2>1, <2>2, <2>9, <3>3
  <2>10. CASE k > m + 1 /\ j > m + 1
    <3>1. k - 1 \in 1..Len(done) /\ j - 1 \in 1..Len(done) /\ j - 1 < k - 1
      <4> DEFINE n == Len(done)
      <4>1. n \in Nat /\ j \in 1..n + 1 /\ k \in 1..n + 1 /\ m \in Nat /\ m <= n /\ j < k
        BY <1>1, <1>9, <2>1
      <4> HIDE DEF n
      <4>2. k - 1 \in 1..n /\ j - 1 \in 1..n /\ j - 1 < k - 1
        BY <2>10, <4>1
      <4> QED BY <4>2 DEF n
    <3>2. t[j] = done[j - 1] /\ t[k] = done[k - 1]
      <4>1. ~(j <= m) /\ j # m + 1 /\ ~(k <= m) /\ k # m + 1
        BY <2>1, <2>10
      <4> QED BY <2>2, <4>1
    <3>3. start[done[j - 1]] <= start[done[k - 1]]
      BY <2>3, <3>1
    <3> QED BY <3>2, <3>3
  <2> QED BY <2>1, <2>6, <2>7, <2>8, <2>9, <2>10
<1>10. Sorted(t, start)
  BY <1>9 DEF Sorted
<1> QED BY <1>7, <1>8, <1>10 DEF t

(* SortedBy is the last of a sequence of sorted ones.                      *)
LEMMA SortFold ==
  ASSUME NEW X, NEW s \in Seq(X), NEW start \in [X -> Nat]
  PROVE  \E r : /\ r[0] = << >>
                /\ \A k \in 1..Len(s) : r[k] = Inserted(r[k - 1], s[k], start)
                /\ \A k \in 0..Len(s) : r[k] \in {t \in Seq(X) : Sorted(t, start)}
                /\ SortedBy(s, start) = r[Len(s)]
<1> DEFINE V == {t \in Seq(X) : Sorted(t, start)}
           Eq(h) == h = [T \in SUBSET DOMAIN s |->
                     IF T = {} THEN << >> ELSE Inserted(h[T \ {Max(T)}], s[Max(T)], start)]
           op == [p \in V \X X |-> Inserted(p[1], p[2], start)]
           g == CHOOSE h : Eq(h)
<1>1. SortedBy(s, start) = g[DOMAIN s]
  BY DEF SortedBy, FoldLeft, MapThenFoldSet, Inserted, Earlier
<1>2. /\ StaysIn(op, V, X)
      /\ \A t \in V, e \in X : op[<<t, e>>] = Inserted(t, e, start)
  BY InsertSorted DEF StaysIn
<1>3. << >> \in V
  BY DEF Sorted
<1> HIDE DEF op, V
<1>4. PICK h : LeftFolds(h, op, << >>, s) /\ \A T \in SUBSET DOMAIN s : h[T] \in V
  BY <1>2, <1>3, LeftFoldExists
<1>5. ASSUME NEW T \in SUBSET DOMAIN s, T # {}
      PROVE  op[<<h[T \ {Max(T)}], s[Max(T)]>>] = Inserted(h[T \ {Max(T)}], s[Max(T)], start)
  <2>1. s[Max(T)] \in X /\ h[T \ {Max(T)}] \in V
    BY <1>4, <1>5, MaxIndex
  <2> QED BY <1>2, <2>1
<1>6. Eq(h)
  BY <1>4, <1>5 DEF LeftFolds
<1>7. Eq(g)
  BY <1>6
<1> HIDE DEF g
<1>8. g[{}] = << >> /\ FoldsWithin(g, V, op, s)
  <2>1. \A T \in SUBSET DOMAIN s : T # {} => s[Max(T)] \in X
    BY MaxIndex
  <2> QED BY <1>2, <1>7, <2>1 DEF FoldsWithin
<1>9. PICK r : FoldValues(r, << >>, op, s, V) /\ g[DOMAIN s] = r[Len(s)]
  BY <1>2, <1>3, <1>8, FoldRuns
<1>10. \A k \in 1..Len(s) : k - 1 \in 0..Len(s) /\ s[k] \in X
  OBVIOUS
<1>11. \A k \in 1..Len(s) : r[k] = Inserted(r[k - 1], s[k], start)
  BY <1>2, <1>9, <1>10 DEF FoldValues
<1> QED BY <1>1, <1>9, <1>11 DEF FoldValues, V

(* So it has what s has, in order.                                         *)
LEMMA SortedByOK ==
  ASSUME NEW X, NEW s \in Seq(X), NEW start \in [X -> Nat]
  PROVE  /\ SortedBy(s, start) \in Seq(X) /\ Sorted(SortedBy(s, start), start)
         /\ \A d : Occurrences(SortedBy(s, start), d) = Occurrences(s, d)
<1>1. PICK r : /\ r[0] = << >>
               /\ \A k \in 1..Len(s) : r[k] = Inserted(r[k - 1], s[k], start)
               /\ \A k \in 0..Len(s) : r[k] \in {t \in Seq(X) : Sorted(t, start)}
               /\ SortedBy(s, start) = r[Len(s)]
  BY SortFold
<1>2. DOMAIN s = 1..Len(s) /\ Len(s) \in Nat /\ Len(s) \in 0..Len(s)
  OBVIOUS
<1>3. ASSUME NEW d PROVE Occurrences(SortedBy(s, start), d) = Occurrences(s, d)
  <2> DEFINE A(k) == {i \in 1..k : s[i] = d}
             P == {k \in 0..Len(s) : Occurrences(r[k], d) = Cardinality(A(k))}
  <2>1. 0 \in P
    <3>1. Places(r[0], d) = {} /\ A(0) = {}
      BY <1>1 DEF Places
    <3>2. 0 \in 0..Len(s)
      BY <1>2
    <3>3. Occurrences(r[0], d) = Cardinality(A(0))
      BY <3>1 DEF Occurrences
    <3> HIDE DEF A
    <3> QED BY <3>2, <3>3
  <2>2. ASSUME NEW k \in 1..Len(s), k - 1 \in P PROVE k \in P
    <3>1. /\ k - 1 \in 0..Len(s) /\ k \in 0..Len(s) /\ s[k] \in X
          /\ r[k - 1] \in Seq(X) /\ Sorted(r[k - 1], start)
          /\ r[k] = Inserted(r[k - 1], s[k], start)
      BY <1>1, <1>2
    <3>2. Occurrences(r[k], d) = Occurrences(r[k - 1], d) + OneIf(d = s[k])
      <4>1. \A t \in Seq(X), e \in X : Sorted(t, start) =>
              Occurrences(Inserted(t, e, start), d) = Occurrences(t, d) + OneIf(d = e)
        BY InsertSorted
      <4> QED BY <3>1, <4>1
    <3>3. Occurrences(r[k - 1], d) = Cardinality(A(k - 1))
      BY <2>2
    <3>4. A(k) = (IF d = s[k] THEN A(k - 1) \union {k} ELSE A(k - 1)) /\ k \notin A(k - 1)
      BY <1>2
    <3>5. IsFiniteSet(A(k - 1))
      <4>1. A(k - 1) \in SUBSET (1..(k - 1))
        OBVIOUS
      <4>2. IsFiniteSet(1..(k - 1))
        BY <1>2, FS_Interval
      <4> HIDE DEF A
      <4> QED BY <4>1, <4>2, FS_Subset
    <3> HIDE DEF A
    <3>6. Cardinality(A(k - 1) \union {k}) = Cardinality(A(k - 1)) + 1
      BY <3>4, <3>5, FS_AddElement
    <3>7. Cardinality(A(k - 1)) \in Nat
      BY <3>5, FS_CardinalityType
    <3>8. Cardinality(A(k)) = Cardinality(A(k - 1)) + OneIf(d = s[k])
      BY <3>4, <3>6, <3>7 DEF OneIf
    <3> QED BY <3>1, <3>2, <3>3, <3>8
  <2>3. A(Len(s)) = Places(s, d)
    BY <1>2 DEF Places
  <2> HIDE DEF P, A
  <2>4. Len(s) \in P
    BY <1>2, <2>1, <2>2, PrefixInduction
  <2> QED BY <1>1, <2>3, <2>4 DEF P, Occurrences
<1> QED BY <1>1, <1>2, <1>3

(* Sequences with the same elements have as many of each kind.             *)
Among(s, S) == {i \in DOMAIN s : s[i] \in S}

LEMMA SameAmong ==
  ASSUME NEW X, NEW s \in Seq(X), NEW u \in Seq(X),
         \A d : Occurrences(s, d) = Occurrences(u, d), NEW S
  PROVE  /\ IsFiniteSet(Among(s, S)) /\ Cardinality(Among(s, S)) \in Nat
         /\ Cardinality(Among(s, S)) = Cardinality(Among(u, S))
<1> DEFINE B == ToSet(s) \intersect S
           g == [d \in B |-> Occurrences(s, d)]
<1>1. ASSUME NEW t \in Seq(X)
      PROVE  IsFiniteSet(Among(t, S)) /\ Cardinality(Among(t, S)) \in Nat
  <2>1. IsFiniteSet(DOMAIN t)
    BY FS_Interval
  <2>2. Among(t, S) \in SUBSET DOMAIN t
    BY DEF Among
  <2> QED BY <2>1, <2>2, FS_Subset, FS_CardinalityType
<1>2. ToSet(s) = ToSet(u)
  <2>1. \A d : d \in ToSet(s) <=> d \in ToSet(u)
    <3> TAKE d
    <3>1. Occurrences(s, d) > 0 <=> d \in ToSet(s)
      BY OccurrencesType
    <3>2. Occurrences(u, d) > 0 <=> d \in ToSet(u)
      BY OccurrencesType
    <3> QED BY <3>1, <3>2
  <2> QED BY <2>1
<1>3. IsFiniteSet(B)
  <2>1. s \in Surjection(DOMAIN s, ToSet(s))
    BY DEF Surjection, ToSet
  <2>2. IsFiniteSet(ToSet(s))
    BY <2>1, FS_Interval, FS_Surjection
  <2> QED BY <2>2, FS_Subset
<1>4. ASSUME NEW t \in Seq(X), ToSet(t) = ToSet(s), \A d : Occurrences(t, d) = Occurrences(s, d)
      PROVE  SumFunctionOnSet(g, B) = Cardinality(Among(t, S))
  <2> DEFINE A == Among(t, S)
  <2>1. \A i \in A : t[i] \in B
    BY <1>4 DEF Among, ToSet
  <2>2. \A d \in B : Places(t, d) \in SUBSET A /\ \A i \in A : i \in Places(t, d) <=> t[i] = d
    BY DEF Among, Places
  <2>3. IsFiniteSet(A)
    BY <1>1
  <2> DEFINE D == [d \in B |-> Places(t, d)]
  <2>4. \A d \in B : g[d] = Cardinality(D[d])
    BY <1>4 DEF Occurrences
  <2> HIDE DEF A, B, g
  <2>5. Classifies(t, D, A, B)
    BY <2>1, <2>2 DEF Classifies
  <2> HIDE DEF D
  <2>6. SumFunctionOnSet(g, B) = Cardinality(A)
    BY <1>3, <2>3, <2>4, <2>5, CountByValue
  <2> QED BY <2>6 DEF A
<1> HIDE DEF B, g
<1>5. SumFunctionOnSet(g, B) = Cardinality(Among(s, S))
  BY <1>4
<1>6. SumFunctionOnSet(g, B) = Cardinality(Among(u, S))
  BY <1>2, <1>4
<1> QED BY <1>1, <1>5, <1>6

(***************************************************************************)
(* Adding up.                                                              *)
(***************************************************************************)
(* What grows from 0 by g[1], g[2], ... ends as the sum of g.              *)
LEMMA AddedUp ==
  ASSUME NEW n \in Nat, NEW g \in [1..n -> Nat], NEW v, v[0] = 0,
         \A k \in 1..n : v[k] = v[k - 1] + g[k]
  PROVE  v[n] = SumFunction(g)
<1> DEFINE P == {k \in 0..n : v[k] = SumFunctionOnSet(g, 1..k)}
<1>1. 0 \in P
  <2>1. SumFunctionOnSet(g, {}) = 0
    BY SumChosen
  <2>2. 1..0 = {}
    OBVIOUS
  <2> QED BY <2>1, <2>2
<1>2. ASSUME NEW k \in 1..n, k - 1 \in P PROVE k \in P
  <2>1. k \in 1..k /\ (1..k) \ {k} = 1..(k - 1) /\ k \in 0..n
    OBVIOUS
  <2>2. \A x \in 1..k : g[x] \in Nat
    OBVIOUS
  <2>3. IsFiniteSet(1..k)
    BY FS_Interval
  <2>4. SumFunctionOnSet(g, 1..k) = SumFunctionOnSet(g, (1..k) \ {k}) + g[k]
    BY <2>1, <2>2, <2>3, SumWithout
  <2>5. v[k - 1] = SumFunctionOnSet(g, 1..(k - 1))
    BY <1>2
  <2> QED BY <2>1, <2>4, <2>5
<1> HIDE DEF P
<1>3. \A k \in 0..n : k \in P
  BY <1>1, <1>2, PrefixInduction
<1>4. n \in 0..n /\ DOMAIN g = 1..n
  OBVIOUS
<1> QED BY <1>3, <1>4 DEF P, SumFunction

(***************************************************************************)
(* Bags.                                                                   *)
(***************************************************************************)
(* How often a value is in a bag.                                          *)
Copies(d, B) == IF d \in DOMAIN B THEN B[d] ELSE 0

(* The bag of a sequence has what occurs in it, as often as it does.       *)
LEMMA ToBagOK ==
  ASSUME NEW X, NEW s \in Seq(X)
  PROVE  IsABag(ToBag(s)) /\ \A d : Copies(d, ToBag(s)) = Occurrences(s, d)
<1> DEFINE B == ToBag(s)
<1>1. B = [x \in ToSet(s) |-> Occurrences(s, x)]
  BY DEF ToBag, Occurrences, Places, Range, ToSet
<1>2. \A d : Occurrences(s, d) \in Nat /\ (Occurrences(s, d) > 0 <=> d \in ToSet(s))
  BY OccurrencesType
<1> HIDE DEF B
<1>3. IsABag(B)
  BY <1>1, <1>2 DEF IsABag
<1>4. ASSUME NEW d PROVE Copies(d, B) = Occurrences(s, d)
  BY <1>1, <1>2 DEF Copies
<1> QED BY <1>3, <1>4 DEF B

(* Two bags together.                                                      *)
LEMMA BagPlus ==
  ASSUME NEW B, NEW C, IsABag(B), IsABag(C)
  PROVE  IsABag(B (+) C) /\ \A d : Copies(d, B (+) C) = Copies(d, B) + Copies(d, C)
<1> DEFINE D == B (+) C
           n(A, e) == IF e \in DOMAIN A THEN A[e] ELSE 0
<1>1. D = [e \in DOMAIN B \union DOMAIN C |-> n(B, e) + n(C, e)]
  BY DEF (+)
<1>2. \A e : n(B, e) \in Nat /\ (e \in DOMAIN B => n(B, e) > 0)
  BY DEF IsABag
<1>3. \A e : n(C, e) \in Nat /\ (e \in DOMAIN C => n(C, e) > 0)
  BY DEF IsABag
<1>4. /\ \A e : e \notin DOMAIN B => n(B, e) = 0
      /\ \A e : e \notin DOMAIN C => n(C, e) = 0
      /\ \A A, e : Copies(e, A) = n(A, e)
  BY DEF Copies
<1> HIDE DEF n, D
<1>5. IsABag(D)
  BY <1>1, <1>2, <1>3 DEF IsABag
<1>6. ASSUME NEW d PROVE Copies(d, D) = n(B, d) + n(C, d)
  <2>1. d \in DOMAIN D => Copies(d, D) = D[d]
    BY DEF Copies
  <2>2. d \notin DOMAIN D => Copies(d, D) = 0
    BY DEF Copies
  <2> QED BY <1>1, <1>2, <1>3, <1>4, <2>1, <2>2
<1> QED BY <1>4, <1>5, <1>6 DEF D

(* Bags with the same copies are the same.                                 *)
LEMMA SameBag ==
  ASSUME NEW B, NEW C, IsABag(B), IsABag(C), \A d : Copies(d, B) = Copies(d, C)
  PROVE  B = C
<1>1. \A d : (d \in DOMAIN B <=> Copies(d, B) > 0) /\ (d \in DOMAIN B => B[d] = Copies(d, B))
  BY DEF IsABag, Copies
<1>2. \A d : (d \in DOMAIN C <=> Copies(d, C) > 0) /\ (d \in DOMAIN C => C[d] = Copies(d, C))
  BY DEF IsABag, Copies
<1>3. DOMAIN B = DOMAIN C /\ \A d \in DOMAIN B : B[d] = C[d]
  BY <1>1, <1>2
<1>4. B = [d \in DOMAIN B |-> B[d]] /\ C = [d \in DOMAIN C |-> C[d]]
  BY DEF IsABag
<1> QED BY <1>3, <1>4

(* One element or none.                                                    *)
LEMMA BagAddIf ==
  ASSUME NEW B, IsABag(B), NEW b \in BOOLEAN, NEW e
  PROVE  LET C == B (+) ToBag(AppendIf(b, << >>, e)) IN
         IsABag(C) /\ \A d : Copies(d, C) = Copies(d, B) + OneIf(b /\ d = e)
<1> DEFINE s == AppendIf(b, << >>, e)
           X == {e}
<1>1. << >> \in Seq(X) /\ e \in X
  OBVIOUS
<1> HIDE DEF X
<1>2. s \in Seq(X)
  BY <1>1, AppendIfOK
<1>3. \A d : Occurrences(s, d) = OneIf(b /\ d = e)
  <2> TAKE d
  <2>1. \A u \in Seq(X) :
          Occurrences(AppendIf(b, u, e), d) = Occurrences(u, d) + OneIf(b /\ d = e)
    BY <1>1, AppendIfOccurs
  <2>2. Places(<< >>, d) = {}
    BY DEF Places
  <2>3. Occurrences(<< >>, d) = 0
    BY <2>2, FS_EmptySet DEF Occurrences
  <2>4. Occurrences(s, d) = Occurrences(<< >>, d) + OneIf(b /\ d = e)
    BY <1>1, <2>1
  <2>5. OneIf(b /\ d = e) \in Nat
    BY DEF OneIf
  <2> QED BY <2>3, <2>4, <2>5
<1> HIDE DEF s
<1>4. IsABag(ToBag(s)) /\ \A d : Copies(d, ToBag(s)) = Occurrences(s, d)
  BY <1>2, ToBagOK
<1>5. /\ IsABag(B (+) ToBag(s))
      /\ \A d : Copies(d, B (+) ToBag(s)) = Copies(d, B) + Copies(d, ToBag(s))
  BY <1>4, BagPlus
<1> QED BY <1>3, <1>4, <1>5 DEF s

(***************************************************************************)
(* What a recorded reply adds, to the results of whichever worker it is.   *)
(***************************************************************************)
Scalars == {"Total", "IOError", "Success", "Negative", "Error", "IDmismatch",
            "Truncated", "Hist"}

Tables == {"Codes", "Qtypes", "DoHStatusCodes", "EDECodes"}

Gain(q, r) == Record(NewResultStats, q, r, [at |-> 0, took |-> 0])

(* The datapoints of w are bags: without them it is results like others.   *)
Without(w) == [w EXCEPT !.Timings = << >>, !.Errors = << >>]

(* Numbers rise by what they would be in fresh results.                    *)
LEMMA RecordGains ==
  ASSUME NEW st \in WorkerResults, NEW x, NEW r \in Reply,
         NEW q \in [name : Names, qtype : QtypeSet]
  PROVE  /\ \A f \in Scalars :
              /\ st[f] \in Nat /\ Gain(q, r)[f] \in Nat
              /\ Record(st, q, r, x)[f] = st[f] + Gain(q, r)[f]
         /\ \A f \in Tables : \A c \in DOMAIN NewResultStats[f] :
              /\ st[f][c] \in Nat /\ Gain(q, r)[f][c] \in Nat
              /\ Record(st, q, r, x)[f][c] = st[f][c] + Gain(q, r)[f][c]
<1> DEFINE new == NewResultStats
           start == [at |-> 0, took |-> 0]
           rec == Record(st, q, r, x)
           gain == Gain(q, r)
<1>1. new \in WorkerResults
  BY NewResultStatsOK DEF WorkerResults
<1>2. gain \in WorkerResults
  <2>1. start \in Datapoints
    BY DEF Datapoints
  <2> QED BY <1>1, <2>1, RecordType DEF Gain, WorkerResults
<1>3. \A f \in Scalars : st[f] \in Nat /\ gain[f] \in Nat
  <2>1. \A s \in WorkerResults : /\ s["Total"] \in Nat /\ s["IOError"] \in Nat
          /\ s["Success"] \in Nat /\ s["Negative"] \in Nat /\ s["Error"] \in Nat
          /\ s["IDmismatch"] \in Nat /\ s["Truncated"] \in Nat /\ s["Hist"] \in Nat
    BY DEF WorkerResults, Stats
  <2> HIDE DEF gain
  <2> QED BY <1>2, <2>1 DEF Scalars
<1>4. \A f \in Scalars : new[f] = 0
  BY DEF Scalars, NewResultStats
<1>5. \A f \in Scalars : rec[f] = st[f] + gain[f]
  <2>1. ASSUME NEW s \in WorkerResults, NEW y
        PROVE  /\ Record(s, q, r, y)["Total"] = s["Total"] + 1
               /\ Record(s, q, r, y)["IOError"] = s["IOError"] + OneIf(IsFailure(r))
               /\ Record(s, q, r, y)["IDmismatch"] = s["IDmismatch"] + OneIf(Mismatched(r))
               /\ Record(s, q, r, y)["Success"] = s["Success"] + OneIf(IsSuccess(r))
               /\ Record(s, q, r, y)["Negative"] = s["Negative"] + OneIf(IsNegative(r))
               /\ Record(s, q, r, y)["Error"] = s["Error"] + OneIf(IsError(r))
               /\ Record(s, q, r, y)["Truncated"] = s["Truncated"] + OneIf(IsTruncated(r))
               /\ Record(s, q, r, y)["Hist"] = s["Hist"] + OneIf(InHistogram(r))
    BY RecordFields DEF WorkerResults
  <2>2. /\ OneIf(IsTruncated(r)) \in Nat /\ OneIf(InHistogram(r)) \in Nat
        /\ OneIf(IsFailure(r)) \in Nat /\ OneIf(Mismatched(r)) \in Nat
        /\ OneIf(IsNegative(r)) \in Nat /\ OneIf(IsSuccess(r)) \in Nat
        /\ OneIf(IsError(r)) \in Nat
    BY OneIfIsNat
  <2>3. gain = Record(new, q, r, start)
    BY DEF Gain
  <2> HIDE DEF rec, gain, new, start
  <2> QED BY <1>1, <1>4, <2>1, <2>2, <2>3 DEF Scalars, rec
<1>6. \A f \in Tables : \A c \in DOMAIN new[f] :
        st[f][c] \in Nat /\ gain[f][c] \in Nat /\ rec[f][c] = st[f][c] + gain[f][c]
  <2>1. /\ DOMAIN new["Codes"] = RcodeSet /\ DOMAIN new["Qtypes"] = QtypeSet
        /\ DOMAIN new["DoHStatusCodes"] = HttpStatuses /\ DOMAIN new["EDECodes"] = EdeCodes
        /\ \A c \in RcodeSet : new["Codes"][c] = 0
        /\ \A c \in QtypeSet : new["Qtypes"][c] = 0
        /\ \A c \in HttpStatuses : new["DoHStatusCodes"][c] = 0
        /\ \A c \in EdeCodes : new["EDECodes"][c] = 0
    BY DEF NewResultStats
  <2>2. \A s \in WorkerResults :
          /\ \A c \in RcodeSet : s["Codes"][c] \in Nat
          /\ \A c \in QtypeSet : s["Qtypes"][c] \in Nat
          /\ \A c \in HttpStatuses : s["DoHStatusCodes"][c] \in Nat
          /\ \A c \in EdeCodes : s["EDECodes"][c] \in Nat
    BY DEF WorkerResults, Stats
  <2>3. /\ \A c \in RcodeSet : OneIf(CountRcodes /\ Kept(r) /\ c = r.rcode) \in Nat
        /\ \A t \in QtypeSet : OneIf(t = q.qtype) \in Nat
        /\ \A s \in HttpStatuses : OneIf(UseDoH /\ s \in StatusOf(r)) \in Nat
        /\ \A c \in EdeCodes : (IF Kept(r) THEN r.ede[c] ELSE 0) \in Nat
    BY DEF OneIf, Reply
  <2>4. \A s \in WorkerResults : \A y :
          /\ \A c \in RcodeSet : Record(s, q, r, y)["Codes"][c]
               = s["Codes"][c] + OneIf(CountRcodes /\ Kept(r) /\ c = r.rcode)
          /\ \A t \in QtypeSet : Record(s, q, r, y)["Qtypes"][t]
               = s["Qtypes"][t] + OneIf(t = q.qtype)
          /\ \A h \in HttpStatuses : Record(s, q, r, y)["DoHStatusCodes"][h]
               = s["DoHStatusCodes"][h] + OneIf(UseDoH /\ h \in StatusOf(r))
          /\ \A c \in EdeCodes : Record(s, q, r, y)["EDECodes"][c]
               = s["EDECodes"][c] + IF Kept(r) THEN r.ede[c] ELSE 0
    BY DEF Record
  <2>5. gain = Record(new, q, r, start)
    BY DEF Gain
  <2> HIDE DEF rec, gain, new, start
  <2>6. \A c \in RcodeSet : /\ st["Codes"][c] \in Nat /\ gain["Codes"][c] \in Nat
                            /\ rec["Codes"][c] = st["Codes"][c] + gain["Codes"][c]
    BY <1>1, <2>1, <2>2, <2>3, <2>4, <2>5 DEF rec
  <2>7. \A c \in QtypeSet : /\ st["Qtypes"][c] \in Nat /\ gain["Qtypes"][c] \in Nat
                            /\ rec["Qtypes"][c] = st["Qtypes"][c] + gain["Qtypes"][c]
    BY <1>1, <2>1, <2>2, <2>3, <2>4, <2>5 DEF rec
  <2>8. \A c \in HttpStatuses :
          /\ st["DoHStatusCodes"][c] \in Nat /\ gain["DoHStatusCodes"][c] \in Nat
          /\ rec["DoHStatusCodes"][c] = st["DoHStatusCodes"][c] + gain["DoHStatusCodes"][c]
    BY <1>1, <2>1, <2>2, <2>3, <2>4, <2>5 DEF rec
  <2>9. \A c \in EdeCodes : /\ st["EDECodes"][c] \in Nat /\ gain["EDECodes"][c] \in Nat
                            /\ rec["EDECodes"][c] = st["EDECodes"][c] + gain["EDECodes"][c]
    BY <1>1, <2>1, <2>2, <2>3, <2>4, <2>5 DEF rec
  <2> QED BY <2>1, <2>6, <2>7, <2>8, <2>9 DEF Tables
<1> QED BY <1>3, <1>5, <1>6

(***************************************************************************)
(* The invariant: whole is the sum of the results of the workers.          *)
(***************************************************************************)
Index == DOMAIN Workers

OfEach(rs, f)      == [k \in Index |-> rs[k][f]]
OfEachAt(rs, f, c) == [k \in Index |-> rs[k][f][c]]
InEach(rs, f, d)   == [k \in Index |-> Occurrences(rs[k][f], d)]

Datasets == {"Timings", "Errors"}

Tally(rs, w) ==
  /\ \A f \in Scalars : w[f] = SumFunction(OfEach(rs, f))
  /\ \A f \in Tables : \A c \in DOMAIN NewResultStats[f] :
       w[f][c] = SumFunction(OfEachAt(rs, f, c))
  /\ \A f \in Datasets :
       IsABag(w[f]) /\ \A d : Copies(d, w[f]) = SumFunction(InEach(rs, f, d))

Typed(rs, w) == rs \in [Index -> WorkerResults] /\ Without(w) \in WorkerResults

(* The workers are numbered from 1.                                        *)
LEMMA WorkersNumbered ==
  /\ Index = 1..Len(Workers) /\ Len(Workers) \in Nat /\ IsFiniteSet(Index)
<1>1. Workers \in Seq(Range(Workers))
  BY MergedResultsAssumption
<1>2. DOMAIN Workers = 1..Len(Workers) /\ Len(Workers) \in Nat
  BY <1>1
<1> QED BY <1>2, FS_Interval DEF Index

(* The types of what is summed up.                                         *)
LEMMA EachType ==
  ASSUME NEW rs \in [Index -> WorkerResults]
  PROVE  /\ \A f \in Scalars : OfEach(rs, f) \in [Index -> Nat]
         /\ \A f \in Tables : \A c \in DOMAIN NewResultStats[f] :
              OfEachAt(rs, f, c) \in [Index -> Nat]
         /\ \A f \in Datasets : \A d : InEach(rs, f, d) \in [Index -> Nat]
<1>1. \A s \in WorkerResults : \A f \in Scalars : s[f] \in Nat
  BY DEF WorkerResults, Stats, Scalars
<1>2. \A s \in WorkerResults : \A f \in Tables : \A c \in DOMAIN NewResultStats[f] :
        s[f][c] \in Nat
  BY DEF WorkerResults, Stats, Tables, NewResultStats
<1>3. \A s \in WorkerResults : \A f \in Datasets : \A d : Occurrences(s[f], d) \in Nat
  <2>1. \A s \in WorkerResults : /\ s["Timings"] \in Seq(Datapoints)
                                 /\ s["Errors"] \in Seq([start : Datapoints, err : Errs])
    BY DEF WorkerResults, Stats
  <2> QED BY <2>1, OccurrencesType DEF Datasets
<1> QED BY <1>1, <1>2, <1>3 DEF OfEach, OfEachAt, InEach

(* Replacing the datapoints replaces nothing else.                         *)
LEMMA DatasetsReplaced ==
  ASSUME NEW w, NEW a, NEW b
  PROVE  LET u == [w EXCEPT !.Timings = a, !.Errors = b] IN
         /\ u = [f \in DOMAIN w |-> IF f = "Errors" THEN b ELSE IF f = "Timings" THEN a ELSE w[f]]
         /\ DOMAIN u = DOMAIN w
         /\ "Timings" \in DOMAIN w => u["Timings"] = a
         /\ "Errors" \in DOMAIN w => u["Errors"] = b
         /\ \A f \in DOMAIN w : f \notin {"Timings", "Errors"} => u[f] = w[f]
OBVIOUS

(* The fields of results.                                                  *)
LEMMA FieldsOfResults ==
  /\ DOMAIN NewResultStats = Scalars \union Tables \union Datasets \union {"AuthenticatedDomains"}
  /\ \A st \in WorkerResults : DOMAIN st = DOMAIN NewResultStats
  /\ \A f \in Scalars \union Tables : f \notin Datasets
BY DEF NewResultStats, WorkerResults, Stats, Scalars, Tables, Datasets

(* Results without datapoints are results.                                 *)
LEMMA WithoutType ==
  ASSUME NEW st \in WorkerResults
  PROVE  Without(st) \in WorkerResults
<1>1. /\ DOMAIN Without(st) = DOMAIN NewResultStats
      /\ Without(st)["Timings"] = << >> /\ Without(st)["Errors"] = << >>
      /\ \A f \in DOMAIN NewResultStats : f \notin {"Timings", "Errors"} => Without(st)[f] = st[f]
      /\ Without(st) = [f \in DOMAIN NewResultStats |-> Without(st)[f]]
  BY FieldsOfResults, DatasetsReplaced DEF Without, Datasets
<1>2. DOMAIN NewResultStats = { "Total", "IOError", "Success", "Negative", "Error",
        "IDmismatch", "Truncated", "Codes", "Qtypes", "DoHStatusCodes", "EDECodes",
        "AuthenticatedDomains", "Hist", "Timings", "Errors" }
  BY DEF NewResultStats
<1> DEFINE u == Without(st)
<1> HIDE DEF u
<1>3. /\ u.Total = st.Total /\ u.IOError = st.IOError /\ u.Success = st.Success
      /\ u.Negative = st.Negative /\ u.Error = st.Error /\ u.IDmismatch = st.IDmismatch
      /\ u.Truncated = st.Truncated /\ u.Codes = st.Codes /\ u.Qtypes = st.Qtypes
      /\ u.DoHStatusCodes = st.DoHStatusCodes /\ u.EDECodes = st.EDECodes
      /\ u.AuthenticatedDomains = st.AuthenticatedDomains /\ u.Hist = st.Hist
      /\ u.Timings = << >> /\ u.Errors = << >>
  BY <1>1, <1>2 DEF u
<1>4. u = [f \in DOMAIN NewResultStats |-> u[f]]
  BY <1>1 DEF u
<1>5. /\ u.Total \in Nat /\ u.IOError \in Nat /\ u.Success \in Nat
      /\ u.Negative \in Nat /\ u.Error \in Nat /\ u.IDmismatch \in Nat
      /\ u.Truncated \in Nat /\ u.Hist \in Nat
      /\ u.Codes \in [RcodeSet -> Nat] /\ u.Qtypes \in [QtypeSet -> Nat]
      /\ u.DoHStatusCodes \in [HttpStatuses -> Nat] /\ u.EDECodes \in [EdeCodes -> Nat]
      /\ u.AuthenticatedDomains \in SUBSET Names
  BY <1>3 DEF WorkerResults, Stats
<1>6. u.Timings \in Seq(Datapoints) /\ u.Errors \in Seq([start : Datapoints, err : Errs])
  BY <1>3
<1>7. u \in WorkerResults
  <2> HIDE <1>1
  <2> QED BY <1>2, <1>4, <1>5, <1>6 DEF WorkerResults, Stats
<1> QED BY <1>7 DEF u

(* At the beginning everything is zero.                                    *)
LEMMA TallyNew ==
  LET rs == [k \in Index |-> NewResultStats]
      w  == [NewResultStats EXCEPT !.Timings = EmptyBag, !.Errors = EmptyBag]
  IN  Typed(rs, w) /\ Tally(rs, w)
<1> DEFINE rs == [k \in Index |-> NewResultStats]
           w == [NewResultStats EXCEPT !.Timings = EmptyBag, !.Errors = EmptyBag]
<1>1. NewResultStats \in WorkerResults
  BY NewResultStatsOK DEF WorkerResults
<1>2. /\ Without(w) \in WorkerResults
      /\ w["Timings"] = EmptyBag /\ w["Errors"] = EmptyBag
      /\ \A f \in Scalars \union Tables : w[f] = NewResultStats[f]
  <2> DEFINE new == NewResultStats
  <2>1. "Timings" \in DOMAIN new /\ "Errors" \in DOMAIN new
    BY FieldsOfResults DEF Datasets
  <2>2. \A f \in Scalars \union Tables : f \in DOMAIN new /\ f \notin {"Timings", "Errors"}
    BY FieldsOfResults DEF Datasets
  <2> HIDE DEF new
  <2>3. /\ DOMAIN w = DOMAIN new
        /\ w["Timings"] = EmptyBag /\ w["Errors"] = EmptyBag
        /\ \A f \in DOMAIN new : f \notin {"Timings", "Errors"} => w[f] = new[f]
    BY <2>1, DatasetsReplaced DEF new
  <2> HIDE DEF w
  <2>4. Without(w) = [f \in DOMAIN new |-> IF f = "Errors" THEN << >>
                                           ELSE IF f = "Timings" THEN << >> ELSE w[f]]
    BY <2>3, DatasetsReplaced DEF Without
  <2>5. Without(new) = [f \in DOMAIN new |-> IF f = "Errors" THEN << >>
                                             ELSE IF f = "Timings" THEN << >> ELSE new[f]]
    BY DatasetsReplaced DEF Without
  <2>6. Without(w) = Without(new)
    BY <2>3, <2>4, <2>5
  <2>7. Without(new) \in WorkerResults
    BY <1>1, WithoutType DEF new
  <2> QED BY <2>2, <2>3, <2>6, <2>7 DEF new
<1> HIDE DEF w
<1>3. ASSUME NEW f \in Scalars PROVE w[f] = SumFunction(OfEach(rs, f))
  <2>1. w[f] = 0 /\ NewResultStats[f] = 0
    <3>1. NewResultStats[f] = 0
      BY DEF Scalars, NewResultStats
    <3> QED BY <1>2, <3>1
  <2>2. DOMAIN OfEach(rs, f) = Index /\ \A k \in Index : OfEach(rs, f)[k] = 0
    BY <2>1 DEF OfEach
  <2> QED BY <2>1, <2>2, WorkersNumbered, SumZero
<1>4. ASSUME NEW f \in Tables, NEW c \in DOMAIN NewResultStats[f]
      PROVE  w[f][c] = SumFunction(OfEachAt(rs, f, c))
  <2>1. w[f][c] = 0 /\ NewResultStats[f][c] = 0
    <3>1. NewResultStats[f][c] = 0
      BY DEF Tables, NewResultStats
    <3> QED BY <1>2, <3>1
  <2>2. DOMAIN OfEachAt(rs, f, c) = Index /\ \A k \in Index : OfEachAt(rs, f, c)[k] = 0
    BY <2>1 DEF OfEachAt
  <2> QED BY <2>1, <2>2, WorkersNumbered, SumZero
<1>5. ASSUME NEW f \in Datasets
      PROVE  IsABag(w[f]) /\ \A d : Copies(d, w[f]) = SumFunction(InEach(rs, f, d))
  <2>1. w[f] = EmptyBag /\ NewResultStats[f] = << >>
    BY <1>2 DEF Datasets, NewResultStats
  <2>2. EmptyBag = [d \in {} |-> 1]
    BY DEF EmptyBag, SetToBag
  <2>3. IsABag(EmptyBag) /\ \A d : Copies(d, EmptyBag) = 0
    BY <2>2 DEF IsABag, Copies
  <2>4. \A d : Occurrences(<< >>, d) = 0
    <3>1. \A d : Places(<< >>, d) = {}
      BY DEF Places
    <3> QED BY <3>1, FS_EmptySet DEF Occurrences
  <2>5. ASSUME NEW d PROVE SumFunction(InEach(rs, f, d)) = 0
    <3>1. DOMAIN InEach(rs, f, d) = Index /\ \A k \in Index : InEach(rs, f, d)[k] = 0
      BY <2>1, <2>4 DEF InEach
    <3> QED BY <3>1, WorkersNumbered, SumZero
  <2> QED BY <2>1, <2>3, <2>5
<1> QED BY <1>1, <1>2, <1>3, <1>4, <1>5 DEF Typed, Tally, w

(* What one worker gains the sum gains.                                    *)
LEMMA OneGains ==
  ASSUME NEW g \in [Index -> Nat], NEW h \in [Index -> Nat], NEW k \in Index, NEW n \in Nat,
         h[k] = g[k] + n, \A j \in Index : j # k => h[j] = g[j]
  PROVE  SumFunction(h) = SumFunction(g) + n
<1>1. IsFiniteSet(Index)
  BY WorkersNumbered
<1> QED BY <1>1, SumRaised

(* Recording keeps whole the sum.                                          *)
LEMMA TallyStep ==
  ASSUME NEW rs, NEW w, Typed(rs, w), Tally(rs, w), NEW k \in Index, NEW e \in Entries
  PROVE  LET rs2 == [rs EXCEPT ![k] = Record(@, e.query, e.reply, Stamp(e))]
             w2  == Unordered(w, e)
         IN  Typed(rs2, w2) /\ Tally(rs2, w2)
<1> DEFINE q == e.query
           r == e.reply
           x == Stamp(e)
           rs2 == [rs EXCEPT ![k] = Record(@, q, r, x)]
           now == Record(Without(w), q, r, x)
           w2 == Unordered(w, e)
<1>1. /\ q \in [name : Names, qtype : QtypeSet] /\ r \in Reply
      /\ e.at \in Nat /\ e.took \in Nat
  BY MergedResultsAssumption
<1>2. x \in Datapoints
  BY <1>1 DEF Stamp, Datapoints
<1>3. rs \in [Index -> WorkerResults] /\ Without(w) \in WorkerResults
  BY DEF Typed
<1>4. w2 = [now EXCEPT !.Timings = w.Timings (+) ToBag(@), !.Errors = w.Errors (+) ToBag(@)]
  BY DEF Unordered, Without
<1> HIDE DEF q, r, x
<1>5. now \in WorkerResults /\ \A s \in WorkerResults : Record(s, q, r, x) \in WorkerResults
  BY <1>1, <1>2, <1>3, RecordType DEF WorkerResults
<1>6. rs2 \in [Index -> WorkerResults]
  BY <1>3, <1>5
<1>7. /\ rs2[k] = Record(rs[k], q, r, x) /\ rs[k] \in WorkerResults
      /\ \A j \in Index : j # k => rs2[j] = rs[j]
  BY <1>3
<1>8. DOMAIN now = DOMAIN NewResultStats
  BY DEF Record, NewResultStats
<1>9. /\ \A f \in Scalars \union Tables : w2[f] = now[f] /\ Without(w)[f] = w[f]
      /\ w2["Timings"] = w.Timings (+) ToBag(AppendIf(Kept(r), << >>, x))
      /\ w2["Errors"] = w.Errors (+) ToBag(AppendIf(IsFailure(r), << >>,
                                                    [start |-> x, err |-> r.err]))
  <2>1. DOMAIN w = DOMAIN NewResultStats
    <3>1. DOMAIN Without(w) = DOMAIN w
      BY DatasetsReplaced DEF Without
    <3> QED BY <1>3, <3>1, FieldsOfResults
  <2>2. /\ "Timings" \in DOMAIN NewResultStats /\ "Errors" \in DOMAIN NewResultStats
        /\ \A f \in Scalars \union Tables :
             f \in DOMAIN NewResultStats /\ f \notin {"Timings", "Errors"}
    BY FieldsOfResults DEF Datasets
  <2>3. /\ Without(w)["Timings"] = << >> /\ Without(w)["Errors"] = << >>
        /\ \A f \in Scalars \union Tables : Without(w)[f] = w[f]
    BY <2>1, <2>2, DatasetsReplaced DEF Without
  <2>4. /\ now["Timings"] = AppendIf(Kept(r), << >>, x)
        /\ now["Errors"] = AppendIf(IsFailure(r), << >>, [start |-> x, err |-> r.err])
    BY <2>3 DEF Record
  <2> HIDE DEF now, w2
  <2>5. /\ \A f \in Scalars \union Tables : w2[f] = now[f]
        /\ w2["Timings"] = w.Timings (+) ToBag(now["Timings"])
        /\ w2["Errors"] = w.Errors (+) ToBag(now["Errors"])
    BY <1>4, <1>8, <2>2, DatasetsReplaced
  <2> QED BY <2>3, <2>4, <2>5
<1>10. Without(w2) \in WorkerResults
  <2> HIDE DEF now, w2
  <2>1. /\ DOMAIN w2 = DOMAIN now
        /\ \A f \in DOMAIN now : f \notin {"Timings", "Errors"} => w2[f] = now[f]
    BY <1>4, DatasetsReplaced
  <2>2. Without(w2) = [f \in DOMAIN w2 |-> IF f = "Errors" THEN << >>
                                           ELSE IF f = "Timings" THEN << >> ELSE w2[f]]
    BY DatasetsReplaced DEF Without
  <2>3. Without(now) = [f \in DOMAIN now |-> IF f = "Errors" THEN << >>
                                             ELSE IF f = "Timings" THEN << >> ELSE now[f]]
    BY DatasetsReplaced DEF Without
  <2>4. Without(w2) = Without(now)
    BY <2>1, <2>2, <2>3
  <2> QED BY <1>5, <2>4, WithoutType
<1> HIDE DEF now, w2, rs2
<1>11. ASSUME NEW f \in Scalars PROVE w2[f] = SumFunction(OfEach(rs2, f))
  <2> DEFINE n == Gain(q, r)[f]
  <2>1. n \in Nat /\ now[f] = Without(w)[f] + n /\ Record(rs[k], q, r, x)[f] = rs[k][f] + n
    BY <1>1, <1>3, <1>7, RecordGains, ZenonT(30) DEF now
  <2>2. OfEach(rs, f) \in [Index -> Nat] /\ OfEach(rs2, f) \in [Index -> Nat]
    BY <1>3, <1>6, EachType
  <2>3. /\ OfEach(rs2, f)[k] = OfEach(rs, f)[k] + n
        /\ \A j \in Index : j # k => OfEach(rs2, f)[j] = OfEach(rs, f)[j]
    BY <1>7, <2>1 DEF OfEach
  <2> HIDE DEF n
  <2>4. SumFunction(OfEach(rs2, f)) = SumFunction(OfEach(rs, f)) + n
    BY <2>1, <2>2, <2>3, OneGains
  <2> QED BY <1>9, <2>1, <2>4 DEF Tally
<1>12. ASSUME NEW f \in Tables, NEW c \in DOMAIN NewResultStats[f]
       PROVE  w2[f][c] = SumFunction(OfEachAt(rs2, f, c))
  <2> DEFINE n == Gain(q, r)[f][c]
  <2>1. /\ n \in Nat /\ now[f][c] = Without(w)[f][c] + n
        /\ Record(rs[k], q, r, x)[f][c] = rs[k][f][c] + n
    BY <1>1, <1>3, <1>7, RecordGains DEF now
  <2>2. OfEachAt(rs, f, c) \in [Index -> Nat] /\ OfEachAt(rs2, f, c) \in [Index -> Nat]
    BY <1>3, <1>6, EachType
  <2>3. /\ OfEachAt(rs2, f, c)[k] = OfEachAt(rs, f, c)[k] + n
        /\ \A j \in Index : j # k => OfEachAt(rs2, f, c)[j] = OfEachAt(rs, f, c)[j]
    BY <1>7, <2>1 DEF OfEachAt
  <2> HIDE DEF n
  <2>4. SumFunction(OfEachAt(rs2, f, c)) = SumFunction(OfEachAt(rs, f, c)) + n
    BY <2>1, <2>2, <2>3, OneGains
  <2> QED BY <1>9, <2>1, <2>4 DEF Tally
<1>13. ASSUME NEW f \in Datasets
       PROVE  IsABag(w2[f]) /\ \A d : Copies(d, w2[f]) = SumFunction(InEach(rs2, f, d))
  <2>1. PICK b \in BOOLEAN : \E X, y :
          /\ w2[f] = w[f] (+) ToBag(AppendIf(b, << >>, y))
          /\ Record(rs[k], q, r, x)[f] = AppendIf(b, rs[k][f], y)
          /\ rs[k][f] \in Seq(X) /\ (b => y \in X)
    <3>1. CASE f = "Timings"
      <4>1. /\ w2[f] = w[f] (+) ToBag(AppendIf(Kept(r), << >>, x))
            /\ Record(rs[k], q, r, x)[f] = AppendIf(Kept(r), rs[k][f], x)
            /\ rs[k][f] \in Seq(Datapoints)
        BY <1>7, <1>9, <3>1 DEF Record, WorkerResults, Stats
      <4>2. Kept(r) \in BOOLEAN
        BY DEF Kept, Answered, Mismatched
      <4> QED BY <1>2, <4>1, <4>2
    <3>2. CASE f = "Errors"
      <4> DEFINE failure  == [start |-> x, err |-> r.err]
                 fails    == IsFailure(r)
                 Failures == [start : Datapoints, err : Errs]
      <4>1. /\ w2[f] = w[f] (+) ToBag(AppendIf(fails, << >>, failure))
            /\ Record(rs[k], q, r, x)[f] = AppendIf(fails, rs[k][f], failure)
            /\ rs[k][f] \in Seq(Failures)
        BY <1>7, <1>9, <3>2 DEF Record, WorkerResults, Stats
      <4>2. fails \in BOOLEAN /\ (fails => failure \in Failures)
        BY <1>1, <1>2 DEF IsFailure, Answered, Reply
      <4> HIDE DEF failure, fails, Failures
      <4> QED BY <4>1, <4>2
    <3> QED BY <3>1, <3>2 DEF Datasets
  <2>2. PICK X, y :
          /\ w2[f] = w[f] (+) ToBag(AppendIf(b, << >>, y))
          /\ Record(rs[k], q, r, x)[f] = AppendIf(b, rs[k][f], y)
          /\ rs[k][f] \in Seq(X) /\ (b => y \in X)
    BY <2>1
  <2>3. IsABag(w[f])
    BY DEF Tally
  <2>4. /\ IsABag(w2[f])
        /\ \A d : Copies(d, w2[f]) = Copies(d, w[f]) + OneIf(b /\ d = y)
    BY <2>2, <2>3, BagAddIf
  <2>5. ASSUME NEW d PROVE Copies(d, w2[f]) = SumFunction(InEach(rs2, f, d))
    <3>1. OneIf(b /\ d = y) \in Nat
      BY DEF OneIf
    <3>2. InEach(rs, f, d) \in [Index -> Nat] /\ InEach(rs2, f, d) \in [Index -> Nat]
      BY <1>3, <1>6, EachType
    <3>3. Occurrences(AppendIf(b, rs[k][f], y), d) = Occurrences(rs[k][f], d) + OneIf(b /\ d = y)
      BY <2>2, AppendIfOccurs
    <3>4. /\ InEach(rs2, f, d)[k] = InEach(rs, f, d)[k] + OneIf(b /\ d = y)
          /\ \A j \in Index : j # k => InEach(rs2, f, d)[j] = InEach(rs, f, d)[j]
      BY <1>7, <2>2, <3>3 DEF InEach
    <3>5. SumFunction(InEach(rs2, f, d)) = SumFunction(InEach(rs, f, d)) + OneIf(b /\ d = y)
      BY <3>1, <3>2, <3>4, OneGains
    <3> QED BY <2>4, <3>5 DEF Tally
  <2> QED BY <2>4, <2>5
<1> QED BY <1>6, <1>10, <1>11, <1>12, <1>13 DEF Typed, Tally, rs2, w2, q, r, x

(***************************************************************************)
(* The groups of errors.                                                   *)
(***************************************************************************)
ErrorRecords == [start : Datapoints, err : Errs]

(* There are finitely many.                                                *)
LEMMA TextsFinite ==
  /\ IsFiniteSet(ErrTexts) /\ \A e \in Errs : ErrString[e] \in ErrTexts
<1>1. DOMAIN ErrString = Errs /\ IsFiniteSet(Errs)
  BY MergedResultsAssumption
<1> DEFINE f == [e \in Errs |-> ErrString[e]]
<1>2. ErrTexts = {ErrString[e] : e \in Errs}
  BY <1>1 DEF ErrTexts, Range
<1>3. f \in Surjection(Errs, ErrTexts)
  BY <1>2 DEF Surjection
<1> HIDE DEF f
<1>4. IsFiniteSet(ErrTexts)
  BY <1>1, <1>3, FS_Surjection
<1> QED BY <1>2, <1>4

(* One more error is one more in its group.                                *)
LEMMA GroupedOneMore ==
  ASSUME NEW s \in Seq(ErrorRecords), NEW y \in ErrorRecords
  PROVE  SumFunction(Grouped(Append(s, y))) = SumFunction(Grouped(s)) + 1
<1> DEFINE In(u, t) == {k \in DOMAIN u : ErrString[u[k].err] = t}
           a == ErrString[y.err]
           n == Len(s) + 1
           u == Append(s, y)
<1>1. Grouped(s) \in [ErrTexts -> Nat] /\ Grouped(u) \in [ErrTexts -> Nat]
  <2>1. u \in Seq(ErrorRecords)
    OBVIOUS
  <2> HIDE DEF u
  <2> QED BY <2>1, GroupedType
<1>2. a \in ErrTexts /\ IsFiniteSet(ErrTexts)
  BY TextsFinite DEF ErrorRecords
<1>3. /\ \A t \in ErrTexts : Grouped(s)[t] = Cardinality(In(s, t))
      /\ \A t \in ErrTexts : Grouped(u)[t] = Cardinality(In(u, t))
  BY DEF Grouped
<1>4. /\ DOMAIN s = 1..Len(s) /\ DOMAIN u = 1..n /\ Len(s) \in Nat
      /\ u[n] = y /\ \A k \in DOMAIN s : u[k] = s[k]
  OBVIOUS
<1>5. \A t : n \notin In(s, t)
  BY <1>4
<1>6. In(u, a) = In(s, a) \union {n} /\ \A t : t # a => In(u, t) = In(s, t)
  BY <1>4
<1>7. IsFiniteSet(In(s, a))
  <2>1. IsFiniteSet(DOMAIN s)
    BY <1>4, FS_Interval
  <2>2. In(s, a) \in SUBSET DOMAIN s
    OBVIOUS
  <2> HIDE DEF In, a
  <2> QED BY <2>1, <2>2, FS_Subset
<1> HIDE DEF In, u, n, a
<1>8. Cardinality(In(u, a)) = Cardinality(In(s, a)) + 1
  BY <1>5, <1>6, <1>7, FS_AddElement
<1>9. /\ Grouped(u)[a] = Grouped(s)[a] + 1
      /\ \A t \in ErrTexts : t # a => Grouped(u)[t] = Grouped(s)[t]
  BY <1>2, <1>3, <1>6, <1>8
<1>10. SumFunction(Grouped(u)) = SumFunction(Grouped(s)) + 1
  BY <1>1, <1>2, <1>9, SumRaised
<1> QED BY <1>10 DEF u

(* The groups of a worker's errors are a partition of them.                *)
Partitioned(st) == SumFunction(Grouped(st.Errors)) = st.IOError

(* That is so before there are any,                                        *)
LEMMA PartitionedNew == Partitioned(NewResultStats)
<1>1. NewResultStats.Errors = << >> /\ NewResultStats.IOError = 0
  BY DEF NewResultStats
<1>2. DOMAIN Grouped(<< >>) = ErrTexts /\ \A t \in ErrTexts : Grouped(<< >>)[t] = 0
  <2>1. \A t : {k \in DOMAIN << >> : ErrString[<< >>[k].err] = t} = {}
    OBVIOUS
  <2> QED BY <2>1, FS_EmptySet DEF Grouped
<1>3. SumFunction(Grouped(<< >>)) = 0
  BY <1>2, TextsFinite, SumZero
<1> QED BY <1>1, <1>3 DEF Partitioned

(* and of whatever reply is recorded.                                      *)
LEMMA PartitionedStep ==
  ASSUME NEW st \in WorkerResults, Partitioned(st), NEW x \in Datapoints,
         NEW q, NEW r \in Reply
  PROVE  Partitioned(Record(st, q, r, x))
<1> DEFINE rec == Record(st, q, r, x)
           y == [start |-> x, err |-> r.err]
<1>1. /\ rec.Errors = AppendIf(IsFailure(r), st.Errors, y)
      /\ rec.IOError = st.IOError + OneIf(IsFailure(r))
      /\ st.Errors \in Seq(ErrorRecords) /\ st.IOError \in Nat
  BY DEF Record, WorkerResults, Stats, ErrorRecords
<1>2. IsFailure(r) => y \in ErrorRecords
  BY DEF IsFailure, Answered, Reply, ErrorRecords
<1> HIDE DEF rec, y
<1>3. CASE IsFailure(r)
  <2>1. SumFunction(Grouped(Append(st.Errors, y))) = SumFunction(Grouped(st.Errors)) + 1
    BY <1>1, <1>2, <1>3, GroupedOneMore
  <2> QED BY <1>1, <1>3, <2>1 DEF Partitioned, AppendIf, OneIf, rec
<1>4. CASE ~IsFailure(r)
  BY <1>1, <1>4 DEF Partitioned, AppendIf, OneIf, rec
<1> QED BY <1>3, <1>4

(* Nor is a response that a worker keeps without its code, if codes are    *)
(* counted.                                                                *)
CodesFit(st) == CountRcodes => SumFunction(st.Codes) = Len(st.Timings)

(* That is so before there are any,                                        *)
LEMMA CodesFitNew == CodesFit(NewResultStats)
BY NewResultStatsBrokenDown DEF CodesFit, BrokenDown, BreakdownsMatchCounters

(* and of whatever reply is recorded.                                      *)
LEMMA CodesFitStep ==
  ASSUME NEW st \in WorkerResults, CodesFit(st), NEW x \in Datapoints,
         NEW q, NEW r \in Reply
  PROVE  CodesFit(Record(st, q, r, x))
<1> DEFINE rec == Record(st, q, r, x)
<1>1. rec.Timings = AppendIf(Kept(r), st.Timings, x) /\ st.Timings \in Seq(Datapoints)
  BY DEF Record, WorkerResults, Stats
<1>2. Kept(r) \in BOOLEAN
  BY DEF Kept, Answered, Mismatched
<1>3. CountRcodes => SumFunction(rec.Codes) = SumFunction(st.Codes) + OneIf(Kept(r))
  BY RecordByCode DEF WorkerResults
<1> HIDE DEF rec
<1>4. Len(rec.Timings) = Len(st.Timings) + OneIf(Kept(r))
  BY <1>1, <1>2, AppendIfOK
<1> QED BY <1>3, <1>4 DEF CodesFit, rec

(* Which of some datapoints a histogram can hold, and how many.            *)
Fits(s) == [k \in 1..Len(s) |-> OneIf(s[k].took <= HistMax)]

InRange(s) == Occurrences(Fits(s), 1)

LEMMA FitsType ==
  ASSUME NEW s \in Seq(Datapoints)
  PROVE  /\ Len(s) \in Nat /\ DOMAIN s = 1..Len(s)
         /\ Fits(s) \in Seq(Nat) /\ Len(Fits(s)) = Len(s)
         /\ \A k \in 1..Len(s) : Fits(s)[k] = OneIf(s[k].took <= HistMax)
<1>1. Len(s) \in Nat /\ DOMAIN s = 1..Len(s)
  OBVIOUS
<1>2. \A k \in 1..Len(s) : OneIf(s[k].took <= HistMax) \in Nat
  BY DEF OneIf
<1>3. Fits(s) \in [1..Len(s) -> Nat] /\ \A k \in 1..Len(s) : Fits(s)[k] = OneIf(s[k].took <= HistMax)
  BY <1>2 DEF Fits
<1>4. Fits(s) \in Seq(Nat) /\ Len(Fits(s)) = Len(s)
  BY <1>1, <1>3
<1> QED BY <1>1, <1>3, <1>4

(* As many as there are in the parts of a sequence.                        *)
LEMMA InRangeConcat ==
  ASSUME NEW s \in Seq(Datapoints), NEW u \in Seq(Datapoints)
  PROVE  InRange(s \o u) = InRange(s) + InRange(u)
<1> DEFINE m == Len(s)
           n == Len(u)
           a == Fits(s)
           b == Fits(u)
           c == Fits(s \o u)
<1>1. /\ m \in Nat /\ n \in Nat /\ s \o u \in Seq(Datapoints) /\ Len(s \o u) = m + n
      /\ \A k \in 1..m + n : (s \o u)[k] = IF k <= m THEN s[k] ELSE u[k - m]
  BY ConcatProperties
<1>2. /\ a \in Seq(Nat) /\ Len(a) = m /\ \A k \in 1..m : a[k] = OneIf(s[k].took <= HistMax)
      /\ b \in Seq(Nat) /\ Len(b) = n /\ \A k \in 1..n : b[k] = OneIf(u[k].took <= HistMax)
      /\ c \in Seq(Nat) /\ Len(c) = m + n
      /\ \A k \in 1..m + n : c[k] = OneIf((s \o u)[k].took <= HistMax)
  <2>1. a \in Seq(Nat) /\ Len(a) = m /\ \A k \in 1..m : a[k] = OneIf(s[k].took <= HistMax)
    BY FitsType
  <2>2. b \in Seq(Nat) /\ Len(b) = n /\ \A k \in 1..n : b[k] = OneIf(u[k].took <= HistMax)
    BY FitsType
  <2>3. /\ c \in Seq(Nat) /\ Len(c) = m + n
        /\ \A k \in 1..m + n : c[k] = OneIf((s \o u)[k].took <= HistMax)
    <3> DEFINE w == s \o u
    <3> HIDE DEF m, n
    <3>1. w \in Seq(Datapoints) /\ Len(w) = m + n
      BY <1>1
    <3> HIDE DEF w
    <3>2. /\ Fits(w) \in Seq(Nat) /\ Len(Fits(w)) = m + n
          /\ \A k \in 1..m + n : Fits(w)[k] = OneIf(w[k].took <= HistMax)
      BY <3>1, FitsType
    <3> QED BY <3>2 DEF w
  <2> QED BY <2>1, <2>2, <2>3
<1> HIDE DEF a, b, c, m, n
<1>3. /\ a \o b \in Seq(Nat) /\ Len(a \o b) = m + n
      /\ \A k \in 1..m + n : (a \o b)[k] = IF k <= m THEN a[k] ELSE b[k - m]
  <2>1. a \in Seq(Nat) /\ b \in Seq(Nat) /\ Len(a) = m /\ Len(b) = n
    BY <1>2
  <2> QED BY <2>1, ConcatProperties
<1>4. ASSUME NEW k \in 1..m + n PROVE (a \o b)[k] = c[k]
  <2>1. CASE k <= m
    <3>1. k \in 1..m
      BY <1>1, <2>1
    <3>2. (s \o u)[k] = s[k] /\ (a \o b)[k] = a[k]
      BY <1>1, <1>3, <2>1
    <3> QED BY <1>2, <3>1, <3>2
  <2>2. CASE ~(k <= m)
    <3>1. k - m \in 1..n
      BY <1>1, <2>2
    <3>2. (s \o u)[k] = u[k - m] /\ (a \o b)[k] = b[k - m]
      BY <1>1, <1>3, <2>2
    <3> QED BY <1>2, <3>1, <3>2
  <2> QED BY <2>1, <2>2
<1> DEFINE e == a \o b
<1>5. e \in Seq(Nat) /\ Len(e) = m + n /\ \A k \in 1..m + n : e[k] = c[k]
  BY <1>3, <1>4
<1> HIDE DEF e
<1>6. e = c
  BY <1>2, <1>5, SeqEqual
<1>7. Occurrences(a \o b, 1) = Occurrences(a, 1) + Occurrences(b, 1)
  BY <1>2, ConcatOccurs
<1> QED BY <1>6, <1>7 DEF InRange, a, b, c, e

LEMMA InRangeAppend ==
  ASSUME NEW s \in Seq(Datapoints), NEW b \in BOOLEAN, NEW x \in Datapoints
  PROVE  InRange(AppendIf(b, s, x)) = InRange(s) + OneIf(b /\ x.took <= HistMax)
<1> DEFINE u == <<x>>
<1>1. u \in Seq(Datapoints) /\ Append(s, x) = s \o u /\ Len(u) = 1 /\ u[1] = x
  OBVIOUS
<1>2. Fits(u) = <<OneIf(x.took <= HistMax)>>
  BY DEF Fits
<1>3. InRange(u) = OneIf(x.took <= HistMax)
  <2>1. Places(Fits(u), 1) = IF x.took <= HistMax THEN {1} ELSE {}
    BY <1>2 DEF Places, OneIf
  <2> QED BY <2>1, FS_EmptySet, FS_Singleton DEF InRange, Occurrences, OneIf
<1> HIDE DEF u
<1>4. InRange(s \o u) = InRange(s) + InRange(u)
  BY <1>1, InRangeConcat
<1>5. InRange(s) \in Nat
  BY FitsType, OccurrencesType DEF InRange
<1>6. CASE b
  BY <1>1, <1>3, <1>4, <1>6 DEF AppendIf
<1>7. CASE ~b
  BY <1>5, <1>7 DEF AppendIf, OneIf
<1> QED BY <1>6, <1>7

(* The histogram of a worker holds as many of its datapoints as it can.    *)
HistFits(st) == st.Hist = InRange(st.Timings)

(* That is so before there are any,                                        *)
LEMMA HistFitsNew == HistFits(NewResultStats)
<1>1. NewResultStats.Timings = << >> /\ NewResultStats.Hist = 0
  BY DEF NewResultStats
<1>2. Places(Fits(<< >>), 1) = {}
  BY DEF Places, Fits
<1>3. InRange(<< >>) = 0
  BY <1>2, FS_EmptySet DEF InRange, Occurrences
<1> QED BY <1>1, <1>3 DEF HistFits

(* and of whatever is recorded.                                            *)
LEMMA HistFitsStep ==
  ASSUME NEW st \in WorkerResults, HistFits(st), NEW e \in Entries
  PROVE  HistFits(Record(st, e.query, e.reply, Stamp(e)))
<1> DEFINE r == e.reply
           x == Stamp(e)
           rec == Record(st, e.query, r, x)
<1>1. rec.Timings = AppendIf(Kept(r), st.Timings, x) /\ st.Timings \in Seq(Datapoints)
  BY DEF Record, WorkerResults, Stats
<1>2. rec.Hist = st.Hist + OneIf(InHistogram(r))
  BY DEF Record
<1>3. Kept(r) \in BOOLEAN
  BY DEF Kept, Answered, Mismatched
<1>4. e.at \in Nat /\ e.took \in Nat /\ (r.inRange <=> e.took <= HistMax) /\ r \in Reply
  BY MergedResultsAssumption
<1>5. x \in Datapoints /\ (Answered(r) => x.took = e.took)
  BY <1>4 DEF Stamp, Datapoints
<1>6. InHistogram(r) <=> Kept(r) /\ x.took <= HistMax
  BY <1>4, <1>5 DEF InHistogram, Kept
<1> HIDE DEF r, x, rec
<1>7. InRange(rec.Timings) = InRange(st.Timings) + OneIf(Kept(r) /\ x.took <= HistMax)
  BY <1>1, <1>3, <1>5, InRangeAppend
<1>8. OneIf(InHistogram(r)) = OneIf(Kept(r) /\ x.took <= HistMax)
  BY <1>6 DEF OneIf
<1> QED BY <1>2, <1>7, <1>8 DEF HistFits, rec, r, x

(***************************************************************************)
(* The inductive invariant.                                                *)
(***************************************************************************)
MergeInv ==
  /\ Typed(results, whole)
  /\ Tally(results, whole)
  /\ \A k \in Index : /\ Accounted(results[k]) /\ Partitioned(results[k])
                      /\ CodesFit(results[k]) /\ HistFits(results[k])

(* The workers start with nothing.                                         *)
LEMMA MergeInvInit == Init => MergeInv
<1>1. \A k \in Index : /\ Accounted([j \in Index |-> NewResultStats][k])
                       /\ Partitioned([j \in Index |-> NewResultStats][k])
                       /\ CodesFit([j \in Index |-> NewResultStats][k])
                       /\ HistFits([j \in Index |-> NewResultStats][k])
  BY NewResultStatsOK, PartitionedNew, CodesFitNew, HistFitsNew
<1> QED BY <1>1, TallyNew DEF Init, MergeInv, Index

(* Each reply is recorded by one of them, and in whole.                    *)
LEMMA MergeInvStep == MergeInv /\ [Next]_vars => MergeInv'
<1> SUFFICES ASSUME MergeInv, [Next]_vars PROVE MergeInv'
  OBVIOUS
<1>1. ASSUME NEW k \in DOMAIN Workers, NEW e \in Entries, RecordOne(k, e)
      PROVE  MergeInv'
  <2>1. results' = [results EXCEPT ![k] = Record(@, e.query, e.reply, Stamp(e))]
    BY <1>1 DEF RecordOne
  <2>2. whole' = Unordered(whole, e)
    BY <1>1 DEF RecordOne
  <2>3. Typed(results, whole) /\ Tally(results, whole) /\ k \in Index
    BY DEF MergeInv, Index
  <2>4. Typed(results', whole') /\ Tally(results', whole')
    BY <2>1, <2>2, <2>3, TallyStep
  <2>5. \A j \in Index : /\ Accounted(results'[j]) /\ Partitioned(results'[j])
                         /\ CodesFit(results'[j]) /\ HistFits(results'[j])
    <3>1. e.reply \in Reply /\ Stamp(e) \in Datapoints
      BY MergedResultsAssumption DEF Stamp, Datapoints
    <3>2. results \in [Index -> WorkerResults]
      BY <2>3 DEF Typed
    <3>3. /\ Partitioned(Record(results[k], e.query, e.reply, Stamp(e)))
          /\ CodesFit(Record(results[k], e.query, e.reply, Stamp(e)))
      BY <2>3, <3>1, <3>2, PartitionedStep, CodesFitStep DEF MergeInv
    <3>4. HistFits(Record(results[k], e.query, e.reply, Stamp(e)))
      BY <2>3, <3>2, HistFitsStep DEF MergeInv
    <3>5. Accounted(Record(results[k], e.query, e.reply, Stamp(e)))
      BY <2>3, <3>1, <3>2, RecordAccounted DEF MergeInv, WorkerResults
    <3> QED BY <2>1, <2>3, <3>2, <3>3, <3>4, <3>5 DEF MergeInv
  <2> QED BY <2>4, <2>5 DEF MergeInv, Index
<1>2. CASE UNCHANGED vars
  BY <1>2 DEF MergeInv, vars, Index
<1> QED BY <1>1, <1>2 DEF Next, Terminating

(* Whatever the workers have recorded, whole is the sum of it.             *)
THEOREM WholeIsTheSum == Spec => []MergeInv
BY MergeInvInit, MergeInvStep, PTL DEF Spec

(***************************************************************************)
(* What Merge adds up.                                                     *)
(***************************************************************************)
(* One turn of the loop, field by field.                                   *)
LEMMA MergeOneFields ==
  ASSUME NEW t \in Totals, NEW s \in WorkerResults
  PROVE  LET u == MergeOne(t, s) IN
         /\ \A f \in Scalars : u[f] = t[f] + s[f]
         /\ \A f \in Tables : \A c \in DOMAIN NewResultStats[f] : u[f][c] = t[f][c] + s[f][c]
         /\ \A f \in Datasets : \A d :
              Occurrences(u[f], d) = Occurrences(t[f], d) + Occurrences(s[f], d)
         /\ u.GroupedErrors = Plus(t.GroupedErrors, Grouped(s.Errors))
<1> DEFINE u == MergeOne(t, s)
<1>1. \A f \in Scalars : u[f] = t[f] + s[f]
  BY DEF Scalars, MergeOne
<1>2. \A f \in Tables : \A c \in DOMAIN NewResultStats[f] : u[f][c] = t[f][c] + s[f][c]
  <2>1. /\ t.Codes \in [RcodeSet -> Nat] /\ s.Codes \in [RcodeSet -> Nat]
        /\ t.Qtypes \in [QtypeSet -> Nat] /\ s.Qtypes \in [QtypeSet -> Nat]
        /\ t.DoHStatusCodes \in [HttpStatuses -> Nat]
        /\ s.DoHStatusCodes \in [HttpStatuses -> Nat]
        /\ t.EDECodes \in [EdeCodes -> Nat] /\ s.EDECodes \in [EdeCodes -> Nat]
    BY DEF Totals, WorkerResults, Stats
  <2>2. /\ \A c \in RcodeSet : Plus(t.Codes, s.Codes)[c] = t.Codes[c] + s.Codes[c]
        /\ \A c \in QtypeSet : Plus(t.Qtypes, s.Qtypes)[c] = t.Qtypes[c] + s.Qtypes[c]
        /\ \A c \in HttpStatuses : Plus(t.DoHStatusCodes, s.DoHStatusCodes)[c]
             = t.DoHStatusCodes[c] + s.DoHStatusCodes[c]
        /\ \A c \in EdeCodes : Plus(t.EDECodes, s.EDECodes)[c] = t.EDECodes[c] + s.EDECodes[c]
    BY <2>1, PlusType
  <2>3. /\ u["Codes"] = Plus(t.Codes, s.Codes) /\ u["Qtypes"] = Plus(t.Qtypes, s.Qtypes)
        /\ u["DoHStatusCodes"] = Plus(t.DoHStatusCodes, s.DoHStatusCodes)
        /\ u["EDECodes"] = Plus(t.EDECodes, s.EDECodes)
    BY DEF MergeOne
  <2>4. /\ DOMAIN NewResultStats["Codes"] = RcodeSet /\ DOMAIN NewResultStats["Qtypes"] = QtypeSet
        /\ DOMAIN NewResultStats["DoHStatusCodes"] = HttpStatuses
        /\ DOMAIN NewResultStats["EDECodes"] = EdeCodes
    BY DEF NewResultStats
  <2> HIDE DEF u
  <2> QED BY <2>2, <2>3, <2>4 DEF Tables
<1>3. ASSUME NEW f \in Datasets, NEW d
      PROVE  Occurrences(u[f], d) = Occurrences(t[f], d) + Occurrences(s[f], d)
  <2>1. u[f] = t[f] \o s[f]
    <3>1. u["Timings"] = t["Timings"] \o s["Timings"] /\ u["Errors"] = t["Errors"] \o s["Errors"]
      BY DEF MergeOne
    <3> HIDE DEF u
    <3> QED BY <3>1 DEF Datasets
  <2>2. PICK X : t[f] \in Seq(X) /\ s[f] \in Seq(X)
    <3>1. CASE f = "Timings"
      <4>1. t[f] \in Seq(Datapoints) /\ s[f] \in Seq(Datapoints)
        BY <3>1 DEF Totals, WorkerResults, Stats
      <4> QED BY <4>1
    <3>2. CASE f = "Errors"
      <4>1. t[f] \in Seq(ErrorRecords) /\ s[f] \in Seq(ErrorRecords)
        BY <3>2 DEF Totals, WorkerResults, Stats, ErrorRecords
      <4> QED BY <4>1
    <3> QED BY <3>1, <3>2 DEF Datasets
  <2> QED BY <2>1, <2>2, ConcatOccurs
<1>4. u.GroupedErrors = Plus(t.GroupedErrors, Grouped(s.Errors))
  BY DEF MergeOne, AddGroups
<1> QED BY <1>1, <1>2, <1>3, <1>4

(* So the totals are the sums over the workers.                            *)
LEMMA TotalsAdd ==
  ASSUME NEW rs \in [Index -> WorkerResults]
  PROVE  LET t == FoldLeft(MergeOne, Empty, rs) IN
         /\ t \in Totals
         /\ \A f \in Scalars : t[f] = SumFunction(OfEach(rs, f))
         /\ \A f \in Tables : \A c \in DOMAIN NewResultStats[f] :
              t[f][c] = SumFunction(OfEachAt(rs, f, c))
         /\ \A f \in Datasets : \A d : Occurrences(t[f], d) = SumFunction(InEach(rs, f, d))
         /\ (\A k \in Index : Partitioned(rs[k])) =>
              SumFunction(t.GroupedErrors) = t.IOError
<1> DEFINE n == Len(Workers)
           t == FoldLeft(MergeOne, Empty, rs)
<1>1. n \in Nat /\ Index = 1..n
  BY WorkersNumbered
<1>2. rs \in Seq(WorkerResults) /\ Len(rs) = n
  BY <1>1
<1> HIDE DEF n
<1>3. PICK r : /\ r[0] = Empty
               /\ \A k \in 1..n : r[k] = MergeOne(r[k - 1], rs[k])
               /\ \A k \in 0..n : r[k] \in Totals
               /\ t = r[n]
  BY <1>2, MergeFold
<1>4. n \in 0..n /\ 0 \in 0..n /\ \A k \in 1..n : k \in 0..n /\ k - 1 \in 0..n
  BY <1>1
<1>5. t \in Totals
  BY <1>3, <1>4
<1>6. \A k \in 1..n : /\ r[k - 1] \in Totals /\ rs[k] \in WorkerResults
                      /\ r[k] = MergeOne(r[k - 1], rs[k])
  BY <1>1, <1>3, <1>4
<1> HIDE DEF t
<1>7. ASSUME NEW f \in Scalars PROVE t[f] = SumFunction(OfEach(rs, f))
  <2> DEFINE v == [k \in 0..n |-> r[k][f]]
             g == OfEach(rs, f)
  <2>1. g \in [1..n -> Nat] /\ \A k \in 1..n : g[k] = rs[k][f]
    BY <1>1, EachType DEF OfEach
  <2>2. v[0] = 0
    <3>1. Empty[f] = 0
      BY EmptyType, FieldsOfResults DEF Scalars, NewResultStats
    <3> QED BY <1>3, <1>4, <3>1
  <2>3. \A k \in 1..n : v[k] = v[k - 1] + g[k]
    <3>1. \A k \in 1..n : r[k][f] = r[k - 1][f] + rs[k][f]
      BY <1>6, MergeOneFields
    <3> QED BY <1>4, <2>1, <3>1
  <2>4. v[n] = t[f]
    BY <1>3, <1>4
  <2> HIDE DEF v, g
  <2>5. v[n] = SumFunction(g)
    BY <1>1, <2>1, <2>2, <2>3, AddedUp
  <2> QED BY <2>4, <2>5 DEF g
<1>8. ASSUME NEW f \in Tables, NEW c \in DOMAIN NewResultStats[f]
      PROVE  t[f][c] = SumFunction(OfEachAt(rs, f, c))
  <2> DEFINE v == [k \in 0..n |-> r[k][f][c]]
             g == OfEachAt(rs, f, c)
  <2>1. g \in [1..n -> Nat] /\ \A k \in 1..n : g[k] = rs[k][f][c]
    BY <1>1, EachType DEF OfEachAt
  <2>2. v[0] = 0
    <3>1. NewResultStats[f][c] = 0 /\ f \in DOMAIN NewResultStats
      BY DEF Tables, NewResultStats
    <3>2. Empty[f][c] = 0
      BY <3>1, EmptyType
    <3> QED BY <1>3, <1>4, <3>2
  <2>3. \A k \in 1..n : v[k] = v[k - 1] + g[k]
    <3>1. \A k \in 1..n : r[k][f][c] = r[k - 1][f][c] + rs[k][f][c]
      BY <1>6, MergeOneFields
    <3> QED BY <1>4, <2>1, <3>1
  <2>4. v[n] = t[f][c]
    BY <1>3, <1>4
  <2> HIDE DEF v, g
  <2>5. v[n] = SumFunction(g)
    BY <1>1, <2>1, <2>2, <2>3, AddedUp
  <2> QED BY <2>4, <2>5 DEF g
<1>9. ASSUME NEW f \in Datasets, NEW d
      PROVE  Occurrences(t[f], d) = SumFunction(InEach(rs, f, d))
  <2> DEFINE v == [k \in 0..n |-> Occurrences(r[k][f], d)]
             g == InEach(rs, f, d)
  <2>1. g \in [1..n -> Nat] /\ \A k \in 1..n : g[k] = Occurrences(rs[k][f], d)
    BY <1>1, EachType, ZenonT(30) DEF InEach
  <2>2. v[0] = 0
    <3>1. NewResultStats[f] = << >> /\ f \in DOMAIN NewResultStats
      BY DEF Datasets, NewResultStats
    <3>2. Empty[f] = << >>
      BY <3>1, EmptyType
    <3>3. Occurrences(<< >>, d) = 0
      <4>1. Places(<< >>, d) = {}
        BY DEF Places
      <4> QED BY <4>1, FS_EmptySet DEF Occurrences
    <3> QED BY <1>3, <1>4, <3>2, <3>3
  <2>3. \A k \in 1..n : v[k] = v[k - 1] + g[k]
    <3> HIDE DEF v, g
    <3>1. ASSUME NEW k \in 1..n
          PROVE  Occurrences(r[k][f], d) = Occurrences(r[k - 1][f], d) + Occurrences(rs[k][f], d)
      <4> DEFINE a == r[k - 1]
                 b == rs[k]
      <4>1. a \in Totals /\ b \in WorkerResults /\ r[k] = MergeOne(a, b)
        BY <1>6
      <4> HIDE DEF a, b
      <4>2. Occurrences(MergeOne(a, b)[f], d) = Occurrences(a[f], d) + Occurrences(b[f], d)
        BY <4>1, MergeOneFields
      <4> QED BY <4>1, <4>2 DEF a, b
    <3> USE DEF v
    <3> QED BY <1>4, <2>1, <3>1
  <2>4. v[n] = Occurrences(t[f], d)
    BY <1>3, <1>4
  <2> HIDE DEF v, g
  <2>5. v[n] = SumFunction(g)
    BY <1>1, <2>1, <2>2, <2>3, AddedUp
  <2> QED BY <2>4, <2>5 DEF g
<1>10. ASSUME \A k \in Index : Partitioned(rs[k])
       PROVE  SumFunction(t.GroupedErrors) = t.IOError
  <2> DEFINE v == [k \in 0..n |-> SumFunction(r[k].GroupedErrors)]
             g == OfEach(rs, "IOError")
  <2>1. "IOError" \in Scalars
    BY DEF Scalars
  <2>2. g \in [1..n -> Nat] /\ \A k \in 1..n : g[k] = SumFunction(Grouped(rs[k].Errors))
    BY <1>1, <1>10, <2>1, EachType DEF OfEach, Partitioned
  <2>3. v[0] = 0
    <3>1. DOMAIN Empty.GroupedErrors = ErrTexts /\ \A x \in ErrTexts : Empty.GroupedErrors[x] = 0
      BY EmptyType
    <3>2. SumFunction(Empty.GroupedErrors) = 0
      BY <3>1, TextsFinite, SumZero
    <3> QED BY <1>3, <1>4, <3>2
  <2>4. ASSUME NEW k \in 1..n PROVE v[k] = v[k - 1] + g[k]
    <3> DEFINE a == r[k - 1].GroupedErrors
               b == Grouped(rs[k].Errors)
               c == r[k].GroupedErrors
    <3>1. a \in [ErrTexts -> Nat] /\ b \in [ErrTexts -> Nat]
      <4>1. a \in [ErrTexts -> Nat]
        BY <1>6 DEF Totals
      <4>2. rs[k].Errors \in Seq([start : Datapoints, err : Errs])
        BY <1>6 DEF WorkerResults, Stats
      <4> QED BY <4>1, <4>2, GroupedType
    <3>2. c = Plus(a, b)
      <4>1. r[k].GroupedErrors = MergeOne(r[k - 1], rs[k]).GroupedErrors
        BY <1>6
      <4> QED BY <4>1 DEF MergeOne, AddGroups
    <3> HIDE DEF a, b, c
    <3>3. /\ DOMAIN a = ErrTexts /\ DOMAIN b = ErrTexts /\ DOMAIN c = ErrTexts
          /\ \A x \in ErrTexts : a[x] \in Nat /\ b[x] \in Nat /\ c[x] = a[x] + b[x]
      BY <3>1, <3>2, PlusType
    <3>4. SumFunctionOnSet(c, ErrTexts)
            = SumFunctionOnSet(a, ErrTexts) + SumFunctionOnSet(b, ErrTexts)
      BY <3>3, TextsFinite, SumPlus
    <3>5. SumFunction(c) = SumFunction(a) + SumFunction(b)
      BY <3>3, <3>4 DEF SumFunction
    <3> QED BY <1>4, <2>2, <3>5 DEF a, b, c
  <2>5. v[n] = SumFunction(t.GroupedErrors)
    BY <1>3, <1>4
  <2> HIDE DEF v, g
  <2>6. v[n] = SumFunction(g)
    BY <1>1, <2>2, <2>3, <2>4, AddedUp
  <2> QED BY <1>7, <2>1, <2>5, <2>6 DEF g
<1> QED BY <1>5, <1>7, <1>8, <1>9, <1>10 DEF t

(***************************************************************************)
(* Merge.                                                                  *)
(***************************************************************************)
(* Merge puts the datapoints in order and leaves the rest of the totals.   *)
LEMMA MergeFields ==
  ASSUME NEW rs, NEW t, t = FoldLeft(MergeOne, Empty, rs), t \in Totals
  PROVE  LET m == Merge(rs) IN
         /\ m.Timings = SortedBy(t.Timings, [d \in ToSet(t.Timings) |-> d.at])
         /\ m.Errors = SortedBy(t.Errors, [e \in ToSet(t.Errors) |-> e.start.at])
         /\ m.GroupedErrors = t.GroupedErrors
         /\ \A f \in Scalars \union Tables : m[f] = t[f]
<1> DEFINE a == SortedBy(t.Timings, [d \in ToSet(t.Timings) |-> d.at])
           b == SortedBy(t.Errors, [e \in ToSet(t.Errors) |-> e.start.at])
<1>1. Merge(rs) = [t EXCEPT !.Timings = a, !.Errors = b]
  BY DEF Merge
<1>2. /\ "Timings" \in DOMAIN t /\ "Errors" \in DOMAIN t /\ "GroupedErrors" \in DOMAIN t
      /\ \A f \in Scalars \union Tables : f \in DOMAIN t /\ f \notin {"Timings", "Errors"}
  BY DEF Totals, Scalars, Tables
<1> HIDE DEF a, b
<1>3. /\ Merge(rs)["Timings"] = a /\ Merge(rs)["Errors"] = b
      /\ \A f \in DOMAIN t : f \notin {"Timings", "Errors"} => Merge(rs)[f] = t[f]
  BY <1>1, <1>2, DatasetsReplaced
<1> QED BY <1>2, <1>3 DEF a, b

(* s in the order of at, a function of more than what is in s.             *)
Ordered(s, at) == SortedBy(s, [d \in ToSet(s) |-> at[d]])

(* A sorted sequence is a sequence of the same elements, in order.         *)
LEMMA InOrderOf ==
  ASSUME NEW X, NEW s \in Seq(X), NEW at \in [X -> Nat], NEW m, m = Ordered(s, at)
  PROVE  /\ m \in Seq(ToSet(s)) /\ m \in Seq(X)
         /\ \A d : Occurrences(m, d) = Occurrences(s, d)
         /\ \A j, k \in DOMAIN m : j < k => at[m[j]] <= at[m[k]]
<1> DEFINE Y == ToSet(s)
           start == [d \in Y |-> at[d]]
<1>1. s \in Seq(Y) /\ \A d \in Y : d \in X /\ at[d] \in Nat
  BY DEF ToSet
<1>2. start \in [Y -> Nat] /\ \A d \in Y : start[d] = at[d]
  BY <1>1
<1>3. m = SortedBy(s, start)
  BY DEF Ordered
<1> HIDE DEF Y, start
<1>4. /\ m \in Seq(Y) /\ Sorted(m, start)
      /\ \A d : Occurrences(m, d) = Occurrences(s, d)
  <2>1. SortedBy(s, start) \in Seq(Y) /\ Sorted(SortedBy(s, start), start)
    BY <1>1, <1>2, SortedByOK
  <2>2. \A d : Occurrences(SortedBy(s, start), d) = Occurrences(s, d)
    BY <1>1, <1>2, SortedByOK
  <2> QED BY <1>3, <2>1, <2>2
<1>5. \A k \in DOMAIN m : m[k] \in Y
  BY <1>4
<1>6. \A j, k \in DOMAIN m : j < k => at[m[j]] <= at[m[k]]
  BY <1>2, <1>4, <1>5 DEF Sorted
<1>7. m \in Seq(X)
  BY <1>1, <1>4
<1> QED BY <1>4, <1>6, <1>7 DEF Y

(* A field of whole that is a count is that of results.                    *)
LEMMA WholeFields ==
  ASSUME NEW w, Without(w) \in WorkerResults
  PROVE  \A f \in Scalars \union Tables : w[f] = Without(w)[f]
<1>1. DOMAIN w = DOMAIN NewResultStats
  <2>1. DOMAIN Without(w) = DOMAIN w
    BY DatasetsReplaced DEF Without
  <2> QED BY <2>1, FieldsOfResults
<1>2. \A f \in Scalars \union Tables : f \in DOMAIN w /\ f \notin {"Timings", "Errors"}
  BY <1>1, FieldsOfResults DEF Datasets
<1> QED BY <1>2, DatasetsReplaced DEF Without

(* The report is what one worker would have recorded, in order.            *)
LEMMA MergeCounts == MergeInv => MergeCountsEverythingOnce
<1> SUFFICES ASSUME MergeInv PROVE MergeCountsEverythingOnce
  OBVIOUS
<1> DEFINE t == FoldLeft(MergeOne, Empty, results)
           at == [d \in Datapoints |-> d.at]
           from == [e \in ErrorRecords |-> e.start.at]
<1>1. results \in [Index -> WorkerResults] /\ Without(whole) \in WorkerResults
  BY DEF MergeInv, Typed
<1>2. t \in Totals
  BY <1>1, TotalsAdd
<1>3. \A f \in Scalars : t[f] = whole[f]
  BY <1>1, TotalsAdd DEF MergeInv, Tally
<1>4. \A f \in Tables : t[f] = whole[f]
  <2>1. \A f \in Tables : \A c \in DOMAIN NewResultStats[f] : t[f][c] = whole[f][c]
    BY <1>1, TotalsAdd DEF MergeInv, Tally
  <2> HIDE DEF t
  <2>2. \A f \in Tables : t[f] \in [DOMAIN NewResultStats[f] -> Nat]
    BY <1>2 DEF Totals, Tables, NewResultStats
  <2>3. \A f \in Tables : Without(whole)[f] \in [DOMAIN NewResultStats[f] -> Nat]
    BY <1>1 DEF WorkerResults, Stats, Tables, NewResultStats
  <2>4. \A f \in Tables : whole[f] \in [DOMAIN NewResultStats[f] -> Nat]
    BY <1>1, <2>3, WholeFields
  <2> QED BY <2>1, <2>2, <2>4
<1>5. \A f \in Datasets : \A d : Occurrences(t[f], d) = Copies(d, whole[f])
  BY <1>1, TotalsAdd DEF MergeInv, Tally
<1>6. IsABag(whole.Timings) /\ IsABag(whole.Errors)
  BY DEF MergeInv, Tally, Datasets
<1>7. t.Timings \in Seq(Datapoints) /\ t.Errors \in Seq(ErrorRecords)
  <2> HIDE DEF t
  <2> QED BY <1>2 DEF Totals, ErrorRecords
<1>8. /\ Merged.Timings = SortedBy(t.Timings, [d \in ToSet(t.Timings) |-> d.at])
      /\ Merged.Errors = SortedBy(t.Errors, [e \in ToSet(t.Errors) |-> e.start.at])
      /\ \A f \in Scalars \union Tables : Merged[f] = t[f]
  BY <1>2, MergeFields DEF Merged
<1> HIDE DEF t
<1>9. /\ at \in [Datapoints -> Nat] /\ from \in [ErrorRecords -> Nat]
  BY DEF Datapoints, ErrorRecords
<1>10. Merged.Timings = Ordered(t.Timings, at) /\ Merged.Errors = Ordered(t.Errors, from)
  <2>1. /\ \A d \in ToSet(t.Timings) : at[d] = d.at
        /\ \A e \in ToSet(t.Errors) : from[e] = e.start.at
    BY <1>7 DEF ToSet
  <2>2. [d \in ToSet(t.Timings) |-> d.at] = [d \in ToSet(t.Timings) |-> at[d]]
    BY <2>1
  <2>3. [e \in ToSet(t.Errors) |-> e.start.at] = [e \in ToSet(t.Errors) |-> from[e]]
    BY <2>1
  <2> QED BY <1>8, <2>2, <2>3 DEF Ordered
<1>11. \A f \in Counts : Merged[f] = whole[f]
  BY <1>3, <1>4, <1>8 DEF Counts, Scalars, Tables
<1>12. /\ Merged.Timings \in Seq(Datapoints)
       /\ \A d : Occurrences(Merged.Timings, d) = Occurrences(t.Timings, d)
       /\ \A j, k \in DOMAIN Merged.Timings :
            j < k => at[Merged.Timings[j]] <= at[Merged.Timings[k]]
  <2> DEFINE s == t.Timings
             m == Merged.Timings
  <2>1. s \in Seq(Datapoints) /\ m = Ordered(s, at)
    BY <1>7, <1>10
  <2> HIDE DEF at, s, m
  <2>2. /\ m \in Seq(Datapoints)
        /\ \A d : Occurrences(m, d) = Occurrences(s, d)
        /\ \A j, k \in DOMAIN m : j < k => at[m[j]] <= at[m[k]]
    BY <1>9, <2>1, InOrderOf
  <2> QED BY <2>2 DEF s, m
<1>13. /\ Merged.Errors \in Seq(ErrorRecords)
       /\ \A d : Occurrences(Merged.Errors, d) = Occurrences(t.Errors, d)
       /\ \A j, k \in DOMAIN Merged.Errors :
            j < k => from[Merged.Errors[j]] <= from[Merged.Errors[k]]
  <2> DEFINE s == t.Errors
             m == Merged.Errors
  <2>1. s \in Seq(ErrorRecords) /\ m = Ordered(s, from)
    BY <1>7, <1>10
  <2> HIDE DEF from, s, m
  <2>2. /\ m \in Seq(ErrorRecords)
        /\ \A d : Occurrences(m, d) = Occurrences(s, d)
        /\ \A j, k \in DOMAIN m : j < k => from[m[j]] <= from[m[k]]
    BY <1>9, <2>1, InOrderOf
  <2> QED BY <2>2 DEF s, m
<1>14. "Timings" \in Datasets /\ "Errors" \in Datasets
  BY DEF Datasets
<1>15. ToBag(Merged.Timings) = whole.Timings
  <2>1. /\ IsABag(ToBag(Merged.Timings))
        /\ \A d : Copies(d, ToBag(Merged.Timings)) = Occurrences(Merged.Timings, d)
    BY <1>12, ToBagOK
  <2>2. \A d : Copies(d, ToBag(Merged.Timings)) = Copies(d, whole.Timings)
    BY <1>5, <1>12, <1>14, <2>1
  <2> QED BY <1>6, <2>1, <2>2, SameBag
<1>16. ToBag(Merged.Errors) = whole.Errors
  <2>1. /\ IsABag(ToBag(Merged.Errors))
        /\ \A d : Copies(d, ToBag(Merged.Errors)) = Occurrences(Merged.Errors, d)
    BY <1>13, ToBagOK
  <2>2. \A d : Copies(d, ToBag(Merged.Errors)) = Copies(d, whole.Errors)
    BY <1>5, <1>13, <1>14, <2>1
  <2> QED BY <1>6, <2>1, <2>2, SameBag
<1>17. \A j, k \in DOMAIN Merged.Timings : j < k => Merged.Timings[j].at <= Merged.Timings[k].at
  <2>1. \A k \in DOMAIN Merged.Timings : at[Merged.Timings[k]] = Merged.Timings[k].at
    BY <1>12
  <2> HIDE DEF at
  <2> QED BY <1>12, <2>1
<1>18. \A j, k \in DOMAIN Merged.Errors :
         j < k => Merged.Errors[j].start.at <= Merged.Errors[k].start.at
  <2>1. \A k \in DOMAIN Merged.Errors : from[Merged.Errors[k]] = Merged.Errors[k].start.at
    BY <1>13
  <2> HIDE DEF from
  <2> QED BY <1>13, <2>1
<1> QED BY <1>11, <1>15, <1>16, <1>17, <1>18 DEF MergeCountsEverythingOnce, InOrder

(* How the queries were spread over the workers makes no difference to     *)
(* what is reported of them.                                               *)
THEOREM MergeIsComplete == Spec => []MergeCountsEverythingOnce
BY WholeIsTheSum, MergeCounts, PTL

(***************************************************************************)
(* The top errors.                                                         *)
(***************************************************************************)
Extensions(groups, orders) == UNION {Extended(groups, o) : o \in orders}

(* The orders after some turns, those of a fold over three of them.        *)
LEMMA TopFold ==
  ASSUME NEW groups
  PROVE  \E r : /\ r[0] = {<< >>}
                /\ \A k \in 1..3 : r[k] = Extensions(groups, r[k - 1])
                /\ TopErrors(groups) = r[3]
<1> DEFINE s == <<1, 2, 3>>
           E == {1, 2, 3}
           V == SUBSET Seq(ErrTexts)
           base == {<< >>}
           Eq(h) == h = [T \in SUBSET DOMAIN s |->
                     IF T = {} THEN base ELSE Extensions(groups, h[T \ {Max(T)}])]
           op == [p \in V \X E |-> Extensions(groups, p[1])]
           g == CHOOSE h : Eq(h)
<1>1. TopErrors(groups) = g[DOMAIN s]
  BY DEF TopErrors, FoldLeft, MapThenFoldSet, Extensions
<1>2. s \in Seq(E) /\ Len(s) = 3
  OBVIOUS
<1>3. /\ StaysIn(op, V, E)
      /\ \A v \in V, e \in E : op[<<v, e>>] = Extensions(groups, v)
  <2>1. \A v \in V : Extensions(groups, v) \in V
    <3>1. \A o \in Seq(ErrTexts) : Extended(groups, o) \in V
      BY DEF Extended, MostFrequent
    <3> QED BY <3>1 DEF Extensions
  <2> QED BY <2>1 DEF StaysIn
<1>4. base \in V
  OBVIOUS
<1> HIDE DEF op, V, s, E, base
<1>5. PICK h : LeftFolds(h, op, base, s) /\ \A T \in SUBSET DOMAIN s : h[T] \in V
  BY <1>2, <1>3, <1>4, LeftFoldExists
<1>6. ASSUME NEW T \in SUBSET DOMAIN s, T # {}
      PROVE  op[<<h[T \ {Max(T)}], s[Max(T)]>>] = Extensions(groups, h[T \ {Max(T)}])
  <2>1. s[Max(T)] \in E /\ h[T \ {Max(T)}] \in V
    BY <1>2, <1>5, <1>6, MaxIndex
  <2> QED BY <1>3, <2>1
<1>7. Eq(h)
  BY <1>5, <1>6 DEF LeftFolds
<1>8. Eq(g)
  BY <1>7
<1> HIDE DEF g
<1>9. g[{}] = base /\ FoldsWithin(g, V, op, s)
  <2>1. \A T \in SUBSET DOMAIN s : T # {} => s[Max(T)] \in E
    BY <1>2, MaxIndex
  <2> QED BY <1>3, <1>8, <2>1 DEF FoldsWithin
<1>10. PICK r : FoldValues(r, base, op, s, V) /\ g[DOMAIN s] = r[Len(s)]
  <2>1. s \in Seq(E)
    BY <1>2
  <2>2. StaysIn(op, V, E)
    BY <1>3
  <2> QED BY <1>4, <1>9, <2>1, <2>2, FoldRuns
<1>11. \A k \in 1..3 : k - 1 \in 0..3 /\ s[k] \in E
  BY <1>2
<1>12. \A k \in 1..3 : r[k] = Extensions(groups, r[k - 1])
  BY <1>2, <1>3, <1>10, <1>11 DEF FoldValues
<1> QED BY <1>1, <1>2, <1>10, <1>12 DEF FoldValues, base

(* What is true of the choice after k turns.                               *)
TopOf(groups, o, k) ==
  /\ o \in Seq(ErrTexts) /\ Len(o) <= k
  /\ \A i, j \in DOMAIN o : o[i] = o[j] => i = j
  /\ \A i, j \in DOMAIN o : i < j => groups[o[i]] >= groups[o[j]]
  /\ \A i \in DOMAIN o : groups[o[i]] > 0
  /\ \A t \in ErrTexts \ ToSet(o) :
       /\ \A i \in DOMAIN o : groups[t] <= groups[o[i]]
       /\ groups[t] > 0 => Len(o) = k

(* A turn keeps it: it takes one of the greatest of the rest, if any.      *)
LEMMA TopStep ==
  ASSUME NEW groups \in [ErrTexts -> Nat], NEW k \in Nat, NEW o, TopOf(groups, o, k),
         NEW p \in Extended(groups, o)
  PROVE  TopOf(groups, p, k + 1)
<1> DEFINE rest == ErrTexts \ ToSet(o)
           next == MostFrequent(groups, ToSet(o))
<1>1. next = {t \in rest : groups[t] > 0 /\ \A u \in rest : groups[u] <= groups[t]}
  BY DEF MostFrequent
<1>2. o \in Seq(ErrTexts) /\ Len(o) \in Nat /\ DOMAIN o = 1..Len(o)
  BY DEF TopOf
<1>3. \A t \in ErrTexts : groups[t] \in Nat
  OBVIOUS
<1>4. p \in (IF next = {} THEN {o} ELSE {Append(o, t) : t \in next})
  BY DEF Extended
<1> HIDE DEF next
<1>5. CASE next = {}
  <2>1. p = o
    BY <1>4, <1>5
  <2>2. \A t \in rest : groups[t] = 0
    <3>1. SUFFICES ASSUME NEW t \in rest, groups[t] # 0 PROVE FALSE
      OBVIOUS
    <3>2. IsFiniteSet(rest)
      BY TextsFinite, FS_Subset
    <3>3. rest # {} /\ \A x \in rest : groups[x] \in Nat
      BY <3>1
    <3> HIDE DEF rest
    <3>4. PICK x \in rest : \A y \in rest : groups[y] <= groups[x]
      BY <3>2, <3>3, GreatestValue
    <3>5. groups[x] > 0
      BY <3>1, <3>3, <3>4
    <3> QED BY <1>1, <1>5, <3>4, <3>5
  <2>3. Len(o) <= k
    BY DEF TopOf
  <2>4. \A t \in rest : /\ \A i \in DOMAIN o : groups[t] <= groups[o[i]]
                       /\ groups[t] > 0 => Len(o) = k + 1
    BY <2>2 DEF TopOf
  <2>5. Len(o) <= k + 1
    BY <1>2, <2>3
  <2> QED BY <2>1, <2>4, <2>5 DEF TopOf
<1>6. CASE next # {}
  <2>1. PICK t \in next : p = Append(o, t)
    BY <1>4, <1>6
  <2>2. t \in rest /\ t \in ErrTexts /\ groups[t] > 0 /\ \A u \in rest : groups[u] <= groups[t]
    BY <1>1, <2>1
  <2> DEFINE n == Len(o) + 1
  <2>3. Len(o) = k
    BY <2>2 DEF TopOf
  <2>4. /\ p \in Seq(ErrTexts) /\ Len(p) = n /\ DOMAIN p = 1..n /\ p[n] = t
        /\ \A i \in DOMAIN o : i \in DOMAIN p /\ i # n /\ p[i] = o[i]
        /\ \A i \in DOMAIN p : i = n \/ i \in DOMAIN o
    BY <1>2, <2>1, <2>2
  <2>5. \A i \in DOMAIN o : o[i] \in ToSet(o) /\ o[i] # t
    BY <2>2 DEF ToSet
  <2>6. ToSet(p) = ToSet(o) \union {t}
    <3>1. \A x \in ToSet(p) : x \in ToSet(o) \union {t}
      BY <2>4 DEF ToSet
    <3>2. \A x \in ToSet(o) \union {t} : x \in ToSet(p)
      <4>1. n \in DOMAIN p
        BY <1>2, <2>4
      <4> QED BY <2>4, <4>1 DEF ToSet
    <3> QED BY <3>1, <3>2
  <2>7. \A i, j \in DOMAIN p : p[i] = p[j] => i = j
    BY <2>4, <2>5 DEF TopOf
  <2>8. \A i \in DOMAIN o : groups[o[i]] >= groups[t]
    BY <2>2 DEF TopOf
  <2>9. \A i, j \in DOMAIN p : i < j => groups[p[i]] >= groups[p[j]]
    <3> TAKE i, j \in DOMAIN p
    <3>1. CASE j = n
      <4>1. i < j => i \in DOMAIN o
        BY <1>2, <2>4, <3>1
      <4> QED BY <2>4, <2>8, <3>1, <4>1
    <3>2. CASE j # n
      <4>1. j \in DOMAIN o /\ (i < j => i \in DOMAIN o)
        BY <1>2, <2>4, <3>2
      <4> QED BY <2>4, <4>1 DEF TopOf
    <3> QED BY <3>1, <3>2
  <2>10. \A i \in DOMAIN p : groups[p[i]] > 0
    BY <2>2, <2>4 DEF TopOf
  <2>11. ASSUME NEW u \in ErrTexts \ ToSet(p)
         PROVE  /\ \A i \in DOMAIN p : groups[u] <= groups[p[i]]
                /\ groups[u] > 0 => Len(p) = k + 1
    <3>1. u \in rest /\ groups[u] <= groups[t]
      BY <2>2, <2>6
    <3>2. \A i \in DOMAIN p : groups[u] <= groups[p[i]]
      BY <2>4, <3>1 DEF TopOf
    <3> QED BY <2>3, <2>4, <3>2
  <2> QED BY <2>3, <2>4, <2>7, <2>9, <2>10, <2>11 DEF TopOf
<1> QED BY <1>5, <1>6

(* So it is true of every choice.                                          *)
LEMMA TopErrorsOK ==
  ASSUME NEW groups \in [ErrTexts -> Nat], NEW o \in TopErrors(groups)
  PROVE  TopOf(groups, o, 3)
<1>1. PICK r : /\ r[0] = {<< >>}
               /\ \A k \in 1..3 : r[k] = Extensions(groups, r[k - 1])
               /\ TopErrors(groups) = r[3]
  BY TopFold
<1> DEFINE P == {k \in 0..3 : \A p \in r[k] : TopOf(groups, p, k)}
<1>2. 0 \in P
  <2>1. TopOf(groups, << >>, 0)
    BY DEF TopOf
  <2> QED BY <1>1, <2>1
<1>3. ASSUME NEW k \in 1..3, k - 1 \in P PROVE k \in P
  <2>1. ASSUME NEW p \in r[k] PROVE TopOf(groups, p, k)
    <3>1. PICK q \in r[k - 1] : p \in Extended(groups, q)
      BY <1>1, <2>1 DEF Extensions
    <3>2. TopOf(groups, q, k - 1) /\ k - 1 \in Nat /\ (k - 1) + 1 = k
      BY <1>3
    <3>3. TopOf(groups, p, (k - 1) + 1)
      BY <3>1, <3>2, TopStep
    <3> QED BY <3>2, <3>3
  <2> QED BY <2>1
<1> HIDE DEF P
<1>4. 3 \in P
  BY <1>2, <1>3, PrefixInduction
<1> QED BY <1>1, <1>4 DEF P

(* The printed total is the sum of the errors chosen.                      *)
LEMMA TotalErrorsSum ==
  ASSUME NEW groups \in [ErrTexts -> Nat], NEW s \in Seq(ErrTexts),
         \A i, j \in DOMAIN s : s[i] = s[j] => i = j
  PROVE  TotalErrors(groups, s) = SumFunctionOnSet(groups, ToSet(s))
<1> DEFINE n == Len(s)
           Eq(h) == h = [T \in SUBSET DOMAIN s |->
                     IF T = {} THEN 0 ELSE h[T \ {Max(T)}] + groups[s[Max(T)]]]
           op == [p \in Nat \X ErrTexts |-> p[1] + groups[p[2]]]
           V == Nat
           base == 0
           g == CHOOSE h : Eq(h)
<1>1. TotalErrors(groups, s) = g[DOMAIN s]
  BY DEF TotalErrors, FoldLeft, MapThenFoldSet
<1>2. n \in Nat /\ DOMAIN s = 1..n
  OBVIOUS
<1>3. /\ StaysIn(op, V, ErrTexts) /\ base \in V
      /\ \A v \in Nat, t \in ErrTexts : op[<<v, t>>] = v + groups[t]
  BY DEF StaysIn
<1> HIDE DEF op, V, base
<1>4. PICK h : LeftFolds(h, op, base, s) /\ \A T \in SUBSET DOMAIN s : h[T] \in V
  BY <1>3, LeftFoldExists
<1>5. ASSUME NEW T \in SUBSET DOMAIN s, T # {}
      PROVE  op[<<h[T \ {Max(T)}], s[Max(T)]>>] = h[T \ {Max(T)}] + groups[s[Max(T)]]
  <2>1. s[Max(T)] \in ErrTexts /\ h[T \ {Max(T)}] \in V
    BY <1>4, <1>5, MaxIndex
  <2> QED BY <1>3, <2>1 DEF V
<1>6. Eq(h)
  BY <1>4, <1>5 DEF LeftFolds, base
<1>7. Eq(g)
  BY <1>6
<1> HIDE DEF g
<1>8. g[{}] = base /\ FoldsWithin(g, V, op, s)
  <2>1. \A T \in SUBSET DOMAIN s : T # {} => s[Max(T)] \in ErrTexts
    BY MaxIndex
  <2> QED BY <1>3, <1>7, <2>1, ZenonT(30) DEF FoldsWithin, V, base
<1>9. PICK r : FoldValues(r, base, op, s, V) /\ g[DOMAIN s] = r[Len(s)]
  BY <1>3, <1>8, FoldRuns
<1>10. \A k \in 1..n : k - 1 \in 0..n /\ s[k] \in ErrTexts
  OBVIOUS
<1>11. r[0] = 0 /\ \A k \in 1..n : r[k] = r[k - 1] + groups[s[k]]
  BY <1>3, <1>9, <1>10 DEF FoldValues, V, base
<1> DEFINE First(k) == {s[i] : i \in 1..k}
           P == {k \in 0..n : r[k] = SumFunctionOnSet(groups, First(k))}
<1> HIDE DEF n
<1>12. 0 \in P
  <2>1. First(0) = {} /\ 0 \in 0..n
    BY <1>2
  <2>2. SumFunctionOnSet(groups, {}) = 0
    BY SumChosen
  <2> HIDE DEF First
  <2> QED BY <1>11, <2>1, <2>2
<1>13. ASSUME NEW k \in 1..n, k - 1 \in P PROVE k \in P
  <2>1. /\ s[k] \in First(k) /\ First(k) \ {s[k]} = First(k - 1) /\ k \in 0..n
        /\ First(k) \in SUBSET ErrTexts
    <3>1. \A i \in 1..k : i \in DOMAIN s /\ s[i] \in ErrTexts
      BY <1>2
    <3>2. \A i \in 1..k : i = k \/ i \in 1..(k - 1)
      BY <1>2
    <3>3. \A i \in 1..(k - 1) : i \in 1..k /\ i # k /\ s[i] # s[k]
      BY <1>2
    <3>4. k \in 1..k
      OBVIOUS
    <3> QED BY <3>1, <3>2, <3>3, <3>4
  <2>2. r[k - 1] = SumFunctionOnSet(groups, First(k - 1))
    BY <1>13
  <2> HIDE DEF First
  <2>3. IsFiniteSet(First(k)) /\ \A x \in First(k) : groups[x] \in Nat
    BY <2>1, TextsFinite, FS_Subset
  <2>4. SumFunctionOnSet(groups, First(k))
          = SumFunctionOnSet(groups, First(k) \ {s[k]}) + groups[s[k]]
    BY <2>1, <2>3, SumWithout
  <2> QED BY <1>11, <2>1, <2>2, <2>4
<1> HIDE DEF P
<1>14. \A k \in 0..n : k \in P
  BY <1>2, <1>12, <1>13, PrefixInduction
<1>15. First(n) = ToSet(s)
  BY <1>2 DEF ToSet
<1>16. n \in P
  BY <1>2, <1>14
<1> QED BY <1>1, <1>9, <1>15, <1>16 DEF P, n

(* It is the sum of all of them only if there are no more than three.      *)
LEMMA TotalErrorsAll ==
  ASSUME NEW groups \in [ErrTexts -> Nat], NEW o, TopOf(groups, o, 3)
  PROVE  TotalErrors(groups, o) = SumFunction(groups)
           <=> Cardinality({t \in ErrTexts : groups[t] > 0}) <= 3
<1> DEFINE A == ToSet(o)
           B == {t \in ErrTexts : groups[t] > 0}
<1>1. /\ o \in Seq(ErrTexts) /\ Len(o) \in Nat /\ DOMAIN o = 1..Len(o) /\ Len(o) <= 3
      /\ \A i, j \in DOMAIN o : o[i] = o[j] => i = j
  BY DEF TopOf
<1>2. A \in SUBSET B
  BY <1>1 DEF TopOf, ToSet
<1>3. /\ IsFiniteSet(ErrTexts) /\ IsFiniteSet(B) /\ IsFiniteSet(A)
      /\ \A t \in ErrTexts : groups[t] \in Nat
  <2>1. B \in SUBSET ErrTexts
    OBVIOUS
  <2> HIDE DEF B
  <2>2. IsFiniteSet(B)
    BY <2>1, TextsFinite, FS_Subset
  <2> QED BY <1>2, <2>2, TextsFinite, FS_Subset
<1>4. Cardinality(A) = Len(o)
  <2>1. /\ o \in [1..Len(o) -> A] /\ \A j \in A : \E i \in 1..Len(o) : o[i] = j
        /\ \A i, j \in 1..Len(o) : o[i] = o[j] => i = j
    BY <1>1 DEF ToSet
  <2>2. IsFiniteSet(1..Len(o)) /\ Cardinality(1..Len(o)) = Len(o)
    <3> DEFINE n == Len(o)
    <3>1. n \in Nat
      BY <1>1
    <3> HIDE DEF n
    <3>2. IsFiniteSet(1..n) /\ Cardinality(1..n) = n
      BY <3>1, FS_Interval
    <3> QED BY <3>2 DEF n
  <2> HIDE DEF A
  <2> QED BY <2>1, <2>2, ShiftedPlaces
<1>5. TotalErrors(groups, o) = SumFunctionOnSet(groups, A)
  BY <1>1, TotalErrorsSum
<1>6. SumFunction(groups)
        = SumFunctionOnSet(groups, A) + SumFunctionOnSet(groups, ErrTexts \ A)
  <2>1. ErrTexts \intersect A = A /\ DOMAIN groups = ErrTexts
    BY <1>2
  <2> HIDE DEF A
  <2>2. SumFunctionOnSet(groups, ErrTexts)
          = SumFunctionOnSet(groups, ErrTexts \intersect A) + SumFunctionOnSet(groups, ErrTexts \ A)
    BY <1>3, SumSplit
  <2> QED BY <2>1, <2>2 DEF SumFunction
<1>7. SumFunctionOnSet(groups, ErrTexts \ A) = 0 <=> \A t \in ErrTexts \ A : groups[t] = 0
  <2> DEFINE C == ErrTexts \ A
  <2>1. IsFiniteSet(C) /\ \A t \in C : groups[t] \in Nat
    BY <1>3, FS_Subset
  <2> HIDE DEF C
  <2>2. SumFunctionOnSet(groups, C) = 0 <=> \A t \in C : groups[t] = 0
    BY <2>1, SumIsZero
  <2> QED BY <2>2 DEF C
<1>8. SumFunctionOnSet(groups, A) \in Nat /\ SumFunctionOnSet(groups, ErrTexts \ A) \in Nat
  <2>1. IsFiniteSet(ErrTexts \ A) /\ \A t \in ErrTexts \ A : groups[t] \in Nat
    BY <1>3, FS_Subset
  <2>2. \A t \in A : groups[t] \in Nat
    BY <1>2, <1>3
  <2> QED BY <1>3, <2>1, <2>2, SumNat
<1>9. CASE \A t \in ErrTexts \ A : groups[t] = 0
  <2>1. B = A
    BY <1>2, <1>9
  <2> HIDE DEF A
  <2>2. Cardinality(B) <= 3
    BY <1>1, <1>4, <2>1
  <2>3. SumFunctionOnSet(groups, ErrTexts \ A) = 0
    BY <1>7, <1>9
  <2> HIDE DEF B
  <2>4. TotalErrors(groups, o) = SumFunction(groups)
    BY <1>5, <1>6, <1>8, <2>3
  <2> QED BY <2>2, <2>4 DEF B
<1>10. CASE \E t \in ErrTexts \ A : groups[t] # 0
  <2>1. PICK t \in ErrTexts \ A : groups[t] > 0
    BY <1>3, <1>10
  <2>2. Len(o) = 3
    BY <2>1 DEF TopOf
  <2> DEFINE C == A \union {t}
  <2>3. Cardinality(C) = 4
    <3>1. t \notin A
      BY <2>1
    <3> HIDE DEF A
    <3>2. Cardinality(A \union {t}) = Cardinality(A) + 1
      BY <1>3, <3>1, FS_AddElement
    <3> QED BY <1>4, <2>2, <3>2
  <2>4. C \in SUBSET B
    BY <1>2, <2>1
  <2> HIDE DEF B, C
  <2>5. 4 <= Cardinality(B) /\ Cardinality(B) \in Nat
    BY <1>3, <2>3, <2>4, FS_Subset, FS_CardinalityType
  <2>6. ~(Cardinality(B) <= 3)
    BY <2>5
  <2>7. TotalErrors(groups, o) # SumFunction(groups)
    <3>1. SumFunctionOnSet(groups, ErrTexts \ A) # 0
      BY <1>7, <2>1
    <3> HIDE DEF A
    <3>2. PICK m \in Nat, n \in Nat \ {0} : /\ TotalErrors(groups, o) = m
                                            /\ SumFunction(groups) = m + n
      BY <1>5, <1>6, <1>8, <3>1
    <3>3. m # m + n
      OBVIOUS
    <3> QED BY <3>2, <3>3, Zenon
  <2> QED BY <2>6, <2>7 DEF B
<1> QED BY <1>9, <1>10

(* The groups are a partition of the errors, and the top ones the top.     *)
LEMMA MergeTops == MergeInv => TopErrorsAreTop
<1> SUFFICES ASSUME MergeInv PROVE TopErrorsAreTop
  OBVIOUS
<1> DEFINE t == FoldLeft(MergeOne, Empty, results)
           groups == Merged.GroupedErrors
<1>1. results \in [Index -> WorkerResults] /\ \A k \in Index : Partitioned(results[k])
  BY DEF MergeInv, Typed
<1>2. t \in Totals /\ SumFunction(t.GroupedErrors) = t.IOError
  BY <1>1, TotalsAdd
<1>3. groups = t.GroupedErrors /\ Merged.IOError = t.IOError
  <2>1. "IOError" \in Scalars \union Tables
    BY DEF Scalars
  <2> HIDE DEF t
  <2>2. t = FoldLeft(MergeOne, Empty, results)
    BY DEF t
  <2>3. Merge(results).GroupedErrors = t.GroupedErrors
    BY <1>2, <2>2, MergeFields
  <2>4. Merge(results)["IOError"] = t["IOError"]
    BY <1>2, <2>1, <2>2, MergeFields
  <2> QED BY <2>3, <2>4 DEF Merged
<1> HIDE DEF t
<1>4. groups \in [ErrTexts -> Nat]
  BY <1>2, <1>3 DEF Totals
<1>5. SumFunction(groups) = Merged.IOError
  BY <1>2, <1>3
<1> HIDE DEF groups
<1>6. ASSUME NEW o \in TopErrors(groups)
      PROVE  /\ IsInjective(o)
             /\ \A j, k \in DOMAIN o : j < k => groups[o[j]] >= groups[o[k]]
             /\ \A x \in ErrTexts \ ToSet(o) :
                  groups[x] > 0 => Len(o) = 3 /\ groups[x] <= groups[o[3]]
             /\ TotalErrors(groups, o) = Merged.IOError
                  <=> Cardinality({x \in ErrTexts : groups[x] > 0}) <= 3
  <2>1. TopOf(groups, o, 3)
    BY <1>4, TopErrorsOK
  <2>2. IsInjective(o) /\ \A j, k \in DOMAIN o : j < k => groups[o[j]] >= groups[o[k]]
    BY <2>1 DEF TopOf, IsInjective
  <2>3. ASSUME NEW x \in ErrTexts \ ToSet(o), groups[x] > 0
        PROVE  Len(o) = 3 /\ groups[x] <= groups[o[3]]
    <3>1. o \in Seq(ErrTexts) /\ Len(o) = 3 /\ \A i \in DOMAIN o : groups[x] <= groups[o[i]]
      BY <2>1, <2>3 DEF TopOf
    <3>2. 3 \in DOMAIN o
      BY <3>1
    <3> QED BY <3>1, <3>2
  <2>4. TotalErrors(groups, o) = SumFunction(groups)
          <=> Cardinality({x \in ErrTexts : groups[x] > 0}) <= 3
    BY <1>4, <2>1, TotalErrorsAll
  <2> QED BY <1>5, <2>2, <2>3, <2>4
<1> QED BY <1>5, <1>6 DEF TopErrorsAreTop, groups

(* Every report of a run names the top errors, whichever way it chooses.   *)
THEOREM ReportsTheTopErrors == Spec => []TopErrorsAreTop
BY WholeIsTheSum, MergeTops, PTL

(***************************************************************************)
(* The response codes.                                                     *)
(***************************************************************************)
(* The bag of a sequence has as many elements as the sequence.             *)
LEMMA SequenceBag ==
  ASSUME NEW X, NEW s \in Seq(X)
  PROVE  BagCardinality(ToBag(s)) = Len(s)
<1> DEFINE n == Len(s)
           I == 1..n
           Y == ToSet(s)
           D == [d \in Y |-> {i \in I : s[i] = d}]
           g == [d \in Y |-> Cardinality(D[d])]
<1>1. n \in Nat /\ DOMAIN s = I /\ \A i \in I : s[i] \in Y
  BY DEF ToSet
<1>2. ToBag(s) = g
  BY <1>1 DEF ToBag, ToSet, Range
<1>3. IsFiniteSet(I) /\ Cardinality(I) = n
  BY <1>1, FS_Interval
<1>4. IsFiniteSet(Y)
  <2>1. s \in Surjection(I, Y)
    BY <1>1 DEF Surjection, ToSet
  <2> HIDE DEF I, Y
  <2> QED BY <1>3, <2>1, FS_Surjection
<1>5. /\ DOMAIN g = Y /\ \A d \in Y : g[d] = Cardinality(D[d])
      /\ Classifies(s, D, I, Y)
  BY <1>1 DEF Classifies
<1> HIDE DEF I, Y, D, g, n
<1>6. SumFunctionOnSet(g, Y) = n
  BY <1>3, <1>4, <1>5, CountByValue
<1>7. BagCardinality(g) = SumFunction(g)
  BY DEF BagCardinality, SumFunction, SumFunctionOnSet, FoldFunctionOnSet, MapThenFoldSet
<1> QED BY <1>2, <1>5, <1>6, <1>7 DEF SumFunction, n

(* Merge puts the codes of all responses together.                         *)
LEMMA CodesAdd ==
  ASSUME NEW rs \in [Index -> WorkerResults], \A k \in Index : CodesFit(rs[k]), CountRcodes
  PROVE  LET t == FoldLeft(MergeOne, Empty, rs) IN SumFunction(t.Codes) = Len(t.Timings)
<1> DEFINE n == Len(Workers)
           t == FoldLeft(MergeOne, Empty, rs)
<1>1. n \in Nat /\ Index = 1..n
  BY WorkersNumbered
<1>2. rs \in Seq(WorkerResults) /\ Len(rs) = n
  BY <1>1
<1> HIDE DEF n
<1>3. PICK r : /\ r[0] = Empty
               /\ \A k \in 1..n : r[k] = MergeOne(r[k - 1], rs[k])
               /\ \A k \in 0..n : r[k] \in Totals
               /\ t = r[n]
  BY <1>2, MergeFold
<1> DEFINE P == {k \in 0..n : SumFunction(r[k].Codes) = Len(r[k].Timings)}
<1>4. 0 \in P
  <2>1. Empty.Codes = [c \in RcodeSet |-> 0] /\ Empty.Timings = << >>
    BY EmptyType DEF NewResultStats
  <2>2. SumFunction([c \in RcodeSet |-> 0]) = 0
    BY ResultStatsAssumption, SumZero
  <2> QED BY <1>1, <1>3, <2>1, <2>2
<1>5. ASSUME NEW k \in 1..n, k - 1 \in P PROVE k \in P
  <2> DEFINE a == r[k - 1]
             b == rs[k]
  <2>1. /\ k - 1 \in 0..n /\ k \in 0..n /\ a \in Totals /\ b \in WorkerResults
        /\ r[k] = MergeOne(a, b) /\ CodesFit(b)
    BY <1>1, <1>3
  <2>2. SumFunction(a.Codes) = Len(a.Timings)
    BY <1>5
  <2> HIDE DEF a, b
  <2>3. r[k].Codes = Plus(a.Codes, b.Codes) /\ r[k].Timings = a.Timings \o b.Timings
    <3>1. /\ MergeOne(a, b).Codes = Plus(a.Codes, b.Codes)
          /\ MergeOne(a, b).Timings = a.Timings \o b.Timings
      BY DEF MergeOne
    <3> QED BY <2>1, <3>1
  <2>4. /\ a.Codes \in [RcodeSet -> Nat] /\ b.Codes \in [RcodeSet -> Nat]
        /\ a.Timings \in Seq(Datapoints) /\ b.Timings \in Seq(Datapoints)
    BY <2>1 DEF Totals, WorkerResults, Stats
  <2>5. Len(r[k].Timings) = Len(a.Timings) + Len(b.Timings)
    BY <2>3, <2>4
  <2> DEFINE u == a.Codes
             v == b.Codes
             c == Plus(u, v)
  <2>6. u \in [RcodeSet -> Nat] /\ v \in [RcodeSet -> Nat]
    BY <2>4
  <2> HIDE DEF u, v
  <2>7. c \in [RcodeSet -> Nat] /\ \A x \in RcodeSet : c[x] = u[x] + v[x]
    BY <2>6, PlusType
  <2> HIDE DEF c
  <2>8. /\ DOMAIN c = RcodeSet /\ DOMAIN u = RcodeSet /\ DOMAIN v = RcodeSet
        /\ \A x \in RcodeSet : u[x] \in Nat /\ v[x] \in Nat /\ c[x] = u[x] + v[x]
    BY <2>6, <2>7
  <2>9. SumFunctionOnSet(c, RcodeSet)
          = SumFunctionOnSet(u, RcodeSet) + SumFunctionOnSet(v, RcodeSet)
    BY <2>8, ResultStatsAssumption, SumPlus
  <2>10. SumFunction(c) = SumFunction(u) + SumFunction(v)
    BY <2>8, <2>9 DEF SumFunction
  <2> QED BY <2>1, <2>2, <2>3, <2>5, <2>10 DEF CodesFit, c, u, v
<1> HIDE DEF P
<1>6. \A k \in 0..n : k \in P
  BY <1>1, <1>4, <1>5, PrefixInduction
<1>7. n \in P
  BY <1>1, <1>6
<1> QED BY <1>3, <1>7 DEF P, t

(* No more than one element.                                               *)
LEMMA AtMostOneElement ==
  ASSUME NEW S, IsFiniteSet(S)
  PROVE  Cardinality(S) <= 1 <=> \A x, y \in S : x = y
<1>1. CASE S = {}
  BY <1>1, FS_EmptySet
<1>2. ASSUME NEW x \in S, \A y \in S : y = x PROVE Cardinality(S) = 1
  <2>1. S = {x}
    BY <1>2
  <2> QED BY <2>1, FS_Singleton
<1>3. ASSUME NEW x \in S, NEW y \in S, x # y PROVE ~(Cardinality(S) <= 1)
  <2>1. {x, y} \in SUBSET S /\ {x, y} = {x} \union {y}
    BY <1>3
  <2>2. Cardinality({x}) = 1 /\ IsFiniteSet({x}) /\ y \notin {x}
    BY <1>3, FS_Singleton
  <2>3. Cardinality({x} \union {y}) = 2
    BY <2>2, FS_AddElement
  <2>4. 2 <= Cardinality(S) /\ Cardinality(S) \in Nat
    BY <2>1, <2>3, FS_Subset, FS_CardinalityType
  <2> QED BY <2>4
<1> QED BY <1>1, <1>2, <1>3

(* The counts of some codes are all there are if no other was recorded.    *)
LEMMA SomeCodes ==
  ASSUME NEW codes \in [RcodeSet -> Nat], NEW A \in SUBSET RcodeSet
  PROVE  SumFunctionOnSet(codes, A) = SumFunction(codes) <=> Recorded(codes) \subseteq A
<1> DEFINE B == RcodeSet \ A
<1>1. /\ IsFiniteSet(RcodeSet) /\ DOMAIN codes = RcodeSet
      /\ \A c \in RcodeSet : codes[c] \in Nat
  BY ResultStatsAssumption
<1>2. IsFiniteSet(A) /\ IsFiniteSet(B)
  BY <1>1, FS_Subset
<1>3. RcodeSet \intersect A = A /\ \A c \in A \union B : codes[c] \in Nat
  BY <1>1
<1>4. SumFunctionOnSet(codes, RcodeSet) = SumFunctionOnSet(codes, A) + SumFunctionOnSet(codes, B)
  <2>1. \A T : SumFunctionOnSet(codes, RcodeSet)
                = SumFunctionOnSet(codes, RcodeSet \intersect T)
                  + SumFunctionOnSet(codes, RcodeSet \ T)
    BY <1>1, SumSplit
  <2> QED BY <1>3, <2>1
<1>5. Recorded(codes) \subseteq A <=> \A c \in B : codes[c] = 0
  BY <1>1 DEF Recorded
<1> HIDE DEF B
<1>6. SumFunctionOnSet(codes, B) = 0 <=> \A c \in B : codes[c] = 0
  BY <1>2, <1>3, SumIsZero
<1>7. SumFunctionOnSet(codes, A) \in Nat /\ SumFunctionOnSet(codes, B) \in Nat
  BY <1>2, <1>3, SumNat
<1> QED BY <1>1, <1>4, <1>5, <1>6, <1>7 DEF SumFunction

(* The JSON map: each name has the count of one code of that name.         *)
LEMMA JsonCodesOK ==
  ASSUME NEW codes \in [RcodeSet -> Nat], NEW json \in JsonCodes(codes)
  PROVE  /\ \A c \in Named \intersect Recorded(codes) : json[c] = codes[c]
         /\ SumFunction(json) = SumFunction(codes)
              <=> Cardinality(Recorded(codes) \ Named) <= 1
<1> DEFINE R == Recorded(codes)
           names == {CodeName(c) : c \in R}
<1>1. PICK f \in [names -> R] : /\ \A m \in names : CodeName(f[m]) = m
                                /\ json = [m \in names |-> codes[f[m]]]
  BY DEF JsonCodes
<1>2. /\ "" \notin RcodeSet /\ Named \subseteq RcodeSet /\ R \in SUBSET RcodeSet
      /\ \A c \in RcodeSet : codes[c] \in Nat
  BY ReportersAssumption DEF Recorded
<1>3. IsFiniteSet(R)
  <2> HIDE DEF R
  <2> QED BY <1>2, ResultStatsAssumption, FS_Subset
<1>4. \A c \in R : /\ c \in Named => CodeName(c) = c
                   /\ c \notin Named => CodeName(c) = ""
                   /\ CodeName(c) \in names
  BY DEF CodeName
<1> HIDE DEF R, names
<1>5. \A c \in Named \intersect R : json[c] = codes[c]
  <2> TAKE c \in Named \intersect R
  <2>1. CodeName(c) = c /\ c \in names /\ c # ""
    BY <1>2, <1>4
  <2>2. f[c] \in R /\ CodeName(f[c]) = c
    BY <1>1, <2>1
  <2>3. f[c] = c
    BY <1>4, <2>1, <2>2
  <2> QED BY <1>1, <2>1, <2>3
<1> DEFINE A == {f[m] : m \in names}
<1>6. IsFiniteSet(names)
  <2> DEFINE g == [c \in R |-> CodeName(c)]
  <2>1. g \in Surjection(R, names)
    BY DEF Surjection, names, R
  <2> HIDE DEF g
  <2> QED BY <1>3, <2>1, FS_Surjection
<1>7. SumFunction(json) = SumFunctionOnSet(codes, A)
  <2>1. \A m \in names : codes[f[m]] \in Nat /\ json[m] = codes[f[m]]
    BY <1>1, <1>2
  <2>2. \A l, m \in names : f[l] = f[m] => l = m
    BY <1>1
  <2>3. SumFunctionOnSet(json, names) = SumFunctionOnSet(codes, {f[m] : m \in names})
    BY <1>1, <1>6, <2>1, <2>2, SumMoved
  <2>4. DOMAIN json = names
    BY <1>1
  <2> QED BY <2>3, <2>4 DEF SumFunction
<1>8. A \in SUBSET RcodeSet
  BY <1>1, <1>2
<1>9. R \subseteq A <=> \A b, c \in R \ Named : b = c
  <2>1. ASSUME NEW b \in R \ Named, NEW c \in R \ Named, R \subseteq A PROVE b = c
    <3>1. PICK l \in names : b = f[l]
      BY <2>1
    <3>2. PICK m \in names : c = f[m]
      BY <2>1
    <3>3. CodeName(b) = "" /\ CodeName(c) = ""
      BY <1>4
    <3> QED BY <1>1, <3>1, <3>2, <3>3
  <2>2. ASSUME NEW c \in R, \A b, d \in R \ Named : b = d PROVE c \in A
    <3> DEFINE m == CodeName(c)
    <3>1. m \in names /\ f[m] \in R /\ CodeName(f[m]) = m
      BY <1>1, <1>4
    <3>2. CASE c \in Named
      <4>1. m = c /\ c # ""
        BY <1>2, <1>4, <3>2
      <4>2. f[m] = c
        BY <1>4, <3>1, <4>1
      <4> QED BY <3>1, <4>2
    <3>3. CASE c \notin Named
      <4>1. m = ""
        BY <1>4, <3>3
      <4>2. f[m] \notin Named
        BY <1>2, <1>4, <3>1, <4>1
      <4>3. f[m] = c
        BY <2>2, <3>1, <3>3, <4>2
      <4> QED BY <3>1, <4>3
    <3> QED BY <3>2, <3>3
  <2> QED BY <2>1, <2>2
<1> HIDE DEF A
<1>10. SumFunctionOnSet(codes, A) = SumFunction(codes) <=> R \subseteq A
  BY <1>8, SomeCodes DEF R
<1>11. Cardinality(R \ Named) <= 1 <=> \A b, c \in R \ Named : b = c
  <2>1. IsFiniteSet(R \ Named)
    BY <1>3, FS_Subset
  <2> QED BY <2>1, AtMostOneElement
<1> QED BY <1>5, <1>7, <1>9, <1>10, <1>11 DEF R

(* The lines of the standard report.                                       *)
LEMMA StdCodesOK ==
  ASSUME NEW codes \in [RcodeSet -> Nat]
  PROVE  /\ \A c \in Named \intersect Recorded(codes) : StdCodes(codes)[c] = codes[c]
         /\ SumFunction(StdCodes(codes)) = SumFunction(codes) <=> Recorded(codes) \subseteq Listed
<1> DEFINE A == Recorded(codes) \intersect Listed
           std == StdCodes(codes)
<1>1. A \in SUBSET RcodeSet /\ DOMAIN std = A /\ \A c \in A : std[c] = codes[c]
  BY DEF Recorded, StdCodes
<1>2. \A c \in Named \intersect Recorded(codes) : std[c] = codes[c]
  BY <1>1, ReportersAssumption
<1>3. Recorded(codes) \subseteq A <=> Recorded(codes) \subseteq Listed
  OBVIOUS
<1> HIDE DEF A, std
<1>4. IsFiniteSet(A)
  BY <1>1, ResultStatsAssumption, FS_Subset
<1>5. SumFunctionOnSet(std, A) = SumFunctionOnSet(codes, A)
  BY <1>1, <1>4, SumSame
<1>6. SumFunctionOnSet(codes, A) = SumFunction(codes) <=> Recorded(codes) \subseteq A
  BY <1>1, SomeCodes
<1> QED BY <1>1, <1>2, <1>3, <1>5, <1>6 DEF SumFunction, std

(* Both reports show the codes of a run as its workers counted them.       *)
LEMMA CodesOfRun == MergeInv => CodesReported
<1> SUFFICES ASSUME MergeInv PROVE CodesReported
  OBVIOUS
<1> DEFINE t == FoldLeft(MergeOne, Empty, results)
           codes == Merged.Codes
<1>1. results \in [Index -> WorkerResults] /\ \A k \in Index : CodesFit(results[k])
  BY DEF MergeInv, Typed
<1>2. t \in Totals /\ (CountRcodes => SumFunction(t.Codes) = Len(t.Timings))
  BY <1>1, TotalsAdd, CodesAdd
<1>3. MergeCountsEverythingOnce
  BY MergeCounts
<1>4. codes = whole.Codes
  BY <1>3 DEF MergeCountsEverythingOnce, Counts
<1>5. BagCardinality(whole.Timings) = Len(t.Timings)
  <2>1. IsABag(whole.Timings) /\ \A d : Occurrences(t.Timings, d) = Copies(d, whole.Timings)
    <3>1. "Timings" \in Datasets
      BY DEF Datasets
    <3> QED BY <1>1, <3>1, TotalsAdd DEF MergeInv, Tally
  <2> HIDE DEF t
  <2>2. t.Timings \in Seq(Datapoints)
    BY <1>2 DEF Totals
  <2>3. IsABag(ToBag(t.Timings)) /\ \A d : Copies(d, ToBag(t.Timings)) = Occurrences(t.Timings, d)
    BY <2>2, ToBagOK
  <2>4. ToBag(t.Timings) = whole.Timings
    BY <2>1, <2>3, SameBag
  <2> QED BY <2>2, <2>4, SequenceBag
<1>6. codes = t.Codes /\ codes \in [RcodeSet -> Nat]
  <2>1. "Codes" \in Scalars \union Tables
    BY DEF Tables
  <2> HIDE DEF t
  <2>2. t = FoldLeft(MergeOne, Empty, results)
    BY DEF t
  <2>3. Merge(results)["Codes"] = t["Codes"]
    BY <1>2, <2>1, <2>2, MergeFields
  <2> QED BY <1>2, <2>3 DEF Merged, Totals
<1> HIDE DEF t, codes
<1>7. CountRcodes => SumFunction(codes) = BagCardinality(whole.Timings)
  BY <1>2, <1>5, <1>6
<1>8. /\ \A c \in Named \intersect Recorded(codes) : StdCodes(codes)[c] = codes[c]
      /\ SumFunction(StdCodes(codes)) = SumFunction(codes) <=> Recorded(codes) \subseteq Listed
  BY <1>6, StdCodesOK
<1>9. ASSUME NEW json \in JsonCodes(codes)
      PROVE  /\ \A c \in Named \intersect Recorded(codes) : json[c] = codes[c]
             /\ SumFunction(json) = SumFunction(codes)
                  <=> Cardinality(Recorded(codes) \ Named) <= 1
  BY <1>6, JsonCodesOK
<1> QED BY <1>4, <1>7, <1>8, <1>9 DEF CodesReported, codes

(* No run leaves a named code out of a report or gives it the count of     *)
(* another.                                                                *)
THEOREM CodesAreReported == Spec => []CodesReported
BY WholeIsTheSum, CodesOfRun, PTL

(***************************************************************************)
(* The lines of throughput and of error rate.                              *)
(***************************************************************************)
Seconds(s) == {Offset(d) : d \in ToSet(s)}

(* The seconds of a set, as they are sorted: each once, in order.          *)
LEMMA KthOK ==
  ASSUME NEW S \in SUBSET Nat, IsFiniteSet(S)
  PROVE  LET n == Cardinality(S) IN
         /\ n \in Nat
         /\ \A k \in 1..n : Kth(S, k) \in S
         /\ \A j, k \in 1..n : j < k => Kth(S, j) < Kth(S, k)
         /\ \A x \in S : \E k \in 1..n : Kth(S, k) = x
<1> DEFINE n == Cardinality(S)
           Below(x) == {y \in S : y < x}
           rank == [x \in S |-> Cardinality(Below(x))]
<1>1. n \in Nat /\ \A x \in S : x \in Nat
  BY FS_CardinalityType
<1>2. \A x \in S : /\ Below(x) \in SUBSET S /\ Below(x) # S
                   /\ \A y \in S : y < x => /\ Below(y) \in SUBSET Below(x)
                                            /\ Below(y) # Below(x)
  <2> HIDE DEF n, rank
  <2> TAKE x \in S
  <2>1. Below(x) \in SUBSET S /\ x \notin Below(x)
    BY <1>1
  <2>2. ASSUME NEW y \in S, y < x
        PROVE  Below(y) \in SUBSET Below(x) /\ y \in Below(x) /\ y \notin Below(y)
    <3>1. \A z \in S : z < y => z < x
      BY <1>1, <2>2
    <3>2. ~(y < y)
      BY <1>1
    <3> QED BY <2>2, <3>1, <3>2
  <2> HIDE DEF Below
  <2> QED BY <2>1, <2>2
<1>3. \A k : Kth(S, k) = CHOOSE x \in S : Cardinality(Below(x)) = k - 1
  BY DEF Kth
<1> HIDE DEF Below
<1>4. \A T \in SUBSET S : IsFiniteSet(T) /\ Cardinality(T) \in Nat
  BY FS_Subset, FS_CardinalityType
<1>5. ASSUME NEW T \in SUBSET S, NEW U \in SUBSET T, U # T
      PROVE  Cardinality(U) < Cardinality(T)
  <2>1. Cardinality(U) <= Cardinality(T) /\ Cardinality(U) # Cardinality(T)
    BY <1>4, <1>5, FS_Subset
  <2>2. U \in SUBSET S
    OBVIOUS
  <2> QED BY <1>4, <2>1, <2>2
<1>6. \A x \in S : Cardinality(Below(x)) \in Nat /\ Cardinality(Below(x)) < n
  BY <1>2, <1>4, <1>5
<1>7. \A x, y \in S : y < x => Cardinality(Below(y)) < Cardinality(Below(x))
  BY <1>2, <1>5
<1> HIDE DEF n
<1>8. \A k \in 1..n : \E x \in S : Cardinality(Below(x)) = k - 1
  <2> DEFINE R == 0..n - 1
  <2>1. rank \in [S -> R] /\ \A x, y \in S : rank[x] = rank[y] => x = y
    <3>1. \A x \in S : Cardinality(Below(x)) \in R
      BY <1>1, <1>6
    <3>2. \A x, y \in S : Cardinality(Below(x)) = Cardinality(Below(y)) => x = y
      BY <1>1, <1>6, <1>7
    <3> QED BY <3>1, <3>2
  <2>2. rank \in Injection(S, R)
    BY <2>1 DEF Injection, IsInjective
  <2>3. IsFiniteSet(R) /\ Cardinality(R) = n
    <3>1. 0 \in Int /\ n - 1 \in Int
      BY <1>1
    <3>2. /\ IsFiniteSet(0..(n - 1))
          /\ Cardinality(0..(n - 1)) = IF 0 > n - 1 THEN 0 ELSE (n - 1) - 0 + 1
      BY <3>1, FS_Interval
    <3> QED BY <1>1, <3>2
  <2> HIDE DEF rank, R
  <2>4. rank \in Surjection(S, R)
    BY <2>2, <2>3, FS_Injection DEF n
  <2>5. \A i \in R : \E x \in S : rank[x] = i
    BY <2>4 DEF Surjection
  <2>6. \A k \in 1..n : k - 1 \in R
    BY <1>1 DEF R
  <2> QED BY <2>5, <2>6 DEF rank
<1>9. \A k \in 1..n : Kth(S, k) \in S /\ Cardinality(Below(Kth(S, k))) = k - 1
  BY <1>3, <1>8
<1>10. ASSUME NEW j \in 1..n, NEW k \in 1..n, j < k
       PROVE  Kth(S, j) < Kth(S, k)
  <2> DEFINE a == Kth(S, j)
             b == Kth(S, k)
  <2>1. /\ a \in S /\ b \in S /\ a \in Nat /\ b \in Nat
        /\ Cardinality(Below(a)) = j - 1 /\ Cardinality(Below(b)) = k - 1
    BY <1>1, <1>9
  <2> HIDE DEF a, b
  <2>2. ~(b < a) /\ a # b
    BY <1>1, <1>7, <1>10, <2>1
  <2>3. a < b
    BY <2>1, <2>2
  <2> QED BY <2>3 DEF a, b
<1>11. ASSUME NEW x \in S PROVE \E k \in 1..n : Kth(S, k) = x
  <2> DEFINE k == Cardinality(Below(x)) + 1
  <2>1. k \in 1..n /\ k - 1 = Cardinality(Below(x))
    BY <1>1, <1>6
  <2> HIDE DEF k
  <2>2. Kth(S, k) \in S /\ Cardinality(Below(Kth(S, k))) = Cardinality(Below(x))
    BY <1>9, <2>1
  <2> DEFINE z == Kth(S, k)
  <2>3. /\ z \in S /\ z \in Nat /\ x \in Nat
        /\ Cardinality(Below(x)) \in Nat /\ Cardinality(Below(z)) = Cardinality(Below(x))
    BY <1>1, <1>6, <2>2
  <2> HIDE DEF z
  <2>4. ~(z < x) /\ ~(x < z)
    BY <1>7, <2>3
  <2>5. z = x
    BY <2>3, <2>4
  <2> QED BY <2>1, <2>5 DEF z
<1> QED BY <1>1, <1>9, <1>10, <1>11 DEF n

(* What a field of the records in a sequence adds up to                    *)
FieldTotal(s, f) == FoldLeft(LAMBDA sum, p : sum + p[f], 0, s)

(* is the sum over all of them, whatever the order.                        *)
LEMMA FieldTotalSum ==
  ASSUME NEW E, NEW f, \A p \in E : p[f] \in Nat, NEW s \in Seq(E)
  PROVE  FieldTotal(s, f) = SumFunctionOnSet([k \in 1..Len(s) |-> s[k][f]], 1..Len(s))
<1> DEFINE n == Len(s)
           Eq(h) == h = [T \in SUBSET DOMAIN s |->
                     IF T = {} THEN 0 ELSE h[T \ {Max(T)}] + s[Max(T)][f]]
           op == [p \in Nat \X E |-> p[1] + p[2][f]]
           V == Nat
           base == 0
           g == CHOOSE h : Eq(h)
<1>1. FieldTotal(s, f) = g[DOMAIN s]
  BY DEF FieldTotal, FoldLeft, MapThenFoldSet
<1>2. n \in Nat /\ DOMAIN s = 1..n
  OBVIOUS
<1>3. /\ StaysIn(op, V, E) /\ base \in V
      /\ \A v \in Nat, p \in E : op[<<v, p>>] = v + p[f]
  BY DEF StaysIn
<1> HIDE DEF op, V, base
<1>4. PICK h : LeftFolds(h, op, base, s) /\ \A T \in SUBSET DOMAIN s : h[T] \in V
  BY <1>3, LeftFoldExists
<1>5. ASSUME NEW T \in SUBSET DOMAIN s, T # {}
      PROVE  op[<<h[T \ {Max(T)}], s[Max(T)]>>] = h[T \ {Max(T)}] + s[Max(T)][f]
  <2>1. s[Max(T)] \in E /\ h[T \ {Max(T)}] \in V
    BY <1>4, <1>5, MaxIndex
  <2> QED BY <1>3, <2>1 DEF V
<1>6. Eq(h)
  BY <1>4, <1>5 DEF LeftFolds, base
<1>7. Eq(g)
  BY <1>6
<1> HIDE DEF g
<1>8. g[{}] = base /\ FoldsWithin(g, V, op, s)
  <2>1. g[{}] = base /\ \A T \in SUBSET DOMAIN s : T # {} => g[T] = g[T \ {Max(T)}] + s[Max(T)][f]
    BY <1>7 DEF base
  <2>2. ASSUME NEW T \in SUBSET DOMAIN s, T # {}, g[T \ {Max(T)}] \in V
        PROVE  g[T] = op[<<g[T \ {Max(T)}], s[Max(T)]>>]
    <3>1. s[Max(T)] \in E
      BY <2>2, MaxIndex
    <3> QED BY <1>3, <2>1, <2>2, <3>1 DEF V
  <2> QED BY <2>1, <2>2 DEF FoldsWithin
<1>9. PICK r : FoldValues(r, base, op, s, V) /\ g[DOMAIN s] = r[Len(s)]
  BY <1>3, <1>8, FoldRuns
<1>10. \A k \in 1..n : k - 1 \in 0..n /\ s[k] \in E
  OBVIOUS
<1>11. r[0] = 0 /\ \A k \in 1..n : r[k] = r[k - 1] + s[k][f]
  BY <1>3, <1>9, <1>10 DEF FoldValues, V, base
<1> DEFINE y == [k \in 1..n |-> s[k][f]]
<1>12. y \in [1..n -> Nat] /\ DOMAIN y = 1..n /\ \A k \in 1..n : y[k] = s[k][f]
  BY <1>10
<1> HIDE DEF y, n
<1>13. r[n] = SumFunction(y)
  <2>1. \A k \in 1..n : r[k] = r[k - 1] + y[k]
    BY <1>11, <1>12
  <2> QED BY <1>2, <1>11, <1>12, <2>1, AddedUp
<1> QED BY <1>1, <1>9, <1>12, <1>13 DEF SumFunction, y, n

(* So with the points of a line.                                           *)
Points == [X : Nat, Y : Nat]

LineTotal(line) == FoldLeft(LAMBDA sum, p : sum + p.Y, 0, line)

LEMMA LineTotalSum ==
  ASSUME NEW s \in Seq(Points)
  PROVE  LineTotal(s) = SumFunctionOnSet([k \in 1..Len(s) |-> s[k].Y], 1..Len(s))
<1>1. \A p \in Points : p["Y"] \in Nat
  BY DEF Points
<1>2. FieldTotal(s, "Y") = SumFunctionOnSet([k \in 1..Len(s) |-> s[k]["Y"]], 1..Len(s))
  BY <1>1, FieldTotalSum
<1> QED BY <1>2 DEF FieldTotal, LineTotal

(* Values in another order have the same sum.                              *)
LEMMA SumRearranged ==
  ASSUME NEW A, IsFiniteSet(A), NEW B, NEW f \in [A -> B],
         \A x, y \in A : f[x] = f[y] => x = y,
         \A y \in B : \E x \in A : f[x] = y,
         NEW g, \A y \in B : g[y] \in Nat,
         NEW h, \A x \in A : h[x] = g[f[x]]
  PROVE  SumFunctionOnSet(h, A) = SumFunctionOnSet(g, B)
<1>1. {f[x] : x \in A} = B
  OBVIOUS
<1>2. SumFunctionOnSet(h, A) = SumFunctionOnSet(g, {f[x] : x \in A})
  BY SumMoved
<1> QED BY <1>1, <1>2

(* The points of some datapoints are a line that shows all of them.        *)
LEMMA PerSecondOK ==
  ASSUME NEW s \in Seq(Datapoints)
  PROVE  LineOf(PerSecond(s), Len(s))
<1> DEFINE u == [i \in DOMAIN s |-> Offset(s[i])]
           S == Seconds(s)
           m == Cardinality(S)
           K == [k \in 1..m |-> Kth(S, k)]
           C == [x \in S |-> Cardinality({i \in DOMAIN s : Offset(s[i]) = x})]
           line == PerSecond(s)
<1>1. \A d \in Datapoints : Offset(d) \in Nat
  <2>1. \A a \in Nat, t \in Nat \ {0} : a \div t \in Nat
    OBVIOUS
  <2>2. \A d \in Datapoints : BenchStart + d.at \in Nat
    BY PlotsAssumption DEF Datapoints
  <2> QED BY <2>1, <2>2, PlotsAssumption DEF Offset
<1>2. u \in Seq(Nat) /\ Len(u) = Len(s) /\ DOMAIN u = DOMAIN s
  BY <1>1
<1>3. ToSet(u) = S
  BY DEF ToSet, Seconds
<1>4. ToBag(u) = C
  <2>1. ToSet(u) = Range(u)
    BY DEF ToSet, Range
  <2>2. ToBag(u) = [x \in S |-> Cardinality({i \in DOMAIN u : u[i] = x})]
    BY <1>3, <2>1 DEF ToBag
  <2>3. \A x : {i \in DOMAIN u : u[i] = x} = {i \in DOMAIN s : Offset(s[i]) = x}
    OBVIOUS
  <2> QED BY <2>2, <2>3
<1>5. S \in SUBSET Nat /\ IsFiniteSet(S)
  <2>1. S \in SUBSET Nat
    BY <1>1 DEF Seconds, ToSet
  <2>2. u \in Surjection(1..Len(s), S)
    BY DEF Surjection, Seconds, ToSet
  <2> HIDE DEF u, S
  <2>3. IsFiniteSet(1..Len(s))
    BY FS_Interval
  <2> QED BY <2>1, <2>2, <2>3, FS_Surjection
<1>6. \A x \in S : C[x] \in Nat \ {0} /\ C[x] = Cardinality({i \in DOMAIN s : Offset(s[i]) = x})
  <2> TAKE x \in S
  <2> DEFINE A == {i \in DOMAIN s : Offset(s[i]) = x}
  <2>1. A \in SUBSET (1..Len(s)) /\ A # {}
    BY DEF Seconds, ToSet
  <2>2. IsFiniteSet(1..Len(s))
    BY FS_Interval
  <2>3. C[x] = Cardinality(A)
    OBVIOUS
  <2> HIDE DEF A, C
  <2>4. IsFiniteSet(A)
    BY <2>1, <2>2, FS_Subset
  <2>5. Cardinality(A) \in Nat /\ Cardinality(A) # 0
    BY <2>1, <2>4, FS_CardinalityType, FS_EmptySet
  <2> QED BY <2>3, <2>5 DEF A
<1>7. line = [k \in 1..m |->
                [X |-> Kth(S, k), Y |-> Cardinality({i \in DOMAIN s : Offset(s[i]) = Kth(S, k)})]]
  BY DEF PerSecond, Count, Seconds
<1> HIDE DEF S, C, u, line
<1>8. /\ m \in Nat
      /\ \A k \in 1..m : Kth(S, k) \in S
      /\ \A j, k \in 1..m : j < k => Kth(S, j) < Kth(S, k)
      /\ \A x \in S : \E k \in 1..m : Kth(S, k) = x
  BY <1>5, KthOK
<1> HIDE DEF m
<1>9. /\ line \in Seq(Points) /\ Len(line) = m /\ DOMAIN line = 1..m
      /\ \A k \in 1..m : line[k].X = Kth(S, k) /\ line[k].Y = C[Kth(S, k)]
  <2>1. \A k \in 1..m : /\ [X |-> Kth(S, k),
                            Y |-> Cardinality({i \in DOMAIN s : Offset(s[i]) = Kth(S, k)})]
                             \in Points
                        /\ C[Kth(S, k)]
                             = Cardinality({i \in DOMAIN s : Offset(s[i]) = Kth(S, k)})
    BY <1>5, <1>6, <1>8 DEF Points
  <2> QED BY <1>7, <1>8, <2>1
<1>10. LineTotal(line) = Len(s)
  <2> DEFINE heights == [k \in 1..Len(line) |-> line[k].Y]
             I == 1..m
  <2>1. heights = [k \in I |-> C[Kth(S, k)]]
    BY <1>9
  <2>2. LineTotal(line) = SumFunctionOnSet(heights, I)
    BY <1>9, LineTotalSum
  <2>3. K \in [I -> S] /\ \A x \in S : \E k \in I : K[k] = x
    BY <1>8
  <2>4. \A j, k \in I : K[j] = K[k] => j = k
    <3> SUFFICES ASSUME NEW j \in I, NEW k \in I, K[j] = K[k], j # k PROVE FALSE
      OBVIOUS
    <3>1. j < k \/ k < j
      BY <1>8
    <3>2. K[j] \in Nat /\ K[k] \in Nat /\ K[j] = Kth(S, j) /\ K[k] = Kth(S, k)
      BY <1>5, <1>8
    <3> QED BY <1>8, <3>1, <3>2
  <2>5. /\ \A k \in I : heights[k] = C[K[k]]
        /\ \A x \in S : C[x] \in Nat
        /\ IsFiniteSet(I)
    <3>1. IsFiniteSet(I)
      BY <1>8, FS_Interval
    <3>2. \A k \in I : heights[k] = C[Kth(S, k)] /\ K[k] = Kth(S, k)
      BY <2>1
    <3>3. \A x \in S : C[x] \in Nat
      BY <1>6
    <3> HIDE DEF heights, I, K
    <3> QED BY <3>1, <3>2, <3>3
  <2> HIDE DEF heights, I, K
  <2>6. SumFunctionOnSet(heights, I) = SumFunctionOnSet(C, S)
    BY <2>3, <2>4, <2>5, SumRearranged
  <2>7. SumFunctionOnSet(C, S) = BagCardinality(ToBag(u))
    <3>1. BagCardinality(C) = SumFunctionOnSet(C, DOMAIN C)
      BY DEF BagCardinality, SumFunctionOnSet, FoldFunctionOnSet, MapThenFoldSet
    <3>2. DOMAIN C = S
      BY DEF C
    <3> QED BY <1>4, <3>1, <3>2
  <2>8. BagCardinality(ToBag(u)) = Len(s)
    BY <1>2, SequenceBag
  <2> QED BY <2>2, <2>6, <2>7, <2>8
<1>11. \A j, k \in DOMAIN line : j < k => line[j].X < line[k].X
  BY <1>8, <1>9
<1>12. \A k \in DOMAIN line : line[k].Y > 0
  <2> TAKE k \in DOMAIN line
  <2>1. k \in 1..m /\ line[k].Y = C[Kth(S, k)] /\ C[Kth(S, k)] \in Nat \ {0}
    BY <1>6, <1>8, <1>9
  <2>2. PICK i \in Nat \ {0} : i = C[Kth(S, k)]
    BY <2>1
  <2>3. i > 0
    BY <2>2
  <2> QED BY <2>1, <2>2, <2>3
<1> QED BY <1>10, <1>11, <1>12 DEF LineOf, LineTotal, line

(* As many datapoints as the counters say.                                 *)
Counted(t) ==
  /\ Len(t.Errors) = t.IOError
  /\ Len(t.Timings) = t.Success + t.Negative + t.Error

(* Merge keeps that of the workers.                                        *)
LEMMA TotalsCounted ==
  ASSUME NEW rs \in [Index -> WorkerResults], \A k \in Index : Accounted(rs[k])
  PROVE  Counted(FoldLeft(MergeOne, Empty, rs))
<1> DEFINE n == Len(Workers)
           t == FoldLeft(MergeOne, Empty, rs)
<1>1. n \in Nat /\ Index = 1..n
  BY WorkersNumbered
<1>2. rs \in Seq(WorkerResults) /\ Len(rs) = n
  BY <1>1
<1> HIDE DEF n
<1>3. PICK r : /\ r[0] = Empty
               /\ \A k \in 1..n : r[k] = MergeOne(r[k - 1], rs[k])
               /\ \A k \in 0..n : r[k] \in Totals
               /\ t = r[n]
  BY <1>2, MergeFold
<1> DEFINE P == {k \in 0..n : Counted(r[k])}
<1>4. 0 \in P
  <2>1. /\ Empty.Errors = << >> /\ Empty.Timings = << >> /\ Empty.IOError = 0
        /\ Empty.Success = 0 /\ Empty.Negative = 0 /\ Empty.Error = 0
    BY EmptyType DEF NewResultStats
  <2>2. Counted(Empty)
    BY <2>1 DEF Counted
  <2> QED BY <1>1, <1>3, <2>2
<1>5. ASSUME NEW k \in 1..n, k - 1 \in P PROVE k \in P
  <2> DEFINE a == r[k - 1]
             b == rs[k]
  <2>1. /\ k - 1 \in 0..n /\ k \in 0..n /\ a \in Totals /\ b \in WorkerResults
        /\ r[k] = MergeOne(a, b) /\ Accounted(b) /\ Counted(a)
    BY <1>1, <1>3, <1>5
  <2> HIDE DEF a, b
  <2> DEFINE c == MergeOne(a, b)
  <2>2. /\ c.Errors = a.Errors \o b.Errors /\ c.Timings = a.Timings \o b.Timings
        /\ c.IOError = a.IOError + b.IOError /\ c.Success = a.Success + b.Success
        /\ c.Negative = a.Negative + b.Negative /\ c.Error = a.Error + b.Error
    BY DEF MergeOne
  <2>3. /\ a.Errors \in Seq(ErrorRecords) /\ b.Errors \in Seq(ErrorRecords)
        /\ a.Timings \in Seq(Datapoints) /\ b.Timings \in Seq(Datapoints)
    BY <2>1 DEF Totals, WorkerResults, Stats, ErrorRecords
  <2>4. /\ a.Success \in Nat /\ a.Negative \in Nat /\ a.Error \in Nat /\ a.IOError \in Nat
        /\ b.Success \in Nat /\ b.Negative \in Nat /\ b.Error \in Nat /\ b.IOError \in Nat
    BY <2>1 DEF Totals, WorkerResults, Stats
  <2> HIDE DEF c
  <2>5. Len(c.Errors) = Len(a.Errors) + Len(b.Errors)
    BY <2>2, <2>3
  <2>6. Len(c.Timings) = Len(a.Timings) + Len(b.Timings)
    BY <2>2, <2>3
  <2>7. /\ Len(a.Errors) = a.IOError /\ Len(b.Errors) = b.IOError
        /\ Len(a.Timings) = a.Success + a.Negative + a.Error
        /\ Len(b.Timings) = b.Success + b.Negative + b.Error
    BY <2>1 DEF Counted, Accounted, DatapointsMatchCounters
  <2>8. Len(c.Errors) = c.IOError
    BY <2>2, <2>5, <2>7
  <2>9. Len(c.Timings) = c.Success + c.Negative + c.Error
    <3>1. \A u, v, w, x, y, z \in Nat : (u + v + w) + (x + y + z) = (u + x) + (v + y) + (w + z)
      OBVIOUS
    <3>2. (a.Success + a.Negative + a.Error) + (b.Success + b.Negative + b.Error)
            = (a.Success + b.Success) + (a.Negative + b.Negative) + (a.Error + b.Error)
      BY <2>4, <3>1
    <3> QED BY <2>2, <2>6, <2>7, <3>2
  <2> QED BY <2>1, <2>8, <2>9 DEF c, Counted
<1> HIDE DEF P
<1>6. \A k \in 0..n : k \in P
  BY <1>1, <1>4, <1>5, PrefixInduction
<1>7. n \in P
  BY <1>1, <1>6
<1> QED BY <1>3, <1>7 DEF P, t

(* In merged results too the histogram holds what it can.                  *)
LEMMA TotalsInRange ==
  ASSUME NEW rs \in [Index -> WorkerResults], \A k \in Index : HistFits(rs[k])
  PROVE  HistFits(FoldLeft(MergeOne, Empty, rs))
<1> DEFINE n == Len(Workers)
           t == FoldLeft(MergeOne, Empty, rs)
<1>1. n \in Nat /\ Index = 1..n
  BY WorkersNumbered
<1>2. rs \in Seq(WorkerResults) /\ Len(rs) = n
  BY <1>1
<1> HIDE DEF n
<1>3. PICK r : /\ r[0] = Empty
               /\ \A k \in 1..n : r[k] = MergeOne(r[k - 1], rs[k])
               /\ \A k \in 0..n : r[k] \in Totals
               /\ t = r[n]
  BY <1>2, MergeFold
<1> DEFINE P == {k \in 0..n : HistFits(r[k])}
<1>4. 0 \in P
  <2>1. /\ Empty.Timings = NewResultStats.Timings /\ Empty.Hist = NewResultStats.Hist
    BY EmptyType DEF NewResultStats
  <2>2. HistFits(Empty)
    BY <2>1, HistFitsNew DEF HistFits
  <2> QED BY <1>1, <1>3, <2>2
<1>5. ASSUME NEW k \in 1..n, k - 1 \in P PROVE k \in P
  <2> DEFINE a == r[k - 1]
             b == rs[k]
  <2>1. /\ k - 1 \in 0..n /\ k \in 0..n /\ a \in Totals /\ b \in WorkerResults
        /\ r[k] = MergeOne(a, b) /\ HistFits(b) /\ HistFits(a)
    BY <1>1, <1>3, <1>5
  <2> HIDE DEF a, b
  <2>2. /\ MergeOne(a, b).Timings = a.Timings \o b.Timings
        /\ MergeOne(a, b).Hist = a.Hist + b.Hist
    BY DEF MergeOne
  <2>3. a.Timings \in Seq(Datapoints) /\ b.Timings \in Seq(Datapoints)
    BY <2>1 DEF Totals, WorkerResults, Stats
  <2>4. InRange(a.Timings \o b.Timings) = InRange(a.Timings) + InRange(b.Timings)
    BY <2>3, InRangeConcat
  <2>5. HistFits(r[k])
    BY <2>1, <2>2, <2>4 DEF HistFits
  <2> QED BY <2>1, <2>5
<1> HIDE DEF P
<1>6. \A k \in 0..n : k \in P
  BY <1>1, <1>4, <1>5, PrefixInduction
<1>7. n \in P
  BY <1>1, <1>6
<1> QED BY <1>3, <1>7 DEF P, t

(* What Merge puts in order are datapoints.                                *)
LEMMA DatapointsType ==
  ASSUME MergeInv
  PROVE  /\ Merged.Timings \in Seq(Datapoints) /\ Merged.Errors \in Seq(ErrorRecords)
         /\ \A d : Occurrences(Merged.Timings, d)
                    = Occurrences(FoldLeft(MergeOne, Empty, results).Timings, d)
<1> DEFINE t == FoldLeft(MergeOne, Empty, results)
           a == Merged.Timings
           b == Merged.Errors
<1>1. results \in [Index -> WorkerResults]
  BY DEF MergeInv, Typed
<1>2. t \in Totals
  BY <1>1, TotalsAdd
<1>3. t.Timings \in Seq(Datapoints) /\ t.Errors \in Seq(ErrorRecords)
  BY <1>2 DEF Totals, ErrorRecords
<1> HIDE DEF t
<1> DEFINE atA == [d \in Datapoints |-> d.at]
           atB == [e \in ErrorRecords |-> e.start.at]
<1>4. atA \in [Datapoints -> Nat] /\ atB \in [ErrorRecords -> Nat]
  BY DEF Datapoints, ErrorRecords
<1>5. a = SortedBy(t.Timings, [d \in ToSet(t.Timings) |-> d.at])
      /\ b = SortedBy(t.Errors, [e \in ToSet(t.Errors) |-> e.start.at])
  BY <1>2, MergeFields DEF Merged, t
<1>6. a = Ordered(t.Timings, atA) /\ b = Ordered(t.Errors, atB)
  <2>1. \A d \in ToSet(t.Timings) : atA[d] = d.at
    BY <1>3 DEF ToSet
  <2>2. \A e \in ToSet(t.Errors) : atB[e] = e.start.at
    BY <1>3 DEF ToSet
  <2> HIDE DEF atA, atB, a, b
  <2> QED BY <1>5, <2>1, <2>2 DEF Ordered
<1> HIDE DEF atA, atB, a, b
<1>7. /\ a \in Seq(Datapoints) /\ b \in Seq(ErrorRecords)
      /\ \A d : Occurrences(a, d) = Occurrences(t.Timings, d)
  BY <1>3, <1>4, <1>6, InOrderOf
<1> QED BY <1>7 DEF a, b, t

(* Both lines of a run show all that whole has counted.                    *)
LEMMA LinesOfRun == MergeInv => LinesShowEverything
<1> SUFFICES ASSUME MergeInv PROVE LinesShowEverything
  OBVIOUS
<1> DEFINE t == FoldLeft(MergeOne, Empty, results)
           a == Merged.Timings
           b == Merged.Errors
<1>1. results \in [Index -> WorkerResults] /\ \A k \in Index : Accounted(results[k])
  BY DEF MergeInv, Typed
<1>2. t \in Totals /\ Counted(t)
  BY <1>1, TotalsAdd, TotalsCounted
<1>3. t.Timings \in Seq(Datapoints) /\ t.Errors \in Seq(ErrorRecords)
  BY <1>2 DEF Totals, ErrorRecords
<1> HIDE DEF t
<1>4. a \in Seq(Datapoints) /\ b \in Seq(ErrorRecords)
  BY DatapointsType
<1>5. ASSUME NEW f \in Datasets, NEW X, t[f] \in Seq(X), NEW m \in Seq(X), ToBag(m) = whole[f]
      PROVE  Len(m) = Len(t[f])
  <2>1. IsABag(whole[f]) /\ \A d : Occurrences(t[f], d) = Copies(d, whole[f])
    BY <1>1, <1>5, TotalsAdd DEF MergeInv, Tally, t
  <2>2. IsABag(ToBag(t[f])) /\ \A d : Copies(d, ToBag(t[f])) = Occurrences(t[f], d)
    BY <1>5, ToBagOK
  <2>3. ToBag(t[f]) = whole[f]
    BY <2>1, <2>2, SameBag
  <2>4. BagCardinality(ToBag(m)) = Len(m) /\ BagCardinality(ToBag(t[f])) = Len(t[f])
    BY <1>5, SequenceBag
  <2> QED BY <1>5, <2>3, <2>4
<1>6. MergeCountsEverythingOnce
  BY MergeCounts
<1>7. Len(a) = Len(t.Timings) /\ Len(b) = Len(t.Errors)
  <2>1. ToBag(a) = whole["Timings"] /\ ToBag(b) = whole["Errors"]
    BY <1>6 DEF MergeCountsEverythingOnce
  <2>2. "Timings" \in Datasets /\ "Errors" \in Datasets
    BY DEF Datasets
  <2> HIDE DEF a, b
  <2> QED BY <1>3, <1>4, <1>5, <2>1, <2>2
<1>8. Counted(t) /\ \A f \in {"IOError", "Success", "Negative", "Error"} : whole[f] = t[f]
  <2>1. \A f \in {"IOError", "Success", "Negative", "Error"} :
          f \in Scalars \union Tables /\ f \in Counts
    BY DEF Scalars, Counts
  <2>2. \A f \in Scalars \union Tables : Merged[f] = t[f]
    BY <1>2, MergeFields DEF Merged, t
  <2> QED BY <1>2, <1>6, <2>1, <2>2 DEF MergeCountsEverythingOnce
<1>9. /\ Len(a) = whole.Success + whole.Negative + whole.Error
      /\ Len(b) = whole.IOError
  BY <1>7, <1>8 DEF Counted
<1> HIDE DEF a, b
<1>10. LineOf(PerSecond(a), Len(a))
  BY <1>4, PerSecondOK
<1> DEFINE c == [k \in DOMAIN b |-> b[k].start]
<1>11. c \in Seq(Datapoints) /\ Len(c) = Len(b)
  <2>1. /\ DOMAIN b = 1..Len(b) /\ Len(b) \in Nat
        /\ \A k \in 1..Len(b) : b[k] \in ErrorRecords
    BY <1>4
  <2>2. \A e \in ErrorRecords : e.start \in Datapoints
    BY DEF ErrorRecords
  <2> QED BY <2>1, <2>2
<1> HIDE DEF c
<1>12. LineOf(PerSecond(c), Len(b))
  BY <1>11, PerSecondOK
<1> QED BY <1>9, <1>10, <1>12 DEF LinesShowEverything, Throughput, ErrorRate, a, b, c

(* Whatever run it is, each line of the plots shows each of its datapoints *)
(* in exactly one second.                                                  *)
THEOREM LinesShowTheRun == Spec => []LinesShowEverything
BY WholeIsTheSum, LinesOfRun, PTL

(***************************************************************************)
(* The line of latencies.                                                  *)
(***************************************************************************)
Below(s, t) == Cardinality({k \in DOMAIN s : s[k] < t})

UpTo(s, t) == Cardinality({k \in DOMAIN s : s[k] <= t})

(* How many timings are smaller than t, and how many are not greater.      *)
LEMMA BelowUpTo ==
  ASSUME NEW s \in Seq(Nat), NEW t \in Nat
  PROVE  /\ Below(s, t) \in 0..Len(s) /\ UpTo(s, t) \in 0..Len(s)
         /\ \A u \in Nat : t < u => UpTo(s, t) <= Below(s, u)
         /\ \A u \in Nat : t <= u => UpTo(s, t) <= UpTo(s, u)
         /\ t \in ToSet(s) => Below(s, t) < UpTo(s, t)
         /\ (\A k \in DOMAIN s : s[k] <= t) => UpTo(s, t) = Len(s)
         /\ \A u \in Nat : (\A k \in DOMAIN s : s[k] < u => s[k] <= t) /\ t < u =>
              UpTo(s, t) = Below(s, u)
<1> DEFINE I == 1..Len(s)
           A(u) == {k \in DOMAIN s : s[k] < u}
           B(u) == {k \in DOMAIN s : s[k] <= u}
<1>1. DOMAIN s = I /\ Len(s) \in Nat /\ \A k \in I : s[k] \in Nat
  OBVIOUS
<1>2. IsFiniteSet(I) /\ Cardinality(I) = Len(s)
  BY <1>1, FS_Interval
<1>3. /\ A(t) \in SUBSET I /\ \A u \in Nat : B(u) \in SUBSET I /\ A(u) \in SUBSET I
      /\ \A u \in Nat : t < u => B(t) \in SUBSET A(u)
      /\ \A u \in Nat : t <= u => B(t) \in SUBSET B(u)
      /\ t \in ToSet(s) => A(t) \in SUBSET B(t) /\ A(t) # B(t)
      /\ (\A k \in DOMAIN s : s[k] <= t) => B(t) = I
      /\ \A u \in Nat : (\A k \in DOMAIN s : s[k] < u => s[k] <= t) /\ t < u => B(t) = A(u)
  <2>1. A(t) \in SUBSET I /\ \A u \in Nat : B(u) \in SUBSET I /\ A(u) \in SUBSET I
    BY <1>1
  <2>2. \A u \in Nat : t < u => B(t) \in SUBSET A(u)
    BY <1>1
  <2>3. \A u \in Nat : t <= u => B(t) \in SUBSET B(u)
    BY <1>1
  <2>4. ASSUME t \in ToSet(s) PROVE A(t) \in SUBSET B(t) /\ A(t) # B(t)
    <3>1. PICK k \in DOMAIN s : s[k] = t
      BY <2>4 DEF ToSet
    <3>2. k \in B(t) /\ k \notin A(t)
      BY <1>1, <3>1
    <3>3. A(t) \in SUBSET B(t)
      BY <1>1
    <3> HIDE DEF A, B
    <3> QED BY <3>2, <3>3
  <2>5. (\A k \in DOMAIN s : s[k] <= t) => B(t) = I
    BY <1>1
  <2>6. ASSUME NEW u \in Nat, \A k \in DOMAIN s : s[k] < u => s[k] <= t, t < u
        PROVE  B(t) = A(u)
    BY <1>1, <2>6
  <2> HIDE DEF A, B, I
  <2> QED BY <2>1, <2>2, <2>3, <2>4, <2>5, <2>6
<1>4. \A u : Below(s, u) = Cardinality(A(u)) /\ UpTo(s, u) = Cardinality(B(u))
  BY DEF Below, UpTo
<1> HIDE DEF A, B, I
<1>5. \A T \in SUBSET I : IsFiniteSet(T) /\ Cardinality(T) \in 0..Len(s)
  <2> TAKE T \in SUBSET I
  <2>1. IsFiniteSet(T) /\ Cardinality(T) <= Cardinality(I) /\ Cardinality(T) \in Nat
    BY <1>2, FS_Subset, FS_CardinalityType
  <2> QED BY <1>1, <1>2, <2>1
<1>6. ASSUME NEW T \in SUBSET I, NEW U \in SUBSET T
      PROVE  Cardinality(U) <= Cardinality(T) /\ (U # T => Cardinality(U) # Cardinality(T))
  <2>1. IsFiniteSet(T)
    BY <1>5
  <2>2. Cardinality(U) <= Cardinality(T) /\ (Cardinality(U) = Cardinality(T) => U = T)
    BY <2>1, FS_Subset
  <2> QED BY <2>2
<1>7. t \in ToSet(s) => Cardinality(A(t)) < Cardinality(B(t))
  <2> SUFFICES ASSUME t \in ToSet(s) PROVE Cardinality(A(t)) < Cardinality(B(t))
    OBVIOUS
  <2>1. A(t) \in SUBSET I /\ B(t) \in SUBSET I /\ A(t) \in SUBSET B(t) /\ A(t) # B(t)
    BY <1>3
  <2>2. Cardinality(A(t)) <= Cardinality(B(t)) /\ Cardinality(A(t)) # Cardinality(B(t))
    BY <1>6, <2>1
  <2>3. Cardinality(A(t)) \in Nat /\ Cardinality(B(t)) \in Nat
    BY <1>1, <1>5, <2>1
  <2> QED BY <2>2, <2>3
<1>8. Below(s, t) \in 0..Len(s) /\ UpTo(s, t) \in 0..Len(s)
  BY <1>3, <1>4, <1>5
<1>9. \A u \in Nat : /\ t < u => Cardinality(B(t)) <= Cardinality(A(u))
                     /\ t <= u => Cardinality(B(t)) <= Cardinality(B(u))
  BY <1>3, <1>6
<1>10. (\A k \in DOMAIN s : s[k] <= t) => Cardinality(B(t)) = Len(s)
  BY <1>2, <1>3
<1> QED BY <1>3, <1>4, <1>7, <1>8, <1>9, <1>10

(* There is a timing of each rank.                                         *)
LEMMA RankedOK ==
  ASSUME NEW s \in Seq(Nat), NEW i \in 1..Len(s)
  PROVE  LET t == Ranked(s, i) IN
         t \in ToSet(s) /\ t \in Nat /\ Below(s, t) < i /\ UpTo(s, t) >= i
<1> DEFINE n == Len(s)
           K == {k \in 1..n : UpTo(s, s[k]) >= i}
           f == [k \in K |-> n - UpTo(s, s[k])]
<1>1. n \in Nat /\ DOMAIN s = 1..n /\ (\A k \in 1..n : s[k] \in Nat) /\ IsFiniteSet(1..n)
  <2>1. n \in Nat /\ DOMAIN s = 1..n /\ (\A k \in 1..n : s[k] \in Nat)
    OBVIOUS
  <2> HIDE DEF n
  <2>2. IsFiniteSet(1..n)
    BY <2>1, FS_Interval
  <2> QED BY <2>1, <2>2
<1>2. \A k \in 1..n : /\ UpTo(s, s[k]) \in 0..n /\ Below(s, s[k]) \in 0..n
                      /\ Below(s, s[k]) < UpTo(s, s[k])
  BY <1>1, BelowUpTo DEF ToSet
<1>3. PICK a \in 1..n : \A k \in 1..n : s[k] <= s[a]
  <2>1. 1..n # {}
    OBVIOUS
  <2> HIDE DEF n
  <2> QED BY <1>1, <2>1, GreatestValue
<1>4. a \in K
  <2>1. UpTo(s, s[a]) = n
    BY <1>1, <1>3, BelowUpTo
  <2> QED BY <1>1, <2>1
<1>5. IsFiniteSet(K) /\ K # {} /\ \A k \in K : f[k] \in Nat
  <2>1. K \in SUBSET (1..n)
    OBVIOUS
  <2>2. \A k \in K : f[k] \in Nat
    <3>1. \A k \in K : UpTo(s, s[k]) \in 0..n
      BY <1>2
    <3> HIDE DEF n, K
    <3> QED BY <1>1, <3>1
  <2> HIDE DEF K
  <2> QED BY <1>1, <1>4, <2>1, <2>2, FS_Subset
<1>6. PICK b \in K : \A k \in K : f[k] <= f[b]
  <2> HIDE DEF K, f
  <2> QED BY <1>5, GreatestValue
<1>7. b \in 1..n /\ UpTo(s, s[b]) >= i /\ \A k \in K : UpTo(s, s[b]) <= UpTo(s, s[k])
  <2>1. \A k \in K : f[k] = n - UpTo(s, s[k]) /\ UpTo(s, s[k]) \in Nat /\ k \in 1..n
    BY <1>2
  <2> HIDE DEF f
  <2>2. \A k \in K : UpTo(s, s[b]) <= UpTo(s, s[k])
    BY <1>1, <1>6, <2>1
  <2> QED BY <2>2
<1>8. Below(s, s[b]) < i
  <2> SUFFICES ASSUME Below(s, s[b]) >= i PROVE FALSE
    BY <1>2, <1>7
  <2> DEFINE J == {k \in 1..n : s[k] < s[b]}
             g == [k \in J |-> s[k]]
  <2>1. J \in SUBSET (1..n) /\ Below(s, s[b]) = Cardinality(J) /\ \A k \in J : g[k] \in Nat
    BY <1>1 DEF Below
  <2>2. IsFiniteSet(J) /\ J # {}
    <3> HIDE DEF J
    <3>1. IsFiniteSet(J)
      BY <1>1, <2>1, FS_Subset
    <3>2. Cardinality(J) # 0
      BY <2>1
    <3> QED BY <3>1, <3>2, FS_EmptySet
  <2>3. PICK c \in J : \A k \in J : g[k] <= g[c]
    <3> HIDE DEF J, g
    <3> QED BY <2>1, <2>2, GreatestValue
  <2>4. c \in 1..n /\ s[c] < s[b] /\ \A k \in 1..n : s[k] < s[b] => s[k] <= s[c]
    BY <2>3
  <2>5. UpTo(s, s[c]) = Below(s, s[b])
    BY <1>1, <1>7, <2>4, BelowUpTo
  <2>6. c \in K
    BY <2>4, <2>5
  <2>7. UpTo(s, s[b]) <= Below(s, s[b])
    BY <1>7, <2>5, <2>6
  <2> QED BY <1>2, <1>7, <2>7
<1>9. s[b] \in ToSet(s)
  BY <1>1, <1>7 DEF ToSet
<1>10. Ranked(s, i) = CHOOSE t \in ToSet(s) : Below(s, t) < i /\ UpTo(s, t) >= i
  BY DEF Ranked, Below, UpTo
<1>11. \E t \in ToSet(s) : Below(s, t) < i /\ UpTo(s, t) >= i
  BY <1>7, <1>8, <1>9
<1>12. ToSet(s) \in SUBSET Nat
  BY <1>1 DEF ToSet
<1> QED BY <1>10, <1>11, <1>12

(* Greater ranks have greater timings.                                     *)
LEMMA RankedMonotone ==
  ASSUME NEW s \in Seq(Nat), NEW i \in 1..Len(s), NEW j \in 1..Len(s), i <= j
  PROVE  Ranked(s, i) <= Ranked(s, j)
<1> DEFINE t == Ranked(s, i)
           u == Ranked(s, j)
<1>1. /\ t \in Nat /\ u \in Nat
      /\ Below(s, t) < i /\ UpTo(s, u) >= j
  BY RankedOK
<1> HIDE DEF t, u
<1>2. u < t => UpTo(s, u) <= Below(s, t)
  BY <1>1, BelowUpTo
<1>3. UpTo(s, u) \in Nat /\ Below(s, t) \in Nat
  BY <1>1, BelowUpTo
<1>4. t <= u
  BY <1>1, <1>2, <1>3
<1> QED BY <1>4 DEF t, u

(* A percentile is twice the mean of the ranks around it.                  *)
LEMMA PercentileMeans ==
  ASSUME NEW s \in Seq(Nat), Len(s) >= 1, NEW p \in Percentages
  PROVE  \E i, j \in 1..Len(s) :
           /\ 100 * i <= p * Len(s) \/ (Len(s) = 1 /\ i = 1)
           /\ p * Len(s) < 100 * (i + 1)
           /\ 100 * (j - 1) < p * Len(s) /\ p * Len(s) <= 100 * j
           /\ Percentile(s, p) = Ranked(s, i) + Ranked(s, j)
<1> DEFINE n == Len(s)
           index == p * n
           i == index \div 100
<1>1. n \in Nat /\ n >= 1 /\ s[1] \in Nat /\ DOMAIN s = 1..n
  OBVIOUS
<1>2. CASE n = 1
  <2>1. Ranked(s, 1) = s[1]
    <3>1. Ranked(s, 1) \in ToSet(s)
      BY <1>1, RankedOK
    <3> QED BY <1>1, <1>2, <3>1 DEF ToSet
  <2>2. Percentile(s, p) = 2 * s[1]
    BY <1>2 DEF Percentile
  <2>3. Percentile(s, p) = Ranked(s, 1) + Ranked(s, 1)
    BY <1>1, <2>1, <2>2
  <2>4. p * n < 100 * (1 + 1) /\ 100 * (1 - 1) < p * n /\ p * n <= 100 * 1
    BY <1>2 DEF Percentages
  <2> QED BY <1>1, <1>2, <2>3, <2>4
<1>3. CASE n >= 2
  <2>1. index \in Nat /\ index >= 100 /\ index < 100 * n
    BY <1>1, <1>3 DEF Percentages
  <2> DEFINE r == index % 100
  <2>2. /\ i \in Nat /\ r \in 0..99 /\ index = 100 * i + r
    <3>1. index \in Nat
      BY <2>1
    <3> HIDE DEF index
    <3> QED BY <3>1
  <2>3. Percentile(s, p) = IF r = 0 THEN 2 * Ranked(s, i)
                           ELSE IF index > 100 THEN Ranked(s, i) + Ranked(s, i + 1)
                           ELSE None
    BY <1>1, <1>3 DEF Percentile
  <2> HIDE DEF i, index, n, r
  <2>4. i \in 1..n /\ (r # 0 => i + 1 \in 1..n /\ index > 100)
    BY <1>1, <2>1, <2>2
  <2>5. CASE r = 0
    <3>1. Ranked(s, i) \in Nat
      BY <2>4, RankedOK DEF n
    <3>2. Percentile(s, p) = Ranked(s, i) + Ranked(s, i)
      BY <2>3, <2>5, <3>1
    <3>3. 100 * i <= index /\ index < 100 * (i + 1) /\ 100 * (i - 1) < index /\ index <= 100 * i
      BY <2>2, <2>5
    <3> QED BY <2>4, <3>2, <3>3 DEF n, index
  <2>6. CASE r # 0
    <3> DEFINE j == i + 1
    <3>1. Percentile(s, p) = Ranked(s, i) + Ranked(s, j)
      BY <2>3, <2>4, <2>6
    <3>2. 100 * i <= index /\ index < 100 * (i + 1) /\ 100 * (j - 1) < index /\ index <= 100 * j
      BY <2>2, <2>6
    <3>3. j \in 1..n
      BY <2>4, <2>6
    <3> HIDE DEF j
    <3> QED BY <2>4, <3>1, <3>2, <3>3 DEF n, index
  <2> QED BY <2>5, <2>6
<1> QED BY <1>1, <1>2, <1>3

(* So the percentages are in order.                                        *)
LEMMA PercentagesInOrder ==
  ASSUME NEW s \in Seq(Nat), Len(s) >= 1,
         NEW p \in Percentages, NEW q \in Percentages, p <= q
  PROVE  Percentile(s, p) \in Nat /\ Percentile(s, p) <= Percentile(s, q)
<1> DEFINE n == Len(s)
<1>1. PICK i \in 1..n, j \in 1..n :
        /\ 100 * i <= p * n \/ (n = 1 /\ i = 1)
        /\ p * n < 100 * (i + 1)
        /\ 100 * (j - 1) < p * n /\ p * n <= 100 * j
        /\ Percentile(s, p) = Ranked(s, i) + Ranked(s, j)
  BY PercentileMeans
<1>2. PICK k \in 1..n, l \in 1..n :
        /\ 100 * k <= q * n \/ (n = 1 /\ k = 1)
        /\ q * n < 100 * (k + 1)
        /\ 100 * (l - 1) < q * n /\ q * n <= 100 * l
        /\ Percentile(s, q) = Ranked(s, k) + Ranked(s, l)
  BY PercentileMeans
<1>3. n \in Nat /\ p * n \in Nat /\ q * n \in Nat /\ p * n <= q * n
  BY DEF Percentages
<1>4. i <= k /\ j <= l
  <2> DEFINE a == p * n
             b == q * n
  <2>1. /\ a \in Nat /\ b \in Nat /\ a <= b
        /\ 100 * i <= a \/ (n = 1 /\ i = 1)
        /\ b < 100 * (k + 1) /\ 100 * (j - 1) < a /\ b <= 100 * l
    BY <1>1, <1>2, <1>3
  <2> HIDE DEF a, b
  <2> QED BY <2>1
<1>5. /\ Ranked(s, i) \in Nat /\ Ranked(s, j) \in Nat
      /\ Ranked(s, k) \in Nat /\ Ranked(s, l) \in Nat
  BY RankedOK
<1>6. Ranked(s, i) <= Ranked(s, k) /\ Ranked(s, j) <= Ranked(s, l)
  BY <1>4, RankedMonotone
<1>7. /\ Ranked(s, i) + Ranked(s, j) \in Nat
      /\ Ranked(s, i) + Ranked(s, j) <= Ranked(s, k) + Ranked(s, l)
  <2> DEFINE a == Ranked(s, i)
             b == Ranked(s, j)
             c == Ranked(s, k)
             d == Ranked(s, l)
  <2>1. a \in Nat /\ b \in Nat /\ c \in Nat /\ d \in Nat /\ a <= c /\ b <= d
    BY <1>5, <1>6
  <2> HIDE DEF a, b, c, d
  <2>2. a + b \in Nat /\ a + b <= c + d
    BY <2>1
  <2> QED BY <2>2 DEF a, b, c, d
<1> QED BY <1>1, <1>2, <1>7

(* What the loop over the datapoints keeps.                                *)
Measured == [Percentages -> Nat \union {None}]

Loops ==
  [ last : Nat, timings : Seq(Nat), points : UNION {[S -> Measured] : S \in SUBSET Nat} ]

LEMMA OffsetType == \A d \in Datapoints : Offset(d) \in Nat
<1>1. \A a \in Nat, t \in Nat \ {0} : a \div t \in Nat
  OBVIOUS
<1>2. \A d \in Datapoints : BenchStart + d.at \in Nat
  BY PlotsAssumption DEF Datapoints
<1> QED BY <1>1, <1>2, PlotsAssumption DEF Offset

(* A datapoint that starts later is not of an earlier second.              *)
LEMMA OffsetMonotone ==
  ASSUME NEW c \in Datapoints, NEW d \in Datapoints, c.at <= d.at
  PROVE  Offset(c) <= Offset(d)
<1> DEFINE a == BenchStart + c.at
           b == BenchStart + d.at
           t == TicksPerSecond
<1>1. a \in Nat /\ b \in Nat /\ a <= b /\ t \in Nat /\ t >= 1
  BY PlotsAssumption DEF Datapoints
<1>2. Offset(c) = a \div t /\ Offset(d) = b \div t
  BY DEF Offset
<1> HIDE DEF a, b, t
<1>3. /\ a = t * (a \div t) + (a % t) /\ a % t \in 0..(t - 1) /\ a \div t \in Nat
      /\ b = t * (b \div t) + (b % t) /\ b % t \in 0..(t - 1) /\ b \div t \in Nat
  BY <1>1
<1> DEFINE u == a \div t
           v == b \div t
           x == a % t
           y == b % t
<1>4. /\ a = t * u + x /\ x \in 0..(t - 1) /\ u \in Nat
      /\ b = t * v + y /\ y \in 0..(t - 1) /\ v \in Nat
  BY <1>3
<1> HIDE DEF u, v, x, y
<1>5. u <= v
  <2> SUFFICES ASSUME v + 1 <= u PROVE FALSE
    BY <1>4
  <2>1. t * (v + 1) <= t * u /\ t * (v + 1) = t * v + t
    BY <1>1, <1>4
  <2>2. t * u \in Nat /\ t * v \in Nat
    BY <1>1, <1>4
  <2> HIDE DEF t
  <2> QED BY <1>1, <1>4, <2>1, <2>2
<1> QED BY <1>2, <1>5 DEF u, v

LEMMA MillisecondsType == \A d \in Datapoints : Milliseconds(d.took) \in Nat
<1>1. \A a \in Nat, t \in Nat \ {0} : a \div t \in Nat
  OBVIOUS
<1> QED BY <1>1, DurationsAssumption DEF Milliseconds, Datapoints

LEMMA MeasuredType ==
  ASSUME NEW s \in Seq(Nat)
  PROVE  CollectMeasurements(s) \in Measured
<1>1. \A p \in Percentages : Percentile(s, p) \in Nat \union {None}
  <2> TAKE p \in Percentages
  <2>1. CASE Len(s) = 0
    BY <2>1 DEF Percentile
  <2>2. CASE Len(s) # 0
    <3>1. Len(s) >= 1 /\ p <= p
      BY <2>2 DEF Percentages
    <3>2. Percentile(s, p) \in Nat
      BY <3>1, PercentagesInOrder
    <3> QED BY <3>2
  <2> QED BY <2>1, <2>2
<1> QED BY <1>1 DEF CollectMeasurements, Measured

(* A line with one more point.                                             *)
LEMMA WithType ==
  ASSUME NEW S, NEW V, NEW points \in [S -> V], NEW x, NEW y \in V
  PROVE  With(points, x, y) \in [S \union {x} -> V]
BY DEF With

LEMMA MeasureType ==
  ASSUME NEW m \in Loops, NEW d \in Datapoints
  PROVE  Measure(m, d) \in Loops
<1> DEFINE y == CollectMeasurements(m.timings)
           w == With(m.points, m.last, y)
<1>1. m.last \in Nat /\ m.timings \in Seq(Nat)
  BY DEF Loops
<1>2. PICK S \in SUBSET Nat : m.points \in [S -> Measured]
  BY DEF Loops
<1>3. y \in Measured
  BY <1>1, MeasuredType
<1> HIDE DEF y
<1>4. w \in [S \union {m.last} -> Measured]
  BY <1>2, <1>3, WithType
<1>5. S \union {m.last} \in SUBSET Nat
  BY <1>1
<1>6. Offset(d) \in Nat /\ Milliseconds(d.took) \in Nat
  BY OffsetType, MillisecondsType
<1>7. Append(m.timings, Milliseconds(d.took)) \in Seq(Nat)
  BY <1>1, <1>6
<1> DEFINE P == UNION {[T -> Measured] : T \in SUBSET Nat}
<1>8. m.points \in P /\ w \in P
  BY <1>2, <1>4, <1>5
<1>9. Measure(m, d) = [ last |-> Offset(d), timings |-> Append(m.timings, Milliseconds(d.took)),
                        points |-> IF Offset(d) = m.last THEN m.points ELSE w ]
  BY DEF Measure, y
<1>10. Loops = [last : Nat, timings : Seq(Nat), points : P]
  BY DEF Loops
<1> HIDE DEF P, w
<1> QED BY <1>6, <1>7, <1>8, <1>9, <1>10

(* So the loop is the last of a sequence of turns.                         *)
LEMMA MeasureFold ==
  ASSUME NEW s \in Seq(Datapoints), NEW base \in Loops
  PROVE  \E r : /\ r[0] = base
                /\ \A k \in 1..Len(s) : r[k] = Measure(r[k - 1], s[k])
                /\ \A k \in 0..Len(s) : r[k] \in Loops
                /\ FoldLeft(Measure, base, s) = r[Len(s)]
<1> DEFINE Eq(h) == h = [T \in SUBSET DOMAIN s |->
                     IF T = {} THEN base ELSE Measure(h[T \ {Max(T)}], s[Max(T)])]
           op == [p \in Loops \X Datapoints |-> Measure(p[1], p[2])]
           g == CHOOSE h : Eq(h)
<1>1. FoldLeft(Measure, base, s) = g[DOMAIN s]
  BY DEF FoldLeft, MapThenFoldSet
<1>2. /\ StaysIn(op, Loops, Datapoints)
      /\ \A m \in Loops, d \in Datapoints : op[<<m, d>>] = Measure(m, d)
  BY MeasureType DEF StaysIn
<1> HIDE DEF op
<1>3. PICK h : LeftFolds(h, op, base, s) /\ \A T \in SUBSET DOMAIN s : h[T] \in Loops
  BY <1>2, LeftFoldExists
<1>4. ASSUME NEW T \in SUBSET DOMAIN s, T # {}
      PROVE  op[<<h[T \ {Max(T)}], s[Max(T)]>>] = Measure(h[T \ {Max(T)}], s[Max(T)])
  <2>1. s[Max(T)] \in Datapoints /\ h[T \ {Max(T)}] \in Loops
    BY <1>3, <1>4, MaxIndex
  <2> QED BY <1>2, <2>1
<1>5. Eq(h)
  BY <1>3, <1>4 DEF LeftFolds
<1>6. Eq(g)
  BY <1>5
<1> HIDE DEF g
<1>7. g[{}] = base /\ FoldsWithin(g, Loops, op, s)
  <2>1. \A T \in SUBSET DOMAIN s : T # {} => s[Max(T)] \in Datapoints
    BY MaxIndex
  <2> QED BY <1>2, <1>6, <2>1 DEF FoldsWithin
<1>8. PICK r : FoldValues(r, base, op, s, Loops) /\ g[DOMAIN s] = r[Len(s)]
  BY <1>2, <1>7, FoldRuns
<1>9. \A k \in 1..Len(s) : k - 1 \in 0..Len(s) /\ s[k] \in Datapoints
  OBVIOUS
<1>10. \A k \in 1..Len(s) : r[k] = Measure(r[k - 1], s[k])
  BY <1>2, <1>8, <1>9 DEF FoldValues
<1> QED BY <1>1, <1>8, <1>10 DEF FoldValues

(* Each second of the line is about the datapoints up to the end of it.    *)
LEMMA LatenciesOK ==
  ASSUME NEW s \in Seq(Datapoints), s # << >>,
         \A j, k \in DOMAIN s : j < k => s[j].at <= s[k].at
  PROVE  LET line == Latencies(s) IN
         /\ DOMAIN line = Seconds(s)
         /\ \A x \in DOMAIN line : \E c \in 1..Len(s) :
              /\ {k \in DOMAIN s : Offset(s[k]) <= x} = 1..c
              /\ line[x] = CollectMeasurements([k \in 1..c |-> Milliseconds(s[k].took)])
<1> DEFINE n == Len(s)
           o == [k \in 1..n |-> Offset(s[k])]
           ms == [k \in 1..n |-> Milliseconds(s[k].took)]
           past(x) == {k \in 1..n : o[k] <= x}
           start(c) == [k \in 1..c |-> ms[k]]
           base == [last |-> Offset(s[1]), timings |-> << >>, points |-> << >>]
           now(k) == IF k = 0 THEN o[1] ELSE o[k]
<1>1. /\ n \in Nat /\ n >= 1 /\ DOMAIN s = 1..n
      /\ \A k \in 1..n : s[k] \in Datapoints
  OBVIOUS
<1>2. \A k \in 1..n : /\ o[k] = Offset(s[k]) /\ o[k] \in Nat
                      /\ ms[k] = Milliseconds(s[k].took) /\ ms[k] \in Nat
  BY <1>1, OffsetType, MillisecondsType
<1>3. \A j, k \in 1..n : j <= k => o[j] <= o[k]
  <2> SUFFICES ASSUME NEW j \in 1..n, NEW k \in 1..n, j <= k PROVE o[j] <= o[k]
    OBVIOUS
  <2>1. CASE j = k
    BY <1>2, <2>1
  <2>2. CASE j < k
    <3>1. s[j].at <= s[k].at /\ s[j] \in Datapoints /\ s[k] \in Datapoints
      BY <1>1, <2>2
    <3>2. Offset(s[j]) <= Offset(s[k])
      BY <3>1, OffsetMonotone
    <3> QED BY <1>2, <3>2
  <2> QED BY <1>1, <2>1, <2>2
<1>4. base \in Loops
  <2>1. << >> \in [{} -> Measured] /\ {} \in SUBSET Nat /\ << >> \in Seq(Nat)
    OBVIOUS
  <2>2. Offset(s[1]) \in Nat
    BY <1>1, OffsetType
  <2> QED BY <2>1, <2>2 DEF Loops
<1> HIDE DEF o, ms, base
<1>5. PICK r : /\ r[0] = base
               /\ \A k \in 1..n : r[k] = Measure(r[k - 1], s[k])
               /\ \A k \in 0..n : r[k] \in Loops
               /\ FoldLeft(Measure, base, s) = r[n]
  BY <1>4, MeasureFold
<1> DEFINE Shown(x, points) ==
             \E c \in 1..n : past(x) = 1..c /\ points[x] = CollectMeasurements(start(c))
           Inv(k) ==
             /\ r[k].last = now(k) /\ r[k].timings = start(k)
             /\ \A x : x \in DOMAIN r[k].points <=> \E i \in 1..k : o[i] = x /\ o[i] < now(k)
             /\ \A x \in DOMAIN r[k].points : Shown(x, r[k].points)
           P == {k \in 0..n : Inv(k)}
<1>6. 0 \in P
  <2>1. base.last = o[1] /\ base.timings = << >> /\ base.points = << >>
    BY <1>1, <1>2 DEF base
  <2>2. start(0) = << >> /\ now(0) = o[1] /\ DOMAIN << >> = {} /\ 1..0 = {}
    OBVIOUS
  <2>3. r[0].last = now(0) /\ r[0].timings = start(0) /\ r[0].points = << >>
    BY <1>5, <2>1, <2>2
  <2> HIDE DEF now, start, Shown
  <2>4. DOMAIN r[0].points = {} /\ 0 \in 0..n
    BY <1>1, <2>2, <2>3
  <2>5. Inv(0)
    BY <2>2, <2>3, <2>4
  <2> HIDE DEF Inv
  <2> QED BY <2>4, <2>5
<1>7. ASSUME NEW k \in 1..n, k - 1 \in P PROVE k \in P
  <2> DEFINE m == r[k - 1]
             j == k - 1
  <2>1. /\ j \in 0..n /\ k \in 0..n /\ j \in Nat /\ k = j + 1 /\ s[k] \in Datapoints
        /\ r[k] = Measure(m, s[k]) /\ m \in Loops
    BY <1>1, <1>5
  <2>2. Inv(j)
    BY <1>7
  <2>3. now(j) \in Nat /\ now(j) <= o[k] /\ now(k) = o[k] /\ o[k] \in Nat
    BY <1>1, <1>2, <1>3, <2>1
  <2>4. /\ r[k].last = o[k] /\ r[k].timings = Append(m.timings, ms[k])
        /\ r[k].points = IF o[k] = m.last THEN m.points
                         ELSE With(m.points, m.last, CollectMeasurements(m.timings))
    BY <1>2, <2>1 DEF Measure
  <2> HIDE DEF Inv, P
  <2>5. m.last = now(j) /\ m.timings = start(j)
    BY <2>2 DEF Inv
  <2>6. Append(start(j), ms[k]) = start(k)
    <3>1. \A i \in 1..j : ms[i] \in Nat
      BY <1>2, <2>1
    <3>2. start(j) \in Seq(Nat) /\ Len(start(j)) = j
      BY <2>1, <3>1
    <3> QED BY <1>2, <2>1, <3>2
  <2>7. r[k].last = now(k) /\ r[k].timings = start(k)
    BY <2>3, <2>4, <2>5, <2>6
  <2>8. /\ \A x : x \in DOMAIN m.points <=> \E i \in 1..j : o[i] = x /\ o[i] < now(j)
        /\ \A x \in DOMAIN m.points : Shown(x, m.points)
    BY <2>2 DEF Inv
  <2>9. \A i \in 1..j : i \in 1..n /\ i \in 1..k /\ o[i] <= now(j) /\ o[i] \in Nat
    BY <1>2, <1>3, <2>1
  <2>10. \A i \in 1..k : i = k \/ i \in 1..j
    BY <2>1
  <2> HIDE DEF now, start, m, Shown
  <2>11. CASE o[k] = now(j)
    <3>1. r[k].points = m.points
      BY <2>4, <2>5, <2>11
    <3>2. \A x : x \in DOMAIN r[k].points <=> \E i \in 1..k : o[i] = x /\ o[i] < now(k)
      BY <2>3, <2>8, <2>9, <2>10, <2>11, <3>1
    <3> QED BY <2>1, <2>7, <2>8, <3>1, <3>2 DEF Inv, P
  <2>12. CASE o[k] # now(j)
    <3> DEFINE y == CollectMeasurements(start(j))
               w == With(m.points, now(j), y)
    <3>1. r[k].points = w
      BY <2>4, <2>5, <2>12
    <3>2. now(j) < o[k] /\ j \in 1..n /\ j \in 1..j /\ now(j) = o[j]
      <4>1. j # 0
        <5> SUFFICES ASSUME j = 0 PROVE FALSE
          OBVIOUS
        <5>1. now(j) = o[1] /\ k = 1
          BY <2>1 DEF now
        <5> QED BY <2>12, <5>1
      <4>2. now(j) = o[j] /\ j \in 1..n /\ j \in 1..j
        BY <2>1, <4>1 DEF now
      <4> QED BY <2>3, <2>12, <4>2
    <3>3. /\ DOMAIN w = DOMAIN m.points \union {now(j)} /\ w[now(j)] = y
          /\ \A z \in DOMAIN m.points : z # now(j) => w[z] = m.points[z]
      <4> HIDE DEF y
      <4> QED BY DEF With
    <3> HIDE DEF w, y, j
    <3>4. ASSUME NEW x
          PROVE  x \in DOMAIN w <=> \E i \in 1..k : o[i] = x /\ o[i] < now(k)
      <4>1. ASSUME x \in DOMAIN w PROVE \E i \in 1..k : o[i] = x /\ o[i] < now(k)
        <5>1. CASE x = now(j)
          BY <2>3, <2>9, <3>2, <5>1
        <5>2. CASE x \in DOMAIN m.points
          <6>1. PICK i \in 1..j : o[i] = x /\ o[i] < now(j)
            BY <2>8, <5>2
          <6> QED BY <2>3, <2>9, <3>2, <6>1
        <5> QED BY <3>3, <4>1, <5>1, <5>2
      <4>2. ASSUME NEW i \in 1..k, o[i] = x, o[i] < now(k) PROVE x \in DOMAIN w
        <5>1. i \in 1..j /\ o[i] <= now(j) /\ o[i] \in Nat
          BY <2>3, <2>9, <2>10, <4>2
        <5>2. CASE o[i] = now(j)
          BY <3>3, <4>2, <5>2
        <5>3. CASE o[i] < now(j)
          BY <2>8, <3>3, <4>2, <5>1, <5>3
        <5> QED BY <2>3, <5>1, <5>2, <5>3
      <4> QED BY <4>1, <4>2
    <3>5. ASSUME NEW x \in DOMAIN w PROVE Shown(x, w)
      <4>1. CASE x = now(j)
        <5>1. past(x) = 1..j
          <6>1. \A i \in 1..n : i \in 1..j <=> o[i] <= x
            <7>1. \A i \in 1..n : i >= k => o[k] <= o[i]
              BY <1>3
            <7>2. \A i \in 1..n : i \in 1..j \/ i >= k
              BY <2>1 DEF j
            <7> QED BY <1>2, <2>3, <2>9, <3>2, <4>1, <7>1, <7>2
          <6>2. \A i \in 1..j : i \in 1..n
            BY <2>9
          <6> QED BY <6>1, <6>2
        <5> QED BY <3>2, <3>3, <4>1, <5>1 DEF Shown, y
      <4>2. CASE x # now(j)
        <5>1. x \in DOMAIN m.points /\ w[x] = m.points[x]
          BY <3>3, <3>5, <4>2
        <5> QED BY <2>8, <5>1 DEF Shown
      <4> QED BY <4>1, <4>2
    <3> QED BY <2>1, <2>7, <3>1, <3>4, <3>5 DEF Inv, P
  <2> QED BY <2>11, <2>12
<1>8. Inv(n) /\ now(n) = o[n]
  <2>1. \A k \in 0..n : k \in P
    <3> HIDE DEF P
    <3> QED BY <1>1, <1>6, <1>7, PrefixInduction
  <2>2. n \in P
    <3> HIDE DEF P, n
    <3> QED BY <1>1, <2>1
  <2>3. Inv(n)
    <3> HIDE DEF Inv
    <3> QED BY <2>2
  <2>4. n # 0
    BY <1>1
  <2> QED BY <2>3, <2>4 DEF now
<1> HIDE DEF now
<1> DEFINE w == With(r[n].points, o[n], CollectMeasurements(start(n)))
<1>9. Latencies(s) = w
  BY <1>5, <1>8 DEF Latencies, base
<1>10. /\ DOMAIN w = DOMAIN r[n].points \union {o[n]}
       /\ w[o[n]] = CollectMeasurements(start(n))
       /\ \A z \in DOMAIN r[n].points : z # o[n] => w[z] = r[n].points[z]
  <2> DEFINE y == CollectMeasurements(start(n))
  <2> HIDE DEF y
  <2>1. w = With(r[n].points, o[n], y)
    BY DEF y
  <2> HIDE DEF w
  <2>2. /\ DOMAIN w = DOMAIN r[n].points \union {o[n]} /\ w[o[n]] = y
        /\ \A z \in DOMAIN r[n].points : z # o[n] => w[z] = r[n].points[z]
    BY <2>1 DEF With
  <2> QED BY <2>2 DEF y
<1>11. \A i \in 1..n : o[i] <= o[n]
  BY <1>1, <1>3
<1> HIDE DEF w
<1>12. DOMAIN w = Seconds(s)
  <2>1. \A x : x \in DOMAIN w <=> \E i \in 1..n : o[i] = x
    <3>1. \A x : x \in DOMAIN r[n].points <=> \E i \in 1..n : o[i] = x /\ o[i] < o[n]
      BY <1>8
    <3>2. n \in 1..n /\ \A i \in 1..n : o[i] = o[n] \/ o[i] < o[n]
      BY <1>1, <1>2, <1>11
    <3> QED BY <1>10, <3>1, <3>2
  <2>2. \A x : x \in Seconds(s) <=> \E i \in 1..n : o[i] = x
    BY <1>1, <1>2 DEF Seconds, ToSet
  <2> QED BY <2>1, <2>2
<1>13. ASSUME NEW x \in DOMAIN w
       PROVE  \E c \in 1..n : past(x) = 1..c /\ w[x] = CollectMeasurements(start(c))
  <2>1. CASE x = o[n]
    <3>1. past(x) = 1..n
      BY <1>11, <2>1
    <3>2. n \in 1..n /\ w[x] = CollectMeasurements(start(n))
      BY <1>1, <1>10, <2>1
    <3> HIDE DEF past, start, n
    <3> QED BY <3>1, <3>2
  <2>2. CASE x # o[n]
    <3>1. x \in DOMAIN r[n].points /\ w[x] = r[n].points[x]
      BY <1>10, <1>13, <2>2
    <3>2. Shown(x, r[n].points)
      BY <1>8, <3>1
    <3> QED BY <3>1, <3>2
  <2> QED BY <2>1, <2>2
<1>14. \A x : past(x) = {k \in DOMAIN s : Offset(s[k]) <= x}
  BY <1>1, <1>2
<1>15. \A c \in 1..n : start(c) = [k \in 1..c |-> Milliseconds(s[k].took)]
  BY <1>1, <1>2
<1> HIDE DEF past, start, n
<1>16. \A x \in DOMAIN w : \E c \in 1..n :
         /\ {k \in DOMAIN s : Offset(s[k]) <= x} = 1..c
         /\ w[x] = CollectMeasurements([k \in 1..c |-> Milliseconds(s[k].took)])
  <2> TAKE x \in DOMAIN w
  <2>1. PICK c \in 1..n : past(x) = 1..c /\ w[x] = CollectMeasurements(start(c))
    BY <1>13
  <2>2. /\ past(x) = {k \in DOMAIN s : Offset(s[k]) <= x}
        /\ start(c) = [k \in 1..c |-> Milliseconds(s[k].took)]
    BY <1>14, <1>15
  <2> QED BY <2>1, <2>2
<1> QED BY <1>9, <1>12, <1>16 DEF n

(* So the line of a run shows, second by second, all that was done so far. *)
LEMMA LatenciesOfRun == MergeInv => LatenciesUpToEachSecond
<1> SUFFICES ASSUME MergeInv PROVE LatenciesUpToEachSecond
  OBVIOUS
<1> DEFINE s == Merged.Timings
           line == Latencies(s)
           ms(x) == [k \in {k \in DOMAIN s : Offset(s[k]) <= x} |-> Milliseconds(s[k].took)]
<1>1. MergeCountsEverythingOnce
  BY MergeCounts
<1>2. s \in Seq(Datapoints)
  BY DatapointsType
<1>3. \A j, k \in DOMAIN s : j < k => s[j].at <= s[k].at
  BY <1>1 DEF MergeCountsEverythingOnce, InOrder
<1>4. DOMAIN whole.Timings = ToSet(s)
  <2>1. ToBag(s) = whole.Timings
    BY <1>1 DEF MergeCountsEverythingOnce
  <2> HIDE DEF s
  <2> QED BY <2>1 DEF ToBag, ToSet, Range
<1>5. Seconds(s) = {Offset(d) : d \in DOMAIN whole.Timings}
  BY <1>4 DEF Seconds
<1> HIDE DEF s
<1>6. CASE s = << >>
  <2>1. line = << >> /\ DOMAIN line = {} /\ Seconds(s) = {}
    BY <1>6 DEF Latencies, Seconds, ToSet
  <2> HIDE DEF line
  <2> QED BY <1>5, <2>1 DEF LatenciesUpToEachSecond, s, line
<1>7. CASE s # << >>
  <2>1. /\ DOMAIN line = Seconds(s)
        /\ \A x \in DOMAIN line : \E c \in 1..Len(s) :
             /\ {k \in DOMAIN s : Offset(s[k]) <= x} = 1..c
             /\ line[x] = CollectMeasurements([k \in 1..c |-> Milliseconds(s[k].took)])
    BY <1>2, <1>3, <1>7, LatenciesOK
  <2> HIDE DEF line
  <2>2. ASSUME NEW x \in DOMAIN line
        PROVE  /\ line[x] = CollectMeasurements(ms(x))
               /\ 0 <= line[x][50] /\ line[x][50] <= line[x][90]
               /\ line[x][90] <= line[x][95] /\ line[x][95] <= line[x][99]
    <3>1. PICK c \in 1..Len(s) :
            /\ {k \in DOMAIN s : Offset(s[k]) <= x} = 1..c
            /\ line[x] = CollectMeasurements([k \in 1..c |-> Milliseconds(s[k].took)])
      BY <2>1
    <3> DEFINE t == [k \in 1..c |-> Milliseconds(s[k].took)]
    <3>2. ms(x) = t
      BY <3>1
    <3>3. t \in Seq(Nat) /\ Len(t) = c /\ c >= 1
      <4>1. \A k \in 1..c : s[k] \in Datapoints
        BY <1>2
      <4> QED BY <4>1, MillisecondsType
    <3> HIDE DEF t, ms
    <3>4. line[x] = CollectMeasurements(t)
      BY <3>1 DEF t
    <3>5. /\ line[x][50] = Percentile(t, 50) /\ line[x][90] = Percentile(t, 90)
          /\ line[x][95] = Percentile(t, 95) /\ line[x][99] = Percentile(t, 99)
      BY <3>4 DEF CollectMeasurements, Percentages
    <3>6. /\ 50 \in Percentages /\ 90 \in Percentages
          /\ 95 \in Percentages /\ 99 \in Percentages
          /\ 50 <= 90 /\ 90 <= 95 /\ 95 <= 99
      BY DEF Percentages
    <3>7. /\ Percentile(t, 50) \in Nat /\ Percentile(t, 50) <= Percentile(t, 90)
          /\ Percentile(t, 90) <= Percentile(t, 95)
          /\ Percentile(t, 95) <= Percentile(t, 99)
      BY <3>3, <3>6, PercentagesInOrder
    <3>8. 0 <= Percentile(t, 50)
      BY <3>7
    <3> QED BY <3>2, <3>4, <3>5, <3>7, <3>8
  <2>3. LatenciesUpToEachSecond <=>
          /\ DOMAIN line = {Offset(d) : d \in DOMAIN whole.Timings}
          /\ \A x \in DOMAIN line : line[x] = CollectMeasurements(ms(x))
          /\ \A x \in DOMAIN line :
               /\ 0 <= line[x][50] /\ line[x][50] <= line[x][90]
               /\ line[x][90] <= line[x][95] /\ line[x][95] <= line[x][99]
    BY DEF LatenciesUpToEachSecond, s, line
  <2> HIDE DEF ms
  <2> QED BY <1>5, <2>1, <2>2, <2>3
<1> QED BY <1>6, <1>7

(* Whatever run it is, the latencies drawn for a second are the percentages *)
(* of all queries started up to the end of it, and they are in order.      *)
THEOREM LatenciesShowTheRun == Spec => []LatenciesUpToEachSecond
BY WholeIsTheSum, LatenciesOfRun, PTL

(***************************************************************************)
(* Durations, for any units in which each divides the next.                *)
(***************************************************************************)
(* Rounding to a unit yields a multiple of it, at most half a unit away.   *)
LEMMA RoundIsNear ==
  ASSUME NEW d \in Nat, NEW u \in Nat \ {0}
  PROVE  /\ Round(d, u) \in Nat
         /\ \E q \in Nat : Round(d, u) = q * u
         /\ 2 * Round(d, u) > 2 * d - u
         /\ 2 * Round(d, u) <= 2 * d + u
<1> DEFINE r == d % u
           q == d \div u
<1>1. r \in 0..u - 1 /\ q \in Nat /\ d = q * u + r
  OBVIOUS
<1>2. Round(d, u) = IF 2 * r < u THEN d - r ELSE d + u - r
  BY DEF Round
<1>3. q * u \in Nat /\ (q + 1) * u = q * u + u
  BY <1>1
<1> HIDE DEF r, q
<1>4. CASE 2 * r < u
  <2>1. Round(d, u) = q * u
    BY <1>1, <1>2, <1>3, <1>4
  <2>2. 2 * Round(d, u) > 2 * d - u /\ 2 * Round(d, u) <= 2 * d + u
    BY <1>1, <1>3, <1>4, <2>1
  <2> QED BY <1>1, <1>3, <2>1, <2>2
<1>5. CASE ~(2 * r < u)
  <2>1. PICK p \in Nat : p = q + 1
    BY <1>1
  <2>2. p * u = q * u + u /\ Round(d, u) = q * u + u
    BY <1>1, <1>2, <1>3, <1>5, <2>1
  <2>3. Round(d, u) \in Nat /\ 2 * Round(d, u) > 2 * d - u /\ 2 * Round(d, u) <= 2 * d + u
    BY <1>1, <1>3, <1>5, <2>2
  <2>4. \E n \in Nat : Round(d, u) = n * u
    <3>1. Round(d, u) = p * u
      BY <2>2
    <3> QED BY <3>1
  <2> QED BY <2>3, <2>4
<1> QED BY <1>4, <1>5

(* Different multiples of a unit are at least a unit apart.                *)
LEMMA MultiplesApart ==
  ASSUME NEW p \in Nat, NEW q \in Nat, NEW u \in Nat \ {0}, p * u > q * u
  PROVE  p * u >= q * u + u
<1>1. p > q
  <2>1. SUFFICES ASSUME p <= q PROVE p * u <= q * u
    BY SMT
  <2>2. PICK k \in Nat : q = p + k
    BY <2>1
  <2>3. q * u = p * u + k * u /\ k * u \in Nat
    BY <2>2
  <2> QED BY <2>3
<1>2. PICK k \in Nat : p = q + 1 + k
  BY <1>1
<1>3. p * u = q * u + u + k * u /\ k * u \in Nat
  BY <1>2
<1> QED BY <1>3

(* Rounding to one unit keeps the order.                                   *)
LEMMA RoundMonotone ==
  ASSUME NEW c \in Nat, NEW d \in Nat, c <= d, NEW u \in Nat \ {0}
  PROVE  Round(c, u) <= Round(d, u)
<1>1. PICK p \in Nat : Round(c, u) = p * u
  BY RoundIsNear
<1>2. PICK q \in Nat : Round(d, u) = q * u
  BY RoundIsNear
<1>3. Round(c, u) \in Nat /\ Round(d, u) \in Nat
  BY RoundIsNear
<1>4. SUFFICES ASSUME Round(c, u) > Round(d, u) PROVE FALSE
  BY <1>3
<1>5. Round(c, u) >= Round(d, u) + u
  BY <1>1, <1>2, <1>4, MultiplesApart
<1>6. 2 * Round(c, u) <= 2 * c + u /\ 2 * Round(d, u) > 2 * d - u
  BY RoundIsNear
<1> QED BY <1>3, <1>5, <1>6

(* A multiple of the unit stays what it is,                                *)
LEMMA MultipleFixed ==
  ASSUME NEW m \in Nat, NEW u \in Nat \ {0}, Divides(u, m)
  PROVE  Round(m, u) = m
BY DEF Round, Divides

(* so no rounding crosses a limit that is a multiple of its unit.          *)
LEMMA LimitKept ==
  ASSUME NEW d \in Nat, NEW m \in Nat, NEW u \in Nat \ {0}, Divides(u, m)
  PROVE  /\ d <= m => Round(d, u) <= m
         /\ d >= m => Round(d, u) >= m
BY MultipleFixed, RoundMonotone

(* What divides a number goes into it a whole number of times,            *)
LEMMA DividesMeans ==
  ASSUME NEW u \in Nat \ {0}, NEW m \in Nat
  PROVE  Divides(u, m) <=> \E q \in Nat : m = q * u
<1>1. ASSUME Divides(u, m) PROVE \E q \in Nat : m = q * u
  <2>1. m \div u \in Nat /\ m = (m \div u) * u + (m % u)
    OBVIOUS
  <2> QED BY <1>1, <2>1 DEF Divides
<1>2. ASSUME NEW q \in Nat, m = q * u PROVE Divides(u, m)
  BY <1>2 DEF Divides
<1> QED BY <1>1, <1>2

(* into its multiples too,                                                *)
LEMMA DividesTransitive ==
  ASSUME NEW u \in Nat \ {0}, NEW v \in Nat \ {0}, NEW w \in Nat,
         Divides(u, v), Divides(v, w)
  PROVE  Divides(u, w)
<1>1. PICK p \in Nat : v = p * u
  BY DividesMeans
<1>2. PICK q \in Nat : w = q * v
  BY DividesMeans
<1>3. w = (q * p) * u /\ q * p \in Nat
  BY <1>1, <1>2
<1> QED BY <1>3, DividesMeans

(* and is not greater than it.                                            *)
LEMMA DivisorSmaller ==
  ASSUME NEW u \in Nat \ {0}, NEW m \in Nat \ {0}, Divides(u, m)
  PROVE  u <= m
BY DEF Divides

(* A number divides ten times itself.                                     *)
LEMMA DividesTenfold ==
  ASSUME NEW u \in Nat \ {0} PROVE Divides(u, 10 * u)
BY DividesMeans

(* The unit of a range divides both of its limits.                         *)
LEMMA UnitsFit ==
  /\ Divides(1, Microsecond)
  /\ Divides(10, Microsecond) /\ Divides(10, Millisecond)
  /\ Divides(10 * Microsecond, Millisecond) /\ Divides(10 * Microsecond, Second)
  /\ Divides(10 * Millisecond, Second) /\ Divides(10 * Millisecond, Minute)
  /\ Divides(10 * Second, Minute)
<1> USE DurationsAssumption
<1>1. Divides(1, Microsecond)
  BY DividesMeans
<1>2. ASSUME NEW u \in Nat \ {0}, NEW v \in Nat \ {0}, NEW w \in Nat \ {0},
             Divides(u, v), Divides(10 * v, w)
      PROVE  Divides(u, w)
  <2>1. Divides(u, 10 * v) /\ 10 * v \in Nat \ {0}
    BY <1>2, DividesTenfold, DividesTransitive
  <2> QED BY <1>2, <2>1, DividesTransitive
<1>3. Divides(10, Millisecond)
  BY <1>2
<1>4. Divides(10 * Microsecond, Second)
  BY <1>2
<1>5. Divides(10 * Millisecond, Minute)
  BY <1>2
<1> QED BY <1>1, <1>3, <1>4, <1>5

(* The limits between the ranges are in order.                            *)
LEMMA LimitsRise ==
  Microsecond < Millisecond /\ Millisecond < Second /\ Second < Minute
<1> USE DurationsAssumption
<1>1. 10 * Microsecond <= Millisecond
  BY DivisorSmaller
<1>2. 10 * Millisecond <= Second
  BY DivisorSmaller
<1>3. 10 * Second <= Minute
  BY DivisorSmaller
<1> QED BY <1>1, <1>2, <1>3

(* A rounded duration is one.                                              *)
LEMMA RoundDurationType ==
  \A d \in Nat : Unit(d) \in Nat \ {0} /\ RoundDuration(d) \in Nat
<1> TAKE d \in Nat
<1>1. Unit(d) \in Nat \ {0}
  BY DurationsAssumption DEF Unit
<1> QED BY <1>1, RoundIsNear DEF RoundDuration

(* A longer duration is never printed as a shorter one, although the unit  *)
(* depends on the duration: minimum, percentiles and maximum stay in order *)
(* in both reports.                                                        *)
THEOREM RoundingKeepsOrder ==
  ASSUME NEW c \in Nat, NEW d \in Nat, c <= d
  PROVE  RoundDuration(c) <= RoundDuration(d)
<1> USE DurationsAssumption
<1>1. \A e \in Nat : Unit(e) \in Nat \ {0} /\ RoundDuration(e) \in Nat
  BY RoundDurationType
<1>2. CASE Unit(c) = Unit(d)
  BY <1>1, <1>2, RoundMonotone DEF RoundDuration
<1>3. ASSUME NEW m \in Nat, c <= m, m < d, Divides(Unit(c), m),
             NEW n \in Nat, m <= n, n < d, Divides(Unit(d), n)
      PROVE  RoundDuration(c) <= RoundDuration(d)
  <2>1. RoundDuration(c) <= m
    BY <1>1, <1>3, LimitKept DEF RoundDuration
  <2>2. RoundDuration(d) >= n
    BY <1>1, <1>3, LimitKept DEF RoundDuration
  <2> QED BY <1>1, <1>3, <2>1, <2>2
<1>4. ASSUME Unit(c) # Unit(d)
      PROVE  \E m, n \in {Microsecond, Millisecond, Second, Minute} :
               /\ c <= m /\ Divides(Unit(c), m)
               /\ m <= n /\ n < d /\ Divides(Unit(d), n)
  <2> USE LimitsRise, UnitsFit DEF Unit
  <2>1. CASE c <= Microsecond
    BY <1>4, <2>1
  <2>2. CASE c > Microsecond /\ c <= Millisecond
    BY <1>4, <2>2
  <2>3. CASE c > Millisecond /\ c <= Second
    BY <1>4, <2>3
  <2>4. CASE c > Second /\ c <= Minute
    BY <1>4, <2>4
  <2>5. CASE c > Minute
    BY <1>4, <2>5
  <2> QED BY <2>1, <2>2, <2>3, <2>4, <2>5
<1> QED BY <1>2, <1>3, <1>4

(***************************************************************************)
(* The histogram.                                                          *)
(***************************************************************************)
(* Those of the datapoints that it can hold.                               *)
LEMMA InRangeAmong ==
  ASSUME NEW s \in Seq(Datapoints)
  PROVE  InRange(s) = Cardinality(Among(s, {d \in Datapoints : d.took <= HistMax}))
<1>1. /\ DOMAIN s = 1..Len(s) /\ DOMAIN Fits(s) = 1..Len(s)
      /\ \A k \in 1..Len(s) : s[k] \in Datapoints /\ Fits(s)[k] = OneIf(s[k].took <= HistMax)
  BY FitsType
<1>2. \A k \in 1..Len(s) : Fits(s)[k] = 1 <=> s[k] \in {d \in Datapoints : d.took <= HistMax}
  BY <1>1 DEF OneIf
<1>3. Places(Fits(s), 1) = Among(s, {d \in Datapoints : d.took <= HistMax})
  BY <1>1, <1>2 DEF Places, Among
<1> QED BY <1>3 DEF InRange, Occurrences

Ascending(v) == \A j, k \in DOMAIN v : j < k => v[j] <= v[k]

(* It holds as many values as there are in range, in order.                *)
LEMMA HeldOK ==
  ASSUME NEW t, t.Timings \in Seq(Datapoints)
  PROVE  /\ Held(t) \in Seq(Nat) /\ Ascending(Held(t))
         /\ Len(Held(t)) = InRange(t.Timings)
<1> DEFINE n == Len(t.Timings)
           took == [k \in DOMAIN t.Timings |-> t.Timings[k].took]
           itself == [d \in Nat |-> d]
           sorted == Ordered(took, itself)
           R == {k \in DOMAIN took : took[k] <= HistMax}
           c == Cardinality(R)
<1>1. n \in Nat /\ DOMAIN t.Timings = 1..n /\ \A k \in 1..n : t.Timings[k] \in Datapoints
  OBVIOUS
<1>2. took \in Seq(Nat) /\ DOMAIN took = 1..n /\ Len(took) = n
  BY <1>1 DEF Datapoints
<1>3. R = Places(Fits(t.Timings), 1)
  <2>1. \A k \in 1..n : took[k] <= HistMax <=> Fits(t.Timings)[k] = 1
    BY <1>1, FitsType DEF OneIf
  <2>2. DOMAIN Fits(t.Timings) = 1..n
    BY FitsType
  <2> HIDE DEF took
  <2> QED BY <1>2, <2>1, <2>2 DEF Places
<1>4. c = InRange(t.Timings) /\ c \in 0..n
  <2>1. IsFiniteSet(1..n) /\ Cardinality(1..n) = n
    BY <1>1, FS_Interval
  <2>2. R \in SUBSET (1..n)
    BY <1>2
  <2> HIDE DEF R
  <2>3. Cardinality(R) <= Cardinality(1..n) /\ Cardinality(R) \in Nat
    BY <2>1, <2>2, FS_Subset, FS_CardinalityType
  <2> QED BY <1>1, <1>3, <2>1, <2>3 DEF InRange, Occurrences
<1>5. Held(t) = SubSeq(sorted, 1, c)
  <2>1. \A d \in ToSet(took) : itself[d] = d
    BY <1>2 DEF ToSet
  <2>2. [d \in ToSet(took) |-> itself[d]] = [d \in ToSet(took) |-> d]
    BY <2>1
  <2> QED BY <2>2 DEF Held, Ordered
<1>6. itself \in [Nat -> Nat] /\ \A d \in Nat : itself[d] = d
  OBVIOUS
<1> HIDE DEF took, itself, R, c, n
<1>7. /\ sorted \in Seq(Nat) /\ \A d : Occurrences(sorted, d) = Occurrences(took, d)
      /\ \A j, k \in DOMAIN sorted : j < k => itself[sorted[j]] <= itself[sorted[k]]
  BY <1>2, <1>6, InOrderOf
<1> HIDE DEF sorted
<1>8. Len(sorted) = n
  <2>1. Among(sorted, Nat) = 1..Len(sorted) /\ Among(took, Nat) = 1..n
    BY <1>2, <1>7 DEF Among
  <2>2. Cardinality(Among(sorted, Nat)) = Cardinality(Among(took, Nat))
    BY <1>2, <1>7, SameAmong
  <2>3. Len(sorted) \in Nat /\ n \in Nat
    BY <1>1, <1>7
  <2>4. \A m \in Nat : Cardinality(1..m) = m
    <3> TAKE m \in Nat
    <3> QED BY FS_Interval
  <2>5. Cardinality(1..Len(sorted)) = Len(sorted) /\ Cardinality(1..n) = n
    BY <2>3, <2>4
  <2>6. Cardinality(1..Len(sorted)) = Cardinality(1..n)
    BY <2>1, <2>2
  <2> QED BY <2>5, <2>6
<1> DEFINE v == SubSeq(sorted, 1, c)
<1>9. v \in Seq(Nat) /\ Len(v) = c /\ \A k \in 1..c : v[k] = sorted[k] /\ k \in DOMAIN sorted
  BY <1>1, <1>4, <1>7, <1>8
<1> HIDE DEF v
<1>10. \A j, k \in DOMAIN v : j < k => v[j] <= v[k]
  <2> TAKE j, k \in DOMAIN v
  <2>1. /\ j \in DOMAIN sorted /\ k \in DOMAIN sorted
        /\ v[j] = sorted[j] /\ v[k] = sorted[k] /\ sorted[j] \in Nat /\ sorted[k] \in Nat
    BY <1>7, <1>9
  <2> QED BY <1>6, <1>7, <2>1
<1> QED BY <1>4, <1>5, <1>9, <1>10 DEF Ascending, v

(* So that of the merged results holds what whole has counted.             *)
LEMMA HeldOfRun ==
  ASSUME MergeInv
  PROVE  /\ Held(Merged) \in Seq(Nat) /\ Ascending(Held(Merged))
         /\ Len(Held(Merged)) = whole.Hist /\ Merged.Hist = whole.Hist
<1> DEFINE t == FoldLeft(MergeOne, Empty, results)
           S == {d \in Datapoints : d.took <= HistMax}
<1>1. /\ results \in [Index -> WorkerResults] /\ \A k \in Index : HistFits(results[k])
  BY DEF MergeInv, Typed
<1>2. t \in Totals /\ HistFits(t)
  BY <1>1, TotalsAdd, TotalsInRange
<1>3. /\ Merged.Timings \in Seq(Datapoints)
      /\ \A d : Occurrences(Merged.Timings, d) = Occurrences(t.Timings, d)
  BY DatapointsType
<1>4. Merged.Hist = whole.Hist
  BY MergeCounts DEF MergeCountsEverythingOnce, Counts
<1>5. Merged.Hist = t.Hist
  <2>1. \A f \in Scalars \union Tables : Merged[f] = t[f]
    BY <1>2, MergeFields DEF Merged, t
  <2>2. "Hist" \in Scalars
    BY DEF Scalars
  <2> HIDE DEF t
  <2> QED BY <2>1, <2>2
<1> HIDE DEF t
<1>6. t.Timings \in Seq(Datapoints)
  BY <1>2 DEF Totals
<1>7. InRange(Merged.Timings) = InRange(t.Timings)
  <2> HIDE DEF S
  <2>1. Cardinality(Among(Merged.Timings, S)) = Cardinality(Among(t.Timings, S))
    BY <1>3, <1>6, SameAmong
  <2> QED BY <1>3, <1>6, <2>1, InRangeAmong DEF S
<1> QED BY <1>2, <1>3, <1>4, <1>5, <1>7, HeldOK DEF HistFits

(***************************************************************************)
(* The bars of a histogram.                                                *)
(***************************************************************************)
(* Quotients are in the order of what is divided,                          *)
LEMMA QuotientRises ==
  ASSUME NEW a \in Nat, NEW b \in Nat, a <= b, NEW d \in Nat \ {0}
  PROVE  a \div d \in Nat /\ b \div d \in Nat /\ a \div d <= b \div d
<1> DEFINE p == a \div d
           q == b \div d
           r == a % d
           s == b % d
<1>1. /\ p \in Nat /\ r \in 0..d - 1 /\ a = p * d + r
      /\ q \in Nat /\ s \in 0..d - 1 /\ b = q * d + s
  OBVIOUS
<1> HIDE DEF p, q, r, s
<1>2. SUFFICES ASSUME p > q PROVE FALSE
  BY <1>1 DEF p, q
<1>3. PICK k \in Nat : p = q + 1 + k
  BY <1>1, <1>2
<1>4. p * d = q * d + d + k * d /\ k * d \in Nat /\ q * d \in Nat
  BY <1>1, <1>3
<1> QED BY <1>1, <1>4

(* and what is left over does not change them.                             *)
LEMMA QuotientIs ==
  ASSUME NEW q \in Nat, NEW d \in Nat \ {0}, NEW r \in 0..d - 1
  PROVE  (q * d + r) \div d = q
<1> DEFINE a == q * d + r
           p == a \div d
           s == a % d
<1>1. a \in Nat /\ p \in Nat /\ s \in 0..d - 1 /\ a = p * d + s /\ q * d \in Nat
  OBVIOUS
<1> HIDE DEF p, s
<1>2. ASSUME NEW m \in Nat, NEW n \in Nat, m > n PROVE m * d >= n * d + d
  <2>1. PICK k \in Nat : m = n + 1 + k
    BY <1>2
  <2>2. m * d = n * d + d + k * d /\ k * d \in Nat /\ n * d \in Nat
    BY <2>1
  <2> QED BY <2>2
<1>3. p * d \in Nat
  BY <1>1
<1>4. ~(p > q)
  <2> SUFFICES ASSUME p > q PROVE FALSE
    OBVIOUS
  <2>1. p * d >= q * d + d
    BY <1>1, <1>2
  <2> QED BY <1>1, <1>3, <2>1
<1>5. ~(q > p)
  <2> SUFFICES ASSUME q > p PROVE FALSE
    OBVIOUS
  <2>1. q * d >= p * d + d
    BY <1>1, <1>2
  <2> QED BY <1>1, <1>3, <2>1
<1>6. p = q
  BY <1>1, <1>4, <1>5
<1> QED BY <1>6 DEF p

Bars == [From : Nat, To : Nat, Count : Nat]

(* Bars that are in the order of their middles.                            *)
Row(s) ==
  /\ s \in Seq(Bars)
  /\ \A k \in 1..Len(s) : Middle(s[k]) \in Nat
  /\ \A j, k \in 1..Len(s) : j <= k => Middle(s[j]) <= Middle(s[k])

AtBar(v, k) == {i \in DOMAIN v : v[i] \div BarWidth = k}

(* A bar counts the values at it.                                          *)
LEMMA BarOK ==
  ASSUME NEW v \in Seq(Nat), NEW k \in Nat
  PROVE  /\ Bar(k, v) \in Bars /\ Bar(k, v).Count = Cardinality(AtBar(v, k))
         /\ Bar(k, v).Count > 0 <=> AtBar(v, k) # {}
<1>1. BarWidth \in Nat \ {0}
  BY ReportersAssumption
<1>2. k * BarWidth \in Nat /\ (k + 1) * BarWidth - 1 \in Nat
  <2>1. (k + 1) * BarWidth = k * BarWidth + BarWidth /\ k * BarWidth \in Nat
    BY <1>1
  <2> QED BY <1>1, <2>1
<1>3. Cardinality(AtBar(v, k)) \in Nat /\ (Cardinality(AtBar(v, k)) = 0 <=> AtBar(v, k) = {})
  <2>1. AtBar(v, k) \in SUBSET (1..Len(v))
    BY DEF AtBar
  <2>2. IsFiniteSet(AtBar(v, k))
    BY <2>1, FS_Interval, FS_Subset
  <2> QED BY <2>2, FS_CardinalityType, FS_EmptySet
<1>4. Bar(k, v).Count = Cardinality(AtBar(v, k))
  BY DEF Bar, AtBar
<1>5. Bar(k, v) \in Bars
  <2>1. Bar(k, v) = [From |-> k * BarWidth, To |-> (k + 1) * BarWidth - 1,
                     Count |-> Cardinality(AtBar(v, k))]
    BY DEF Bar, AtBar
  <2> QED BY <1>2, <1>3, <2>1 DEF Bars
<1> QED BY <1>3, <1>4, <1>5

(* Its place is in the middle of it, which is in the order of the bars.    *)
LEMMA MiddleRises ==
  ASSUME NEW v \in Seq(Nat), NEW j \in Nat, NEW k \in Nat, j <= k
  PROVE  /\ Middle(Bar(j, v)) \in Nat /\ Middle(Bar(k, v)) \in Nat
         /\ Middle(Bar(j, v)) <= Middle(Bar(k, v))
<1> DEFINE a == Bar(j, v)
           b == Bar(k, v)
<1>1. a \in Bars /\ b \in Bars
  BY BarOK
<1>2. a.From <= b.From /\ a.To <= b.To
  <2>1. PICK m \in Nat : k = j + m
    BY SMT
  <2>2. BarWidth \in Nat
    BY ReportersAssumption
  <2>3. /\ k * BarWidth = j * BarWidth + m * BarWidth
        /\ (k + 1) * BarWidth = (j + 1) * BarWidth + m * BarWidth
        /\ m * BarWidth \in Nat /\ j * BarWidth \in Nat /\ (j + 1) * BarWidth \in Nat
    BY <2>1, <2>2
  <2>4. /\ a.From = j * BarWidth /\ b.From = k * BarWidth
        /\ a.To = (j + 1) * BarWidth - 1 /\ b.To = (k + 1) * BarWidth - 1
    BY DEF Bar
  <2> HIDE DEF a, b
  <2> QED BY <2>3, <2>4
<1> HIDE DEF a, b
<1>3. a.From \in Nat /\ a.To \in Nat /\ b.From \in Nat /\ b.To \in Nat
  BY <1>1 DEF Bars
<1>4. /\ a.From \div 2 \in Nat /\ b.From \div 2 \in Nat /\ a.From \div 2 <= b.From \div 2
      /\ a.To \div 2 \in Nat /\ b.To \div 2 \in Nat /\ a.To \div 2 <= b.To \div 2
  BY <1>2, <1>3, QuotientRises
<1>5. /\ a.To \div 2 + a.From \div 2 \in Nat /\ b.To \div 2 + b.From \div 2 \in Nat
      /\ a.To \div 2 + a.From \div 2 <= b.To \div 2 + b.From \div 2
  BY <1>4
<1> QED BY <1>5 DEF Middle, a, b

(* Bars in a row that reach over all of the values count every one once.   *)
LEMMA BarsCountAll ==
  ASSUME NEW v \in Seq(Nat), NEW first \in Nat, NEW m \in Nat,
         \A i \in DOMAIN v : v[i] \div BarWidth \in first..first + m - 1,
         NEW g, \A k \in 1..m : g[k] = Bar(first + k - 1, v).Count
  PROVE  SumFunctionOnSet(g, 1..m) = Len(v)
<1> DEFINE A == DOMAIN v
           B == 1..m
           f == [i \in A |-> v[i] \div BarWidth - first + 1]
           D == [k \in B |-> AtBar(v, first + k - 1)]
<1>1. A = 1..Len(v) /\ Len(v) \in Nat
  OBVIOUS
<1>2. IsFiniteSet(A) /\ Cardinality(A) = Len(v) /\ IsFiniteSet(B)
  <2> HIDE DEF A
  <2>1. IsFiniteSet(1..Len(v)) /\ Cardinality(1..Len(v)) = Len(v)
    BY <1>1, FS_Interval
  <2> QED BY <1>1, <2>1, FS_Interval
<1>3. \A k \in B : D[k] \in SUBSET A /\ \A i \in A : i \in D[k] <=> f[i] = k
  <2> TAKE k \in B
  <2>1. D[k] = AtBar(v, first + k - 1) /\ D[k] \in SUBSET A
    BY DEF AtBar
  <2>2. ASSUME NEW i \in A PROVE i \in D[k] <=> f[i] = k
    <3>1. i \in D[k] <=> v[i] \div BarWidth = first + k - 1
      BY <2>1 DEF AtBar
    <3>2. f[i] = v[i] \div BarWidth - first + 1 /\ v[i] \div BarWidth \in first..first + m - 1
      OBVIOUS
    <3> HIDE DEF f, D
    <3> DEFINE x == v[i] \div BarWidth
    <3>3. x \in first..first + m - 1 /\ first \in Nat /\ m \in Nat /\ k \in 1..m
      BY <3>2
    <3> HIDE DEF x
    <3>4. x = first + k - 1 <=> x - first + 1 = k
      BY <3>3
    <3> QED BY <3>1, <3>2, <3>4 DEF x
  <2> QED BY <2>1, <2>2
<1>4. Classifies(f, D, A, B)
  <2>1. \A i \in A : f[i] \in B
    OBVIOUS
  <2> HIDE DEF A, B, f, D
  <2> QED BY <1>3, <2>1 DEF Classifies
<1>5. \A k \in B : g[k] = Cardinality(D[k])
  <2> TAKE k \in B
  <2>1. first + k - 1 \in Nat
    OBVIOUS
  <2> QED BY <2>1, BarOK
<1> HIDE DEF A, B, f, D
<1>6. SumFunctionOnSet(g, B) = Cardinality(A)
  BY <1>2, <1>4, <1>5, CountByValue
<1> QED BY <1>2, <1>6 DEF B

(* The bars of values that are in order: the last one is not empty, and    *)
(* none is beyond it.                                                      *)
LEMMA DistributionOK ==
  ASSUME NEW v \in Seq(Nat), Ascending(v), v # << >>
  PROVE  LET b == Distribution(v)
             n == Len(b)
         IN  /\ b \in Seq(Bars) /\ n \in Nat \ {0}
             /\ \A k \in 1..n : b[k] = Bar(k - 1, v)
             /\ \A i \in DOMAIN v : v[i] \div BarWidth \in 0..n - 1
             /\ b[n].Count > 0
<1> DEFINE b == Distribution(v)
           l == Last(v)
           q == l \div BarWidth
<1>1. BarWidth \in Nat \ {0}
  BY ReportersAssumption
<1>2. /\ Len(v) \in Nat \ {0} /\ DOMAIN v = 1..Len(v) /\ l = v[Len(v)] /\ l \in Nat
      /\ \A i \in 1..Len(v) : v[i] \in Nat
  BY DEF Last
<1>3. q \in Nat
  BY <1>1, <1>2, QuotientRises
<1>4. b = [k \in 1..(q + 1) |-> Bar(k - 1, v)]
  BY DEF Distribution
<1>5. \A i \in DOMAIN v : v[i] \div BarWidth \in 0..q
  <2> TAKE i \in DOMAIN v
  <2>1. v[i] <= l
    <3>1. i = Len(v) \/ i < Len(v)
      BY <1>2
    <3> QED BY <1>2, <3>1 DEF Ascending
  <2>2. v[i] \div BarWidth \in Nat /\ v[i] \div BarWidth <= q
    BY <1>1, <1>2, <2>1, QuotientRises
  <2> QED BY <1>3, <2>2
<1>6. Bar(q, v).Count > 0
  <2>1. Len(v) \in AtBar(v, q)
    BY <1>2 DEF AtBar
  <2> HIDE DEF q
  <2> QED BY <1>3, <2>1, BarOK
<1> HIDE DEF q, b
<1>7. \A k \in 1..(q + 1) : Bar(k - 1, v) \in Bars
  <2> TAKE k \in 1..(q + 1)
  <2>1. k - 1 \in Nat
    BY <1>3
  <2> QED BY <2>1, BarOK
<1>8. b \in Seq(Bars) /\ Len(b) = q + 1 /\ \A k \in 1..(q + 1) : b[k] = Bar(k - 1, v)
  BY <1>3, <1>4, <1>7
<1>9. b[q + 1] = Bar(q, v)
  <2>1. q + 1 \in 1..(q + 1) /\ (q + 1) - 1 = q
    BY <1>3
  <2> QED BY <1>8, <2>1
<1> QED BY <1>3, <1>5, <1>6, <1>8, <1>9 DEF b

(***************************************************************************)
(* The points of the JSON report.                                          *)
(***************************************************************************)
(* Milliseconds are in the order of the durations.                         *)
LEMMA MsRises ==
  ASSUME NEW c \in Nat, NEW d \in Nat, c <= d
  PROVE  Ms(c) \in Nat /\ Ms(d) \in Nat /\ Ms(c) <= Ms(d)
<1> DEFINE a == RoundDuration(c)
           b == RoundDuration(d)
<1>1. a \in Nat /\ b \in Nat /\ a <= b /\ Millisecond \in Nat \ {0}
  BY RoundDurationType, RoundingKeepsOrder, DurationsAssumption
<1>2. Ms(c) = a \div Millisecond /\ Ms(d) = b \div Millisecond
  BY DEF Ms, Milliseconds
<1> HIDE DEF a, b
<1> QED BY <1>1, <1>2, QuotientRises

LatencyPoints == [LatencyMs : Nat, Count : Nat]

PointOf(bar) == [LatencyMs |-> Ms(Middle(bar)), Count |-> bar.Count]

CountsOf(s) == [k \in 1..Len(s) |-> s[k].Count]

(* SumCounts adds up the counts of the records in a sequence.              *)
LEMMA SumCountsSum ==
  ASSUME NEW E, \A e \in E : e.Count \in Nat, NEW s \in Seq(E)
  PROVE  SumCounts(s) = SumFunctionOnSet(CountsOf(s), 1..Len(s))
<1>1. \A e \in E : e["Count"] \in Nat
  OBVIOUS
<1>2. FieldTotal(s, "Count") = SumFunctionOnSet([k \in 1..Len(s) |-> s[k]["Count"]], 1..Len(s))
  BY <1>1, FieldTotalSum
<1> QED BY <1>2 DEF FieldTotal, SumCounts, CountsOf

(* What a bar does to the points: it is counted in the last one, which is  *)
(* a new one unless it has the latency of the bar.                         *)
LEMMA AddPointOK ==
  ASSUME NEW s \in Seq(LatencyPoints), NEW bar \in Bars
  PROVE  LET t == AddPoint(s, bar)
             p == PointOf(bar)
         IN  /\ p \in LatencyPoints /\ t \in Seq(LatencyPoints) /\ t # << >>
             /\ \/ /\ s # << >> /\ Last(s).LatencyMs = p.LatencyMs
                   /\ Len(t) = Len(s) /\ t[Len(s)].Count = s[Len(s)].Count + p.Count
                   /\ t[Len(s)].LatencyMs = s[Len(s)].LatencyMs
                   /\ \A k \in 1..Len(s) : k # Len(s) => t[k] = s[k]
                \/ /\ s # << >> => Last(s).LatencyMs # p.LatencyMs
                   /\ Len(t) = Len(s) + 1 /\ t[Len(s) + 1] = p
                   /\ \A k \in 1..Len(s) : t[k] = s[k]
<1> DEFINE t == AddPoint(s, bar)
           p == PointOf(bar)
           merged == [s EXCEPT ![Len(s)].Count = @ + p.Count]
           l == s[Len(s)]
<1>1. Middle(bar) \in Nat
  <2>1. bar.From \in Nat /\ bar.To \in Nat
    BY DEF Bars
  <2>2. bar.To \div 2 \in Nat /\ bar.From \div 2 \in Nat
    BY <2>1, QuotientRises
  <2> QED BY <2>2 DEF Middle
<1>2. p \in LatencyPoints
  <2>1. Ms(Middle(bar)) \in Nat /\ bar.Count \in Nat
    BY <1>1, MsRises DEF Bars
  <2> QED BY <2>1 DEF PointOf, LatencyPoints
<1>3. t = IF s # << >> /\ Last(s).LatencyMs = p.LatencyMs THEN merged ELSE Append(s, p)
  BY DEF AddPoint, PointOf
<1> HIDE DEF p, t
<1>4. CASE s # << >> /\ Last(s).LatencyMs = p.LatencyMs
  <2>1. /\ Len(s) \in Nat \ {0} /\ DOMAIN s = 1..Len(s) /\ l \in LatencyPoints
        /\ Last(s) = l /\ \A k \in 1..Len(s) : s[k] \in LatencyPoints
    BY <1>4 DEF Last
  <2>2. merged = [s EXCEPT ![Len(s)] = [l EXCEPT !.Count = l.Count + p.Count]]
    OBVIOUS
  <2> DEFINE x == [l EXCEPT !.Count = l.Count + p.Count]
  <2>3. x \in LatencyPoints /\ x.Count = l.Count + p.Count /\ x.LatencyMs = l.LatencyMs
    <3> HIDE DEF l
    <3> DEFINE n == l.Count + p.Count
    <3>1. n \in Nat /\ l.LatencyMs \in Nat
      BY <1>2, <2>1 DEF LatencyPoints
    <3> HIDE DEF n
    <3>2. [l EXCEPT !.Count = n] = [LatencyMs |-> l.LatencyMs, Count |-> n]
      BY <2>1 DEF LatencyPoints
    <3> QED BY <3>1, <3>2 DEF LatencyPoints, n
  <2> HIDE DEF x, l
  <2>4. /\ merged \in Seq(LatencyPoints) /\ Len(merged) = Len(s) /\ merged[Len(s)] = x
        /\ \A k \in 1..Len(s) : k # Len(s) => merged[k] = s[k]
    BY <2>1, <2>2, <2>3 DEF x
  <2> HIDE DEF merged
  <2>5. t = merged /\ merged # << >>
    BY <1>3, <1>4, <2>1, <2>4
  <2> QED BY <1>2, <1>4, <2>1, <2>3, <2>4, <2>5 DEF t, p, l
<1>5. CASE ~(s # << >> /\ Last(s).LatencyMs = p.LatencyMs)
  <2>1. t = Append(s, p)
    BY <1>3, <1>5
  <2>2. /\ t \in Seq(LatencyPoints) /\ Len(t) = Len(s) + 1 /\ t[Len(s) + 1] = p
        /\ t # << >> /\ \A k \in 1..Len(s) : t[k] = s[k]
    BY <1>2, <2>1
  <2> QED BY <1>2, <1>5, <2>2 DEF t, p
<1> QED BY <1>4, <1>5

(* So the points count it too.                                             *)
LEMMA AddPointCounts ==
  ASSUME NEW s \in Seq(LatencyPoints), NEW bar \in Bars
  PROVE  SumFunction(CountsOf(AddPoint(s, bar))) = SumFunction(CountsOf(s)) + bar.Count
<1> DEFINE t == AddPoint(s, bar)
           p == PointOf(bar)
           n == Len(s)
           f == CountsOf(s)
           g == CountsOf(t)
<1>1. /\ p \in LatencyPoints /\ t \in Seq(LatencyPoints) /\ p.Count = bar.Count
      /\ \/ /\ s # << >> /\ Len(t) = n /\ t[n].Count = s[n].Count + p.Count
            /\ \A k \in 1..n : k # n => t[k] = s[k]
         \/ Len(t) = n + 1 /\ t[n + 1] = p /\ \A k \in 1..n : t[k] = s[k]
  BY AddPointOK DEF PointOf
<1> HIDE DEF t, p
<1>2. ASSUME NEW u \in Seq(LatencyPoints)
      PROVE  /\ CountsOf(u) \in [1..Len(u) -> Nat] /\ Len(u) \in Nat
             /\ \A k \in 1..Len(u) : CountsOf(u)[k] = u[k].Count
  <2>1. \A q \in LatencyPoints : q.Count \in Nat
    BY DEF LatencyPoints
  <2>2. Len(u) \in Nat /\ \A k \in 1..Len(u) : u[k] \in LatencyPoints
    OBVIOUS
  <2> QED BY <2>1, <2>2 DEF CountsOf
<1>3. /\ n \in Nat /\ f \in [1..n -> Nat] /\ g \in [1..Len(t) -> Nat] /\ p.Count \in Nat
      /\ \A k \in 1..n : f[k] = s[k].Count
      /\ \A k \in 1..Len(t) : g[k] = t[k].Count
  BY <1>1, <1>2 DEF LatencyPoints
<1>4. n = 0 <=> s = << >>
  OBVIOUS
<1> HIDE DEF n, f, g
<1>5. CASE s # << >> /\ Len(t) = n /\ t[n].Count = s[n].Count + p.Count
           /\ \A k \in 1..n : k # n => t[k] = s[k]
  <2> DEFINE I == 1..n
             c == p.Count
  <2>1. n \in I /\ IsFiniteSet(I)
    BY <1>3, <1>4, <1>5, FS_Interval
  <2>2. g[n] = f[n] + c /\ \A k \in I : k # n => g[k] = f[k]
    BY <1>3, <1>5, <2>1
  <2>3. f \in [I -> Nat] /\ g \in [I -> Nat] /\ c \in Nat
    BY <1>3, <1>5
  <2> HIDE DEF I, c
  <2>4. SumFunction(g) = SumFunction(f) + c
    BY <2>1, <2>2, <2>3, SumRaised, SMTT(30)
  <2> QED BY <1>1, <2>4 DEF f, g, t, c
<1>6. CASE Len(t) = n + 1 /\ t[n + 1] = p /\ \A k \in 1..n : t[k] = s[k]
  <2> DEFINE m == n + 1
             I == 1..m
  <2>1. /\ m \in I /\ I \ {m} = 1..n /\ DOMAIN g = I /\ DOMAIN f = 1..n /\ 1..n \in SUBSET I
        /\ \A k \in I : g[k] \in Nat
    BY <1>3, <1>6
  <2>2. IsFiniteSet(I) /\ IsFiniteSet(1..n)
    BY <1>3, FS_Interval
  <2>3. g[m] = p.Count /\ \A k \in 1..n : g[k] = f[k]
    BY <1>3, <1>6, <2>1
  <2> HIDE DEF I, m
  <2>4. SumFunctionOnSet(g, I) = SumFunctionOnSet(g, I \ {m}) + g[m]
    BY <2>1, <2>2, SumWithout
  <2>5. SumFunctionOnSet(g, 1..n) = SumFunctionOnSet(f, 1..n)
    BY <2>2, <2>3, SumSame
  <2>6. SumFunction(g) = SumFunction(f) + p.Count
    BY <2>1, <2>3, <2>4, <2>5 DEF SumFunction
  <2> QED BY <1>1, <2>6 DEF f, g, t
<1> QED BY <1>1, <1>5, <1>6

(* The points after each of the bars.                                      *)
LEMMA AddPointFold ==
  ASSUME NEW s \in Seq(Bars)
  PROVE  \E r : /\ r[0] = << >>
                /\ \A k \in 1..Len(s) : r[k] = AddPoint(r[k - 1], s[k])
                /\ \A k \in 0..Len(s) : r[k] \in Seq(LatencyPoints)
                /\ LatencyDistribution(s) = r[Len(s)]
<1> DEFINE V == Seq(LatencyPoints)
           Eq(h) == h = [T \in SUBSET DOMAIN s |->
                     IF T = {} THEN << >> ELSE AddPoint(h[T \ {Max(T)}], s[Max(T)])]
           op == [p \in V \X Bars |-> AddPoint(p[1], p[2])]
           g == CHOOSE h : Eq(h)
<1>1. LatencyDistribution(s) = g[DOMAIN s]
  BY DEF LatencyDistribution, FoldLeft, MapThenFoldSet
<1>2. << >> \in V
  OBVIOUS
<1>3. /\ StaysIn(op, V, Bars)
      /\ \A t \in V, bar \in Bars : op[<<t, bar>>] = AddPoint(t, bar)
  BY AddPointOK DEF StaysIn
<1> HIDE DEF op, V
<1>4. PICK h : LeftFolds(h, op, << >>, s) /\ \A T \in SUBSET DOMAIN s : h[T] \in V
  BY <1>2, <1>3, LeftFoldExists
<1>5. ASSUME NEW T \in SUBSET DOMAIN s, T # {}
      PROVE  op[<<h[T \ {Max(T)}], s[Max(T)]>>] = AddPoint(h[T \ {Max(T)}], s[Max(T)])
  <2>1. s[Max(T)] \in Bars /\ h[T \ {Max(T)}] \in V
    BY <1>4, <1>5, MaxIndex
  <2> QED BY <1>3, <2>1
<1>6. Eq(h)
  BY <1>4, <1>5 DEF LeftFolds
<1>7. Eq(g)
  BY <1>6
<1> HIDE DEF g
<1>8. g[{}] = << >> /\ FoldsWithin(g, V, op, s)
  <2>1. \A T \in SUBSET DOMAIN s : T # {} => s[Max(T)] \in Bars
    BY MaxIndex
  <2> QED BY <1>3, <1>7, <2>1 DEF FoldsWithin
<1>9. PICK r : FoldValues(r, << >>, op, s, V) /\ g[DOMAIN s] = r[Len(s)]
  BY <1>2, <1>3, <1>8, FoldRuns
<1>10. \A k \in 1..Len(s) : k - 1 \in 0..Len(s) /\ s[k] \in Bars
  OBVIOUS
<1>11. \A k \in 1..Len(s) : r[k] = AddPoint(r[k - 1], s[k])
  BY <1>3, <1>9, <1>10 DEF FoldValues
<1> QED BY <1>1, <1>9, <1>11 DEF FoldValues, V

Rising(s) == \A j, k \in DOMAIN s : j < k => s[j].LatencyMs < s[k].LatencyMs

(* Bars that come in order make the latencies of the points rise.          *)
LEMMA AddPointRises ==
  ASSUME NEW s \in Seq(LatencyPoints), Rising(s), NEW bar \in Bars,
         s # << >> => Last(s).LatencyMs <= PointOf(bar).LatencyMs
  PROVE  LET t == AddPoint(s, bar) IN
         Rising(t) /\ Last(t).LatencyMs = PointOf(bar).LatencyMs
<1> DEFINE t == AddPoint(s, bar)
           p == PointOf(bar)
           n == Len(s)
<1>1. /\ p \in LatencyPoints /\ t \in Seq(LatencyPoints) /\ t # << >>
      /\ \/ /\ s # << >> /\ Last(s).LatencyMs = p.LatencyMs
            /\ Len(t) = n /\ t[n].LatencyMs = s[n].LatencyMs
            /\ \A k \in 1..n : k # n => t[k] = s[k]
         \/ /\ s # << >> => Last(s).LatencyMs # p.LatencyMs
            /\ Len(t) = n + 1 /\ t[n + 1] = p
            /\ \A k \in 1..n : t[k] = s[k]
  BY AddPointOK
<1> HIDE DEF t, p
<1>2. /\ n \in Nat /\ DOMAIN s = 1..n /\ DOMAIN t = 1..Len(t)
      /\ Last(s) = s[n] /\ Last(t) = t[Len(t)]
      /\ n = 0 <=> s = << >>
  BY <1>1 DEF Last
<1>3. p.LatencyMs \in Nat /\ \A k \in 1..n : s[k].LatencyMs \in Nat
  <2>1. \A q \in LatencyPoints : q.LatencyMs \in Nat
    BY DEF LatencyPoints
  <2> QED BY <1>1, <2>1
<1>4. \A j, k \in 1..n : j < k => s[j].LatencyMs < s[k].LatencyMs
  BY <1>2 DEF Rising
<1>5. s # << >> => s[n].LatencyMs <= p.LatencyMs
  BY <1>2 DEF p
<1> HIDE DEF n
<1>6. CASE /\ s # << >> /\ Last(s).LatencyMs = p.LatencyMs
           /\ Len(t) = n /\ t[n].LatencyMs = s[n].LatencyMs
           /\ \A k \in 1..n : k # n => t[k] = s[k]
  <2>1. \A k \in 1..n : t[k].LatencyMs = s[k].LatencyMs
    BY <1>6
  <2>2. Rising(t)
    BY <1>2, <1>4, <1>6, <2>1 DEF Rising
  <2> QED BY <1>2, <1>6, <2>2 DEF t, p
<1>7. CASE /\ s # << >> => Last(s).LatencyMs # p.LatencyMs
           /\ Len(t) = n + 1 /\ t[n + 1] = p
           /\ \A k \in 1..n : t[k] = s[k]
  <2>1. \A j \in 1..n : s[j].LatencyMs < p.LatencyMs
    <3> TAKE j \in 1..n
    <3>1. n \in 1..n /\ s # << >> /\ (j = n \/ j < n)
      BY <1>2
    <3>2. s[n].LatencyMs < p.LatencyMs
      BY <1>2, <1>3, <1>5, <1>7, <3>1
    <3>3. s[j].LatencyMs <= s[n].LatencyMs
      BY <1>3, <1>4, <3>1
    <3> QED BY <1>3, <3>1, <3>2, <3>3
  <2>2. ASSUME NEW j \in 1..n + 1, NEW k \in 1..n + 1, j < k
        PROVE  t[j].LatencyMs < t[k].LatencyMs
    <3>1. j \in 1..n /\ t[j] = s[j]
      BY <1>2, <1>7, <2>2
    <3>2. CASE k = n + 1
      BY <1>7, <2>1, <3>1, <3>2
    <3>3. CASE k # n + 1
      <4>1. k \in 1..n /\ t[k] = s[k]
        BY <1>2, <1>7, <3>3
      <4> QED BY <1>4, <2>2, <3>1, <4>1
    <3> QED BY <3>2, <3>3
  <2>3. Rising(t)
    BY <1>2, <1>7, <2>2 DEF Rising
  <2> QED BY <1>2, <1>7, <2>3 DEF t, p
<1> QED BY <1>1, <1>6, <1>7

(* What the points of some bars in order are.                              *)
LEMMA LatencyDistributionOK ==
  ASSUME NEW s, Row(s)
  PROVE  LET points == LatencyDistribution(s) IN
         Rising(points) /\ SumCounts(points) = SumFunctionOnSet(CountsOf(s), 1..Len(s))
<1> DEFINE n == Len(s)
           points == LatencyDistribution(s)
<1>1. /\ s \in Seq(Bars) /\ n \in Nat /\ \A k \in 1..n : k - 1 \in 0..n /\ s[k] \in Bars
      /\ \A k \in 1..n : Middle(s[k]) \in Nat
      /\ \A j, k \in 1..n : j <= k => Middle(s[j]) <= Middle(s[k])
  BY DEF Row
<1> HIDE DEF n
<1>2. PICK r : /\ r[0] = << >>
               /\ \A k \in 1..n : r[k] = AddPoint(r[k - 1], s[k])
               /\ \A k \in 0..n : r[k] \in Seq(LatencyPoints)
               /\ points = r[n]
  BY <1>1, AddPointFold DEF n
<1> HIDE DEF points
<1> DEFINE Up(k) == Rising(r[k]) /\ (k > 0 => Last(r[k]).LatencyMs = Ms(Middle(s[k])))
           P == {k \in 0..n : Up(k)}
<1>3. 0 \in P
  BY <1>1, <1>2 DEF Rising
<1>4. ASSUME NEW k \in 1..n, k - 1 \in P PROVE k \in P
  <2> DEFINE u == r[k - 1]
             m == s[k]
  <2>1. /\ u \in Seq(LatencyPoints) /\ m \in Bars /\ r[k] = AddPoint(u, m) /\ k \in 0..n
        /\ Up(k - 1)
    BY <1>1, <1>2, <1>4
  <2>2. PointOf(m).LatencyMs = Ms(Middle(s[k]))
    BY DEF PointOf
  <2>3. ASSUME u # << >> PROVE Last(u).LatencyMs <= PointOf(m).LatencyMs
    <3>1. k - 1 # 0
      BY <1>2, <2>3
    <3>2. k - 1 \in 1..n /\ k - 1 > 0 /\ k - 1 <= k
      BY <1>1, <3>1
    <3>3. Last(u).LatencyMs = Ms(Middle(s[k - 1]))
      BY <2>1, <3>2
    <3>4. /\ Middle(s[k - 1]) \in Nat /\ Middle(s[k]) \in Nat
          /\ Middle(s[k - 1]) <= Middle(s[k])
      BY <1>1, <3>2
    <3>5. Ms(Middle(s[k - 1])) <= Ms(Middle(s[k]))
      BY <3>4, MsRises
    <3> QED BY <2>2, <3>3, <3>5
  <2>4. Rising(u)
    BY <2>1
  <2> HIDE DEF u, m
  <2>5. Rising(r[k]) /\ Last(r[k]).LatencyMs = PointOf(m).LatencyMs
    BY <2>1, <2>3, <2>4, AddPointRises
  <2> QED BY <2>1, <2>2, <2>5
<1>5. Rising(points)
  <2> HIDE DEF P
  <2>1. n \in P
    <3>1. \A k \in 0..n : k \in P
      BY <1>1, <1>3, <1>4, PrefixInduction
    <3> QED BY <1>1, <3>1
  <2> QED BY <1>2, <2>1 DEF P
<1> HIDE DEF P
<1> DEFINE g == CountsOf(s)
           v == [k \in 0..n |-> SumFunction(CountsOf(r[k]))]
<1>6. g \in [1..n -> Nat] /\ \A k \in 1..n : g[k] = s[k].Count
  <2>1. \A b \in Bars : b.Count \in Nat
    BY DEF Bars
  <2> QED BY <1>1, <2>1 DEF CountsOf, n
<1>7. v[0] = 0
  <2>1. v[0] = SumFunction(CountsOf(<< >>))
    BY <1>1, <1>2
  <2>2. DOMAIN CountsOf(<< >>) = {}
    BY DEF CountsOf
  <2> QED BY <2>1, <2>2, SumChosen DEF SumFunction
<1>8. \A k \in 1..n : v[k] = v[k - 1] + g[k]
  <2> TAKE k \in 1..n
  <2>1. k \in 0..n /\ k - 1 \in 0..n
    BY <1>1
  <2> HIDE DEF v
  <2>2. /\ r[k - 1] \in Seq(LatencyPoints) /\ s[k] \in Bars /\ k \in 0..n /\ k - 1 \in 0..n
        /\ r[k] = AddPoint(r[k - 1], s[k])
    BY <1>1, <1>2, <2>1
  <2>3. SumFunction(CountsOf(r[k])) = SumFunction(CountsOf(r[k - 1])) + s[k].Count
    BY <2>2, AddPointCounts
  <2> USE DEF v
  <2> HIDE DEF g
  <2> QED BY <1>6, <2>2, <2>3
<1>9. v[n] = SumFunction(CountsOf(points))
  BY <1>1, <1>2
<1> HIDE DEF g, v
<1>10. v[n] = SumFunction(g)
  BY <1>1, <1>6, <1>7, <1>8, AddedUp
<1>11. SumCounts(points) = SumFunction(CountsOf(points))
  <2>1. points \in Seq(LatencyPoints)
    BY <1>1, <1>2
  <2>2. SumCounts(points) = SumFunctionOnSet(CountsOf(points), 1..Len(points))
    BY <2>1, SumCountsSum DEF LatencyPoints
  <2>3. DOMAIN CountsOf(points) = 1..Len(points)
    BY DEF CountsOf
  <2> QED BY <2>2, <2>3 DEF SumFunction
<1>12. SumFunction(g) = SumFunctionOnSet(g, 1..n)
  BY <1>6 DEF SumFunction
<1> QED BY <1>5, <1>9, <1>10, <1>11, <1>12 DEF points, g, n

(* The limits of a bar, as far as they are known of a value in it, are in  *)
(* the order of the values.                                                *)
LEMMA EquivalentRises ==
  ASSUME NEW a \in Nat, NEW b \in Nat, a <= b
  PROVE  /\ LowestEquivalent(a) \in Nat /\ HighestEquivalent(b) \in Nat
         /\ LowestEquivalent(a) <= HighestEquivalent(b)
         /\ HighestEquivalent(a) <= HighestEquivalent(b)
<1> DEFINE w == BarWidth
           p == a \div w
           q == b \div w
<1>1. w \in Nat \ {0}
  BY ReportersAssumption
<1>2. p \in Nat /\ q \in Nat /\ p <= q
  BY <1>1, QuotientRises
<1>3. /\ LowestEquivalent(a) = p * w
      /\ HighestEquivalent(a) = p * w + w - 1 /\ HighestEquivalent(b) = q * w + w - 1
  BY DEF LowestEquivalent, HighestEquivalent
<1> HIDE DEF p, q, w
<1>4. PICK k \in Nat : q = p + k
  BY <1>2
<1>5. q * w = p * w + k * w /\ k * w \in Nat /\ p * w \in Nat
  BY <1>1, <1>2, <1>4
<1> QED BY <1>1, <1>3, <1>5

(* Minimum, percentiles and maximum are in order.                          *)
LEMMA StatsRise ==
  ASSUME NEW v \in Seq(Nat), Ascending(v)
  PROVE  LET s == LatencyStats(v) IN \A k \in 1..Len(s) - 1 : s[k] <= s[k + 1]
<1> DEFINE n == Len(v)
           Rank(q) == (q * n + 50) \div 100
           Quantile(q) == ValueAtQuantile(v, q)
           low == HistMin(v)
           high == HistHigh(v)
<1>1. n \in Nat /\ DOMAIN v = 1..n /\ (n = 0 <=> v = << >>) /\ \A k \in 1..n : v[k] \in Nat
  OBVIOUS
<1>2. LatencyStats(v) = << Ms(low), Ms(Quantile(50)), Ms(Quantile(75)), Ms(Quantile(90)),
                           Ms(Quantile(95)), Ms(Quantile(99)), Ms(high) >>
  BY DEF LatencyStats
<1>3. /\ low \in Nat /\ high \in Nat /\ \A q \in {50, 75, 90, 95, 99} : Quantile(q) \in Nat
      /\ low <= Quantile(50) /\ Quantile(50) <= Quantile(75) /\ Quantile(75) <= Quantile(90)
      /\ Quantile(90) <= Quantile(95) /\ Quantile(95) <= Quantile(99) /\ Quantile(99) <= high
  <2>1. CASE v = << >>
    BY <2>1 DEF HistMin, HistHigh, ValueAtQuantile
  <2>2. CASE v # << >>
    <3> DEFINE x(q) == v[Rank(q)]
    <3>1. /\ low = LowestEquivalent(v[1]) /\ high = HighestEquivalent(v[n])
          /\ \A q : Quantile(q) = HighestEquivalent(x(q))
      BY <2>2 DEF HistMin, HistHigh, ValueAtQuantile, Last
    <3>2. /\ \A q \in {50, 75, 90, 95, 99} : Rank(q) \in 1..n
          /\ Rank(50) <= Rank(75) /\ Rank(75) <= Rank(90) /\ Rank(90) <= Rank(95)
          /\ Rank(95) <= Rank(99) /\ 1 \in 1..n /\ n \in 1..n
      <4>1. n \in Nat \ {0}
        BY <1>1, <2>2
      <4> HIDE DEF n
      <4> QED BY <4>1
    <3>3. \A i, k \in 1..n : i <= k => v[i] <= v[k]
      <4>1. \A i, k \in 1..n : i <= k => i = k \/ i < k
        BY <1>1
      <4> QED BY <1>1, <4>1 DEF Ascending
    <3> HIDE DEF Rank, n
    <3>4. /\ v[1] \in Nat /\ v[n] \in Nat /\ \A q \in {50, 75, 90, 95, 99} : x(q) \in Nat
          /\ v[1] <= x(50) /\ x(50) <= x(75) /\ x(75) <= x(90)
          /\ x(90) <= x(95) /\ x(95) <= x(99) /\ x(99) <= v[n]
      BY <1>1, <3>2, <3>3
    <3> HIDE DEF x, low, high, Quantile
    <3>5. /\ \A a, b \in Nat : a <= b =>
               LowestEquivalent(a) \in Nat /\ LowestEquivalent(a) <= HighestEquivalent(b)
          /\ \A a, b \in Nat : a <= b => HighestEquivalent(a) <= HighestEquivalent(b)
          /\ \A a \in Nat : HighestEquivalent(a) \in Nat
      <4>1. \A a \in Nat : a <= a
        OBVIOUS
      <4> QED BY <4>1, EquivalentRises
    <3>6. low \in Nat /\ high \in Nat /\ \A q \in {50, 75, 90, 95, 99} : Quantile(q) \in Nat
      <4>1. \E a \in Nat : v[1] <= a
        BY <3>4
      <4> QED BY <3>1, <3>4, <3>5, <4>1
    <3>7. low <= Quantile(50)
      BY <3>1, <3>4, <3>5
    <3>8. Quantile(50) <= Quantile(75) /\ Quantile(75) <= Quantile(90)
      BY <3>1, <3>4, <3>5
    <3>9. Quantile(90) <= Quantile(95) /\ Quantile(95) <= Quantile(99)
      BY <3>1, <3>4, <3>5
    <3>10. Quantile(99) <= high
      BY <3>1, <3>4, <3>5
    <3> QED BY <3>6, <3>7, <3>8, <3>9, <3>10
  <2> QED BY <2>1, <2>2
<1> HIDE DEF low, high, Quantile
<1>4. /\ Ms(low) <= Ms(Quantile(50)) /\ Ms(Quantile(50)) <= Ms(Quantile(75))
      /\ Ms(Quantile(75)) <= Ms(Quantile(90)) /\ Ms(Quantile(90)) <= Ms(Quantile(95))
      /\ Ms(Quantile(95)) <= Ms(Quantile(99)) /\ Ms(Quantile(99)) <= Ms(high)
  <2>1. /\ Quantile(50) \in Nat /\ Quantile(75) \in Nat /\ Quantile(90) \in Nat
        /\ Quantile(95) \in Nat /\ Quantile(99) \in Nat
    BY <1>3
  <2>2. Ms(low) <= Ms(Quantile(50)) /\ Ms(Quantile(50)) <= Ms(Quantile(75))
    BY <1>3, <2>1, MsRises
  <2>3. Ms(Quantile(75)) <= Ms(Quantile(90)) /\ Ms(Quantile(90)) <= Ms(Quantile(95))
    BY <1>3, <2>1, MsRises
  <2>4. Ms(Quantile(95)) <= Ms(Quantile(99)) /\ Ms(Quantile(99)) <= Ms(high)
    BY <1>3, <2>1, MsRises
  <2> QED BY <2>2, <2>3, <2>4
<1> DEFINE s == LatencyStats(v)
<1>5. /\ Len(s) = 7 /\ s[1] = Ms(low) /\ s[2] = Ms(Quantile(50)) /\ s[3] = Ms(Quantile(75))
      /\ s[4] = Ms(Quantile(90)) /\ s[5] = Ms(Quantile(95)) /\ s[6] = Ms(Quantile(99))
      /\ s[7] = Ms(high)
  BY <1>2
<1> HIDE DEF s
<1>6. \A k \in 1..6 : s[k] <= s[k + 1]
  <2>1. s[1] <= s[2] /\ s[2] <= s[3] /\ s[3] <= s[4]
    BY <1>4, <1>5
  <2>2. s[4] <= s[5] /\ s[5] <= s[6] /\ s[6] <= s[7]
    BY <1>4, <1>5
  <2> QED BY <2>1, <2>2
<1>7. \A k \in 1..Len(s) - 1 : s[k] <= s[k + 1]
  BY <1>5, <1>6
<1> QED BY <1>7 DEF s

BarsAfter(v, i) == SubSeq(Distribution(v), i, Len(Distribution(v)))

(* Bars of a histogram from one of them on, which begin with a bar that no *)
(* value is before, and end with the last.                                 *)
LEMMA BarsFrom ==
  ASSUME NEW v \in Seq(Nat), Ascending(v), v # << >>, NEW i \in 1..Len(Distribution(v)),
         \A k \in DOMAIN v : v[k] \div BarWidth >= i - 1
  PROVE  /\ Row(BarsAfter(v, i))
         /\ Len(BarsAfter(v, i)) = Len(Distribution(v)) - i + 1
         /\ SumFunctionOnSet(CountsOf(BarsAfter(v, i)), 1..Len(BarsAfter(v, i))) = Len(v)
         /\ BarsAfter(v, i)[Len(BarsAfter(v, i))].Count > 0
<1> DEFINE b == Distribution(v)
           n == Len(b)
           s == SubSeq(b, i, n)
           m == n - i + 1
<1>1. /\ b \in Seq(Bars) /\ Len(b) = n /\ n \in Nat \ {0}
      /\ \A k \in 1..n : b[k] = Bar(k - 1, v)
      /\ \A k \in DOMAIN v : v[k] \div BarWidth \in 0..n - 1
      /\ b[n].Count > 0
  BY DistributionOK
<1>2. i \in 1..n
  OBVIOUS
<1> HIDE DEF b, n
<1>3. i \in Nat \ {0} /\ i <= n /\ m \in Nat \ {0} /\ m + i - 1 = n
  BY <1>1, <1>2
<1>4. s \in Seq(Bars) /\ Len(s) = m /\ \A k \in 1..m : s[k] = b[k + i - 1]
  BY <1>1, <1>3
<1> HIDE DEF s
<1>5. \A k \in 1..m : k + i - 1 \in 1..n /\ k + i - 2 \in Nat /\ (k + i - 1) - 1 = k + i - 2
  BY <1>3
<1>6. \A k \in 1..m : s[k] = Bar(k + i - 2, v)
  BY <1>1, <1>4, <1>5
<1>7. ASSUME NEW j \in 1..m, NEW k \in 1..m, j <= k
      PROVE  Middle(s[j]) \in Nat /\ Middle(s[j]) <= Middle(s[k])
  <2>1. j + i - 2 \in Nat /\ k + i - 2 \in Nat /\ j + i - 2 <= k + i - 2
    BY <1>3, <1>5, <1>7
  <2> QED BY <1>6, <2>1, MiddleRises
<1>8. \A k \in 1..m : Middle(s[k]) \in Nat
  <2>1. \A k \in 1..m : k <= k
    BY <1>3
  <2> QED BY <1>7, <2>1
<1>9. SumFunctionOnSet(CountsOf(s), 1..m) = Len(v)
  <2> DEFINE g == CountsOf(s)
             f == i - 1
  <2>1. f \in Nat /\ \A k \in DOMAIN v : v[k] \div BarWidth \in f..f + m - 1
    <3>1. f \in Nat /\ m = n - i + 1 /\ f + m - 1 = n - 1
      BY <1>3
    <3> HIDE DEF m
    <3>2. ASSUME NEW x \in 0..n - 1, x >= i - 1 PROVE x \in f..f + m - 1
      BY <1>1, <1>3, <3>1, <3>2
    <3> QED BY <1>1, <3>1, <3>2
  <2>2. \A k \in 1..m : g[k] = Bar(f + k - 1, v).Count
    <3>1. \A k \in 1..m : f + k - 1 = k + i - 2
      BY <1>3
    <3>2. \A k \in 1..m : g[k] = s[k].Count
      BY <1>4 DEF CountsOf
    <3> HIDE DEF g
    <3> QED BY <1>6, <3>1, <3>2
  <2>3. m \in Nat
    BY <1>3
  <2> HIDE DEF f, g, m
  <2> QED BY <2>1, <2>2, <2>3, BarsCountAll DEF g
<1>10. s[m].Count > 0
  <2>1. m \in 1..m
    BY <1>3
  <2> QED BY <1>1, <1>3, <1>4, <2>1
<1>11. Row(s)
  BY <1>4, <1>7, <1>8 DEF Row
<1> QED BY <1>4, <1>9, <1>10, <1>11 DEF s, b, n, BarsAfter

(* The JSON report of a run.                                               *)
LEMMA JsonOfRun == MergeInv => JsonInOrder
<1> SUFFICES ASSUME MergeInv PROVE JsonInOrder
  OBVIOUS
<1> DEFINE v == Held(Merged)
           b == Distribution(v)
           points == LatencyDistribution(b)
<1>1. v \in Seq(Nat) /\ Ascending(v) /\ Len(v) = whole.Hist
  BY HeldOfRun
<1> HIDE DEF v
<1>2. /\ Row(b)
      /\ SumFunctionOnSet(CountsOf(b), 1..Len(b)) = Len(v)
  <2>1. CASE v = << >>
    <3>1. b = << >>
      BY <2>1 DEF Distribution
    <3>2. SumFunctionOnSet(CountsOf(b), {}) = 0
      BY SumChosen
    <3>3. Len(<< >>) = 0 /\ 1..0 = {} /\ DOMAIN << >> = {} /\ << >> \in Seq(Bars)
      OBVIOUS
    <3>4. 1..Len(b) = {} /\ DOMAIN b = {} /\ Len(v) = 0 /\ b \in Seq(Bars)
      BY <2>1, <3>1, <3>3
    <3> HIDE DEF b
    <3> QED BY <3>2, <3>4 DEF Row
  <2>2. CASE v # << >>
    <3> DEFINE n == Len(b)
    <3>1. /\ b \in Seq(Bars) /\ n \in Nat \ {0}
          /\ \A k \in DOMAIN v : v[k] \div BarWidth \in 0..n - 1
      BY <1>1, <2>2, DistributionOK
    <3> HIDE DEF b
    <3>2. SubSeq(b, 1, n) = b /\ DOMAIN b = 1..n /\ 1 \in 1..n /\ n - 1 + 1 = n
      BY <3>1
    <3>3. \A k \in DOMAIN v : v[k] \div BarWidth >= 1 - 1
      BY <3>1
    <3> HIDE DEF n
    <3>4. b = BarsAfter(v, 1) /\ 1 \in 1..Len(Distribution(v))
      BY <3>2 DEF BarsAfter, b, n
    <3> QED BY <1>1, <2>2, <3>3, <3>4, BarsFrom
  <2> QED BY <2>1, <2>2
<1> HIDE DEF b
<1>3. /\ Rising(points)
      /\ SumCounts(points) = SumFunctionOnSet(CountsOf(b), 1..Len(b))
  BY <1>2, LatencyDistributionOK
<1>4. \A k \in 1..Len(LatencyStats(v)) - 1 : LatencyStats(v)[k] <= LatencyStats(v)[k + 1]
  BY <1>1, StatsRise
<1>5. SumCounts(points) = whole.Hist
  BY <1>1, <1>2, <1>3
<1> HIDE DEF points
<1> QED BY <1>3, <1>4, <1>5 DEF JsonInOrder, Rising, points, b, v

(***************************************************************************)
(* The bars of the standard report.                                        *)
(***************************************************************************)
(* A bar is as long as its count is great, and of full length for max.     *)
LEMMA MakeBarOK ==
  ASSUME NEW c \in Nat, NEW d \in Nat, c <= d, NEW max \in Nat \ {0}
  PROVE  /\ MakeBar(c, max) \in Nat /\ MakeBar(d, max) \in Nat
         /\ MakeBar(c, max) <= MakeBar(d, max)
         /\ MakeBar(max, max) = BarLength
<1> DEFINE a == 86 * c + max
           b == 86 * d + max
           m == 2 * max
<1>1. /\ \A e \in Nat : 2 * BarLength * e + max = 86 * e + max
      /\ a \in Nat /\ b \in Nat /\ a <= b /\ m \in Nat \ {0}
  BY DEF BarLength
<1>2. a \div m \in Nat /\ b \div m \in Nat /\ a \div m <= b \div m
  BY <1>1, QuotientRises
<1>3. /\ MakeBar(c, max) = IF c = 0 THEN 0 ELSE a \div m
      /\ MakeBar(d, max) = IF d = 0 THEN 0 ELSE b \div m
  BY <1>1 DEF MakeBar
<1>4. MakeBar(max, max) = BarLength
  <2>1. 86 * max + max = 43 * m + max /\ max \in 0..m - 1
    OBVIOUS
  <2> HIDE DEF m
  <2>2. (43 * m + max) \div m = 43
    BY <1>1, <2>1, QuotientIs
  <2>3. 2 * BarLength * max + max = 43 * m + max
    BY <1>1, <2>1
  <2> QED BY <2>2, <2>3 DEF MakeBar, BarLength, m
<1> HIDE DEF a, b, m
<1> QED BY <1>2, <1>3, <1>4

Drawn == [Latency : Nat, Count : Nat, Length : Nat]

(* What is drawn of the bars that are left of a histogram.                 *)
LEMMA DrawnOK ==
  ASSUME NEW b, Row(Trimmed(b)), Trimmed(b) # << >>, Trimmed(b)[1].Count > 0
  PROVE  LET s == Trimmed(b)
             t == PrintBars(b)
         IN
         /\ t \in Seq(Drawn) /\ Len(t) = Len(s)
         /\ \A k \in 1..Len(s) : t[k].Count = s[k].Count
         /\ Max({t[k].Length : k \in DOMAIN t}) = BarLength
         /\ \A j, k \in DOMAIN t : t[j].Count <= t[k].Count => t[j].Length <= t[k].Length
         /\ \A j, k \in DOMAIN t : j < k => t[j].Latency <= t[k].Latency
<1> DEFINE s == Trimmed(b)
           t == PrintBars(b)
           n == Len(s)
           I == 1..n
           C == {s[k].Count : k \in DOMAIN s}
           max == Fullest(s)
<1>1. /\ n \in Nat \ {0} /\ DOMAIN s = I /\ 1 \in I /\ IsFiniteSet(I)
      /\ \A k \in I : s[k] \in Bars
  <2>1. n \in Nat \ {0} /\ DOMAIN s = I /\ 1 \in I /\ \A k \in I : s[k] \in Bars
    <3>1. s \in Seq(Bars) /\ s # << >>
      BY DEF Row
    <3> HIDE DEF s
    <3> QED BY <3>1
  <2> HIDE DEF n
  <2>2. IsFiniteSet(I)
    BY <2>1, FS_Interval
  <2> QED BY <2>1, <2>2
<1>2. \A k \in I : s[k].Count \in Nat
  BY <1>1 DEF Bars
<1>3. /\ s[1].Count > 0 /\ \A k \in I : Middle(s[k]) \in Nat
      /\ \A j, k \in I : j <= k => Middle(s[j]) <= Middle(s[k])
  BY DEF Row
<1> HIDE DEF n, I, s, t
<1>4. ASSUME NEW f, \A k \in I : f[k] \in Nat, NEW S, S = {f[k] : k \in I}
      PROVE  Max(S) \in S /\ \A x \in S : x <= Max(S)
  <2> DEFINE g == [k \in I |-> f[k]]
  <2>1. g \in Surjection(I, S)
    BY <1>4 DEF Surjection
  <2>2. IsFiniteSet(S)
    BY <1>1, <2>1, FS_Surjection
  <2>3. S \in SUBSET Nat /\ S # {}
    BY <1>1, <1>4
  <2> QED BY <2>2, <2>3, MaxOK
<1>5. max \in C /\ \A x \in C : x <= max
  <2> DEFINE f == [k \in I |-> s[k].Count]
  <2>1. (\A k \in I : f[k] \in Nat) /\ C = {f[k] : k \in I}
    BY <1>1, <1>2
  <2>2. max = Max(C)
    BY DEF Fullest
  <2> HIDE DEF f, C, max
  <2> QED BY <1>4, <2>1, <2>2
<1> HIDE DEF max
<1>6. PICK l \in I : s[l].Count = max
  BY <1>1, <1>5
<1>7. max \in Nat \ {0} /\ \A k \in I : s[k].Count <= max
  <2>1. \A k \in I : s[k].Count <= max
    BY <1>1, <1>5
  <2> QED BY <1>1, <1>2, <1>3, <1>6, <2>1
<1> HIDE DEF C
<1>8. t = [k \in I |-> t[k]] /\ \A k \in I :
        /\ t[k] = [ Latency |-> RoundDuration(Middle(s[k])), Count |-> s[k].Count,
                    Length |-> MakeBar(s[k].Count, max) ]
        /\ t[k].Latency = RoundDuration(Middle(s[k])) /\ t[k].Count = s[k].Count
        /\ t[k].Length = MakeBar(s[k].Count, max)
  <2>1. t = [k \in DOMAIN s |->
               [ Latency |-> RoundDuration(Middle(s[k])), Count |-> s[k].Count,
                 Length |-> MakeBar(s[k].Count, Fullest(s)) ]]
    BY DEF PrintBars, s, t
  <2> QED BY <1>1, <2>1 DEF max
<1>9. \A j, k \in I : /\ t[j].Length \in Nat
                      /\ t[j].Count <= t[k].Count => t[j].Length <= t[k].Length
  <2> TAKE j, k \in I
  <2>1. s[j].Count \in Nat /\ s[k].Count \in Nat /\ s[j].Count <= s[j].Count
    BY <1>2
  <2>2. MakeBar(s[j].Count, max) \in Nat
    BY <1>7, <2>1, MakeBarOK
  <2>3. s[j].Count <= s[k].Count => MakeBar(s[j].Count, max) <= MakeBar(s[k].Count, max)
    BY <1>7, <2>1, MakeBarOK
  <2> QED BY <1>8, <2>2, <2>3
<1>10. \A j, k \in I : /\ t[j].Latency \in Nat
                       /\ j < k => t[j].Latency <= t[k].Latency
  <2> TAKE j, k \in I
  <2>1. /\ Middle(s[j]) \in Nat /\ Middle(s[k]) \in Nat
        /\ j < k => Middle(s[j]) <= Middle(s[k])
    <3>1. j < k => j <= k
      BY <1>1 DEF I
    <3> QED BY <1>3, <3>1
  <2>2. RoundDuration(Middle(s[j])) \in Nat
    BY <2>1, RoundDurationType
  <2>3. j < k => RoundDuration(Middle(s[j])) <= RoundDuration(Middle(s[k]))
    BY <2>1, RoundingKeepsOrder
  <2> QED BY <1>8, <2>2, <2>3
<1>11. t \in Seq(Drawn) /\ Len(t) = n
  <2>1. \A k \in I : t[k] \in Drawn
    <3> TAKE k \in I
    <3> DEFINE x == RoundDuration(Middle(s[k]))
               y == s[k].Count
               z == MakeBar(y, max)
    <3>1. t[k] = [Latency |-> x, Count |-> y, Length |-> z]
      BY <1>8
    <3>2. x \in Nat
      BY <1>3, RoundDurationType
    <3>3. y \in Nat /\ y <= y
      BY <1>2
    <3> HIDE DEF y
    <3>4. z \in Nat
      BY <1>7, <3>3, MakeBarOK
    <3> HIDE DEF x, z
    <3> QED BY <3>1, <3>2, <3>3, <3>4 DEF Drawn
  <2>2. t = [k \in 1..n |-> t[k]]
    BY <1>1, <1>8 DEF I
  <2> QED BY <1>1, <2>1, <2>2 DEF I
<1>12. Max({t[k].Length : k \in DOMAIN t}) = BarLength
  <2> DEFINE f == [k \in I |-> t[k].Length]
             L == {t[k].Length : k \in DOMAIN t}
             top == Max(L)
  <2>1. (\A k \in I : f[k] \in Nat) /\ L = {f[k] : k \in I}
    BY <1>8, <1>9
  <2>2. \A x \in L : x \in Nat /\ \E k \in I : x = t[k].Length
    BY <1>8, <1>9
  <2>3. \A k \in I : t[k].Length \in L
    BY <1>8
  <2> HIDE DEF f, L
  <2>4. top \in L /\ \A x \in L : x <= top
    BY <1>4, <2>1
  <2> HIDE DEF top
  <2>5. t[l].Length = BarLength
    <3>1. max <= max
      BY <1>7
    <3>2. MakeBar(max, max) = BarLength
      BY <1>7, <3>1, MakeBarOK
    <3> QED BY <1>6, <1>8, <3>2
  <2>6. BarLength <= top
    BY <2>3, <2>4, <2>5
  <2>7. top <= BarLength
    <3>1. PICK k \in I : top = t[k].Length
      BY <2>2, <2>4
    <3>2. t[k].Count <= t[l].Count
      BY <1>6, <1>7, <1>8
    <3> QED BY <1>9, <2>5, <3>1, <3>2
  <2>8. top \in Nat /\ BarLength \in Nat
    BY <2>2, <2>4 DEF BarLength
  <2> QED BY <2>6, <2>7, <2>8 DEF top, L
<1>13. DOMAIN t = I
  BY <1>11 DEF I
<1>14. \A k \in 1..Len(s) : t[k].Count = s[k].Count
  BY <1>8 DEF I, n
<1>15. \A j, k \in DOMAIN t : t[j].Count <= t[k].Count => t[j].Length <= t[k].Length
  BY <1>9, <1>13
<1>16. \A j, k \in DOMAIN t : j < k => t[j].Latency <= t[k].Latency
  BY <1>10, <1>13
<1> HIDE DEF n
<1> QED BY <1>11, <1>12, <1>14, <1>15, <1>16 DEF n, s, t

(* The bars of a run with more than one duration.                          *)
LEMMA BarsOfMore ==
  ASSUME MergeInv, Merged.Hist > 1
  PROVE  LET t == PrintBars(Distribution(Held(Merged))) IN
         /\ SumCounts(t) = whole.Hist
         /\ Head(t).Count > 0 /\ Last(t).Count > 0
         /\ Max({t[k].Length : k \in DOMAIN t}) = BarLength
         /\ \A j, k \in DOMAIN t : t[j].Count <= t[k].Count => t[j].Length <= t[k].Length
         /\ \A j, k \in DOMAIN t : j < k => t[j].Latency <= t[k].Latency
<1> DEFINE v == Held(Merged)
           b == Distribution(v)
           n == Len(b)
           F == {k \in DOMAIN b : b[k].Count > 0}
           i == Min(F)
           s == Trimmed(b)
           t == PrintBars(b)
<1>1. v \in Seq(Nat) /\ Ascending(v) /\ Len(v) = whole.Hist /\ v # << >>
  <2>1. v \in Seq(Nat) /\ Ascending(v) /\ Len(v) = whole.Hist /\ Merged.Hist = whole.Hist
    BY HeldOfRun
  <2> HIDE DEF v
  <2>2. Len(v) > 1
    BY <2>1
  <2> QED BY <2>1, <2>2
<1> HIDE DEF v
<1>2. /\ b \in Seq(Bars) /\ n \in Nat \ {0} /\ DOMAIN b = 1..n
      /\ \A k \in 1..n : b[k] = Bar(k - 1, v)
      /\ \A k \in DOMAIN v : v[k] \div BarWidth \in 0..n - 1
      /\ b[n].Count > 0
  BY <1>1, DistributionOK
<1>3. s = SubSeq(b, i, n)
  BY DEF Trimmed
<1> HIDE DEF b
<1>4. i \in F /\ \A k \in F : i <= k
  <2>1. F \in SUBSET (1..n) /\ n \in F
    BY <1>2
  <2>2. n \in Nat /\ F # {}
    BY <1>2, <2>1
  <2> HIDE DEF F, n
  <2> QED BY <2>1, <2>2, MinIn
<1>5. i \in 1..n /\ b[i].Count > 0 /\ \A k \in 1..n : b[k].Count > 0 => i <= k
  <2> HIDE DEF i
  <2> QED BY <1>2, <1>4
<1> HIDE DEF i, F
<1>6. \A k \in DOMAIN v : v[k] \div BarWidth >= i - 1
  <2> TAKE k \in DOMAIN v
  <2> DEFINE q == v[k] \div BarWidth
  <2>1. q \in 0..n - 1 /\ k \in AtBar(v, q)
    BY <1>2 DEF AtBar
  <2> HIDE DEF q
  <2>2. q + 1 \in 1..n /\ q \in Nat /\ (q + 1) - 1 = q
    BY <1>2, <2>1
  <2>3. b[q + 1].Count > 0
    BY <1>1, <1>2, <2>1, <2>2, BarOK
  <2>4. i <= q + 1
    BY <1>5, <2>2, <2>3
  <2> QED BY <1>2, <1>5, <2>2, <2>4 DEF q
<1> HIDE DEF s
<1>7. /\ Row(s) /\ Len(s) = n - i + 1
      /\ SumFunctionOnSet(CountsOf(s), 1..Len(s)) = Len(v)
      /\ s[Len(s)].Count > 0
  <2>1. n = Len(Distribution(v)) /\ s = SubSeq(Distribution(v), i, n)
    BY <1>3 DEF b
  <2> HIDE DEF n
  <2>2. s = BarsAfter(v, i) /\ i \in 1..Len(Distribution(v))
    BY <1>5, <2>1 DEF BarsAfter
  <2> QED BY <1>1, <1>6, <2>1, <2>2, BarsFrom
<1>8. s # << >> /\ s[1].Count > 0 /\ Len(s) \in Nat \ {0}
  <2>1. 1 <= i /\ i <= n /\ n - i + 1 \in Nat \ {0} /\ i \in Nat
    BY <1>2, <1>5
  <2>2. Len(s) \in Nat \ {0} /\ s # << >>
    BY <1>7, <2>1 DEF Row
  <2>3. s[1] = b[i]
    BY <1>2, <1>3, <2>1
  <2> QED BY <1>5, <2>2, <2>3
<1>9. s = Trimmed(b) /\ t = PrintBars(b)
  BY DEF s
<1> HIDE DEF t
<1>10. /\ t \in Seq(Drawn) /\ Len(t) = Len(s)
       /\ \A k \in 1..Len(s) : t[k].Count = s[k].Count
       /\ Max({t[k].Length : k \in DOMAIN t}) = BarLength
       /\ \A j, k \in DOMAIN t : t[j].Count <= t[k].Count => t[j].Length <= t[k].Length
       /\ \A j, k \in DOMAIN t : j < k => t[j].Latency <= t[k].Latency
  <2> HIDE DEF n
  <2> QED BY <1>7, <1>8, <1>9, DrawnOK
<1> HIDE DEF n
<1>11. SumCounts(t) = whole.Hist
  <2>1. SumCounts(t) = SumFunctionOnSet(CountsOf(t), 1..Len(t))
    BY <1>10, SumCountsSum DEF Drawn
  <2>2. CountsOf(t) = CountsOf(s)
    BY <1>10 DEF CountsOf
  <2> QED BY <1>1, <1>7, <1>10, <2>1, <2>2
<1>12. Head(t).Count > 0 /\ Last(t).Count > 0
  <2>1. Head(t) = t[1] /\ Last(t) = t[Len(t)]
    BY <1>8, <1>10 DEF Last
  <2>2. 1 \in 1..Len(s) /\ Len(s) \in 1..Len(s)
    BY <1>8
  <2> QED BY <1>7, <1>8, <1>10, <2>1, <2>2
<1> QED BY <1>10, <1>11, <1>12 DEF t, b, v

(* The standard report of a run.                                           *)
LEMMA BarsOfRun == MergeInv => BarsDrawn
<1> SUFFICES ASSUME MergeInv PROVE BarsDrawn
  OBVIOUS
<1> DEFINE v == Held(Merged)
           t == StdDistribution(v)
<1>1. v \in Seq(Nat) /\ Len(v) = whole.Hist /\ Merged.Hist = whole.Hist
  BY HeldOfRun
<1>2. CASE whole.Hist > 1
  <2>1. t = PrintBars(Distribution(v))
    <3> HIDE DEF v
    <3> QED BY <1>1, <1>2 DEF StdDistribution
  <2>2. Merged.Hist > 1
    BY <1>1, <1>2
  <2> HIDE DEF t
  <2>3. /\ SumCounts(t) = whole.Hist
        /\ Head(t).Count > 0 /\ Last(t).Count > 0
        /\ Max({t[k].Length : k \in DOMAIN t}) = BarLength
        /\ \A j, k \in DOMAIN t : t[j].Count <= t[k].Count => t[j].Length <= t[k].Length
        /\ \A j, k \in DOMAIN t : j < k => t[j].Latency <= t[k].Latency
    BY <2>1, <2>2, BarsOfMore
  <2> QED BY <1>2, <2>3 DEF BarsDrawn, t
<1>3. CASE ~(whole.Hist > 1)
  <2>1. t = << >>
    <3> HIDE DEF v
    <3> QED BY <1>1, <1>3 DEF StdDistribution
  <2> HIDE DEF t
  <2>2. SumCounts(t) = 0
    <3>1. \A e \in Drawn : e.Count \in Nat
      BY DEF Drawn
    <3>2. t \in Seq(Drawn) /\ 1..Len(t) = {}
      BY <2>1
    <3>3. SumCounts(t) = SumFunctionOnSet(CountsOf(t), 1..Len(t))
      BY <3>1, <3>2, SumCountsSum
    <3>4. SumFunctionOnSet(CountsOf(t), {}) = 0
      BY SumChosen
    <3> QED BY <3>2, <3>3, <3>4
  <2>3. DOMAIN t = {}
    BY <2>1
  <2> QED BY <1>3, <2>1, <2>2, <2>3 DEF BarsDrawn, t
<1> QED BY <1>2, <1>3

(* Whatever run it is, both reports show every duration that was measured  *)
(* and is in range, and show them in order: neither rounding nor the order *)
(* in which workers finish loses one or turns two of them around.          *)
THEOREM LatenciesAreReported == Spec => []LatenciesReported
<1>1. MergeInv => LatenciesReported
  BY JsonOfRun, BarsOfRun DEF LatenciesReported
<1> QED BY WholeIsTheSum, <1>1, PTL
=============================================================================

---------------------------- MODULE SumTheorems -----------------------------
(***************************************************************************)
(* What SumFunction adds up.  It is a fold: the sum over a set is a value  *)
(* taken out of it plus the sum over the rest, where the function of all   *)
(* these sums is the one chosen to satisfy that.  Here it is shown that    *)
(* there is one, and then by induction over the subsets of a finite set    *)
(* what the rest of the proofs need.  The induction is that a set of       *)
(* subsets for which a claim fails has a minimal element.                  *)
(* Other folds are treated alike, those over a sequence at the end.        *)
(***************************************************************************)
EXTENDS Integers, Sequences, Functions, FiniteSetsExt, FiniteSetTheorems, TLAPS

(* The value that a fold takes out first.                                  *)
Chosen(s) == CHOOSE x \in s : TRUE

SumStep(f, g, s) == IF s = {} THEN 0 ELSE f[Chosen(s)] + g[s \ {Chosen(s)}]

(* g holds the sums of f over the subsets of S.                            *)
Sums(g, f, S) == g = [s \in SUBSET S |-> SumStep(f, g, s)]

(* Sets of subsets of a finite set have minimal elements.                  *)
LEMMA MinimalSubset ==
  ASSUME NEW S, IsFiniteSet(S), NEW B \in SUBSET SUBSET S, B # {}
  PROVE  \E T \in B : \A U \in B : U \subseteq T => U = T
<1> DEFINE R == StrictSubsetOrdering(S)
<1>1. IsWellFoundedOn(R, SUBSET S)
  BY FS_StrictSubsetOrderingWellFounded, FS_FiniteSubsetsOfFinite
<1> HIDE DEF R
<1>2. \E T \in B : \A U \in B : ~ (<<U, T>> \in R)
  BY <1>1, WFMin
<1> QED BY <1>2 DEF R, StrictSubsetOrdering

(* So whatever passes from the strict subsets of a set to the set holds of *)
(* the whole: P is the set of subsets it holds of.                         *)
LEMMA SubsetInduction ==
  ASSUME NEW S, IsFiniteSet(S), NEW P,
         \A T \in SUBSET S : (\A U \in SUBSET T : U # T => U \in P) => T \in P
  PROVE  S \in P
<1> DEFINE B == {T \in SUBSET S : T \notin P}
<1>1. SUFFICES ASSUME S \notin P PROVE FALSE
  OBVIOUS
<1>2. B # {} /\ B \in SUBSET SUBSET S
  BY <1>1
<1> HIDE DEF B
<1>3. PICK T \in B : \A U \in B : U \subseteq T => U = T
  BY <1>2, MinimalSubset
<1> USE DEF B
<1>4. \A U \in SUBSET T : U # T => U \in P
  BY <1>3
<1> QED BY <1>3, <1>4

(* The same, one element at a time.                                        *)
LEMMA ChosenInduction ==
  ASSUME NEW S, IsFiniteSet(S), NEW P, {} \in P,
         \A T \in SUBSET S : T # {} /\ T \ {Chosen(T)} \in P => T \in P
  PROVE  S \in P
<1>1. ASSUME NEW T \in SUBSET S, \A U \in SUBSET T : U # T => U \in P
      PROVE  T \in P
  <2>1. CASE T = {}
    BY <2>1
  <2>2. CASE T # {}
    <3>1. Chosen(T) \in T
      BY <2>2 DEF Chosen
    <3>2. T \ {Chosen(T)} \in P
      BY <1>1, <3>1
    <3> QED BY <2>2, <3>2
  <2> QED BY <2>1, <2>2
<1> QED BY <1>1, SubsetInduction

(* The sums over a set do not depend on where they are taken from.         *)
LEMMA SumsAgree ==
  ASSUME NEW f, NEW S, IsFiniteSet(S), NEW T, NEW g, NEW h,
         Sums(g, f, S), Sums(h, f, T), S \subseteq T
  PROVE  g[S] = h[S]
<1> DEFINE P == {U \in SUBSET S : g[U] = h[U]}
<1>1. {} \in P
  BY DEF Sums, SumStep
<1>2. ASSUME NEW U \in SUBSET S, U # {}, U \ {Chosen(U)} \in P
      PROVE  U \in P
  BY <1>2 DEF Sums, SumStep
<1> HIDE DEF P
<1>3. S \in P
  BY <1>1, <1>2, ChosenInduction
<1> QED BY <1>3 DEF P

(* There are sums over the subsets of a finite set.                        *)
LEMMA SumsExist ==
  ASSUME NEW f, NEW S, IsFiniteSet(S)
  PROVE  \E g : Sums(g, f, S)
<1> DEFINE P == {T \in SUBSET S : \E g : Sums(g, f, T)}
<1>1. ASSUME NEW T \in SUBSET S, \A U \in SUBSET T : U # T => U \in P
      PROVE  T \in P
  <2> DEFINE V(U) == (CHOOSE g : Sums(g, f, U))[U]
             W == [U \in SUBSET T |-> V(U)]
             g == [U \in SUBSET T |-> IF U = T THEN SumStep(f, W, T) ELSE V(U)]
  <2>1. ASSUME NEW U \in SUBSET T, U # T
        PROVE  Sums(CHOOSE h : Sums(h, f, U), f, U)
    BY <1>1, <2>1
  <2>2. ASSUME NEW U \in SUBSET T PROVE g[U] = SumStep(f, g, U)
    <3>1. CASE U = {} /\ U = T
      BY <3>1 DEF SumStep
    <3>2. CASE U = {} /\ U # T
      <4> DEFINE h == CHOOSE h : Sums(h, f, U)
      <4>1. Sums(h, f, U) /\ V(U) = h[U]
        BY <2>1, <3>2
      <4> HIDE DEF h
      <4>2. h[U] = 0
        BY <3>2, <4>1 DEF Sums, SumStep
      <4>3. g[U] = h[U]
        BY <3>2, <4>1
      <4>4. SumStep(f, g, U) = 0
        BY <3>2 DEF SumStep
      <4> QED BY <4>2, <4>3, <4>4
    <3>3. CASE U # {}
      <4> DEFINE X == U \ {Chosen(U)}
      <4>1. X \in SUBSET U /\ X # U /\ X # T /\ X \in SUBSET T
        BY <3>3 DEF Chosen
      <4>2. SumStep(f, g, U) = f[Chosen(U)] + V(X)
        BY <3>3, <4>1 DEF SumStep
      <4>3. CASE U = T
        BY <3>3, <4>1, <4>2, <4>3 DEF SumStep
      <4>4. CASE U # T
        <5> DEFINE h == CHOOSE h : Sums(h, f, U)
                   k == CHOOSE k : Sums(k, f, X)
        <5>1. Sums(h, f, U) /\ Sums(k, f, X)
          BY <2>1, <4>1, <4>4
        <5>2. IsFiniteSet(X)
          BY FS_Subset
        <5> HIDE DEF h, k
        <5>3. k[X] = h[X]
          BY <4>1, <5>1, <5>2, SumsAgree
        <5>4. h[U] = f[Chosen(U)] + h[X]
          BY <3>3, <5>1 DEF Sums, SumStep
        <5>5. V(U) = h[U] /\ V(X) = k[X]
          BY DEF h, k
        <5> QED BY <4>2, <4>4, <5>3, <5>4, <5>5
      <4> QED BY <4>3, <4>4
    <3> QED BY <3>1, <3>2, <3>3
  <2>3. Sums(g, f, T)
    BY <2>2 DEF Sums
  <2> QED BY <2>3
<1> HIDE DEF P
<1>2. S \in P
  BY <1>1, SubsetInduction
<1> QED BY <1>2 DEF P

(***************************************************************************)
(* SumFunctionOnSet, element by element.                                   *)
(***************************************************************************)
LEMMA SumChosen ==
  ASSUME NEW f
  PROVE  /\ SumFunctionOnSet(f, {}) = 0
         /\ \A S : IsFiniteSet(S) /\ S # {} =>
              SumFunctionOnSet(f, S)
                = f[Chosen(S)] + SumFunctionOnSet(f, S \ {Chosen(S)})
<1>1. ASSUME NEW S PROVE SumFunctionOnSet(f, S) = (CHOOSE g : Sums(g, f, S))[S]
  BY DEF SumFunctionOnSet, FoldFunctionOnSet, MapThenFoldSet, Sums, SumStep, Chosen
<1>2. ASSUME NEW S, IsFiniteSet(S) PROVE Sums(CHOOSE g : Sums(g, f, S), f, S)
  BY <1>2, SumsExist
<1>3. SumFunctionOnSet(f, {}) = 0
  <2> DEFINE g == CHOOSE g : Sums(g, f, {})
  <2>1. Sums(g, f, {})
    BY <1>2, FS_EmptySet
  <2> HIDE DEF g
  <2>2. g[{}] = 0
    BY <2>1 DEF Sums, SumStep
  <2> QED BY <1>1, <2>2 DEF g
<1>4. ASSUME NEW S, IsFiniteSet(S), S # {}
      PROVE  SumFunctionOnSet(f, S)
                = f[Chosen(S)] + SumFunctionOnSet(f, S \ {Chosen(S)})
  <2> DEFINE X == S \ {Chosen(S)}
             g == CHOOSE g : Sums(g, f, S)
             h == CHOOSE h : Sums(h, f, X)
  <2>1. IsFiniteSet(X)
    BY <1>4, FS_Subset
  <2>2. Sums(g, f, S) /\ Sums(h, f, X)
    BY <1>2, <1>4, <2>1
  <2> HIDE DEF g, h
  <2>3. g[S] = f[Chosen(S)] + g[X]
    BY <1>4, <2>2 DEF Sums, SumStep
  <2>4. h[X] = g[X]
    BY <2>1, <2>2, SumsAgree
  <2> QED BY <1>1, <2>3, <2>4 DEF g, h
<1> QED BY <1>3, <1>4

(* Values that agree have the same sum.                                    *)
LEMMA SumSame ==
  ASSUME NEW f, NEW g, NEW S, IsFiniteSet(S), \A x \in S : f[x] = g[x]
  PROVE  SumFunctionOnSet(f, S) = SumFunctionOnSet(g, S)
<1> DEFINE P == {T \in SUBSET S : SumFunctionOnSet(f, T) = SumFunctionOnSet(g, T)}
<1>1. {} \in P
  BY SumChosen
<1>2. ASSUME NEW T \in SUBSET S, T # {}, T \ {Chosen(T)} \in P PROVE T \in P
  <2> DEFINE X == T \ {Chosen(T)}
  <2>1. IsFiniteSet(T) /\ Chosen(T) \in S
    BY <1>2, FS_Subset DEF Chosen
  <2>2. SumFunctionOnSet(f, X) = SumFunctionOnSet(g, X) /\ f[Chosen(T)] = g[Chosen(T)]
    BY <1>2, <2>1
  <2>3. \A k : SumFunctionOnSet(k, T) = k[Chosen(T)] + SumFunctionOnSet(k, X)
    BY <1>2, <2>1, SumChosen
  <2>4. SumFunctionOnSet(f, T) = SumFunctionOnSet(g, T)
    BY <2>2, <2>3
  <2> QED BY <2>4
<1> HIDE DEF P
<1>3. S \in P
  BY <1>1, <1>2, ChosenInduction
<1> QED BY <1>3 DEF P

(* A sum of natural numbers is one, and is as large as each of them.       *)
LEMMA SumNat ==
  ASSUME NEW f, NEW S, IsFiniteSet(S), \A x \in S : f[x] \in Nat
  PROVE  SumFunctionOnSet(f, S) \in Nat
<1> DEFINE P == {T \in SUBSET S : SumFunctionOnSet(f, T) \in Nat}
<1>1. {} \in P
  BY SumChosen
<1>2. ASSUME NEW T \in SUBSET S, T # {}, T \ {Chosen(T)} \in P PROVE T \in P
  <2>1. IsFiniteSet(T) /\ Chosen(T) \in S
    BY <1>2, FS_Subset DEF Chosen
  <2>2. f[Chosen(T)] \in Nat /\ SumFunctionOnSet(f, T \ {Chosen(T)}) \in Nat
    BY <1>2, <2>1
  <2>3. SumFunctionOnSet(f, T) = f[Chosen(T)] + SumFunctionOnSet(f, T \ {Chosen(T)})
    BY <1>2, <2>1, SumChosen
  <2> QED BY <2>2, <2>3
<1> HIDE DEF P
<1>3. S \in P
  BY <1>1, <1>2, ChosenInduction
<1> QED BY <1>3 DEF P

(* The sum of sums.                                                        *)
LEMMA SumPlus ==
  ASSUME NEW f, NEW g, NEW h, NEW S, IsFiniteSet(S),
         \A x \in S : f[x] \in Nat /\ g[x] \in Nat /\ h[x] = f[x] + g[x]
  PROVE  SumFunctionOnSet(h, S) = SumFunctionOnSet(f, S) + SumFunctionOnSet(g, S)
<1> DEFINE P == {T \in SUBSET S :
                   SumFunctionOnSet(h, T) = SumFunctionOnSet(f, T) + SumFunctionOnSet(g, T)}
<1>1. {} \in P
  BY SumChosen
<1>2. ASSUME NEW T \in SUBSET S, T # {}, T \ {Chosen(T)} \in P PROVE T \in P
  <2> DEFINE X == T \ {Chosen(T)}
  <2>1. IsFiniteSet(T) /\ IsFiniteSet(X) /\ Chosen(T) \in S /\ X \in SUBSET S
    BY <1>2, FS_Subset DEF Chosen
  <2>2. SumFunctionOnSet(f, X) \in Nat /\ SumFunctionOnSet(g, X) \in Nat
    BY <2>1, SumNat
  <2>3. \A k : SumFunctionOnSet(k, T) = k[Chosen(T)] + SumFunctionOnSet(k, X)
    BY <1>2, <2>1, SumChosen
  <2>4. SumFunctionOnSet(h, X) = SumFunctionOnSet(f, X) + SumFunctionOnSet(g, X)
    BY <1>2
  <2>5. /\ f[Chosen(T)] \in Nat /\ g[Chosen(T)] \in Nat
        /\ h[Chosen(T)] = f[Chosen(T)] + g[Chosen(T)]
    BY <2>1
  <2> HIDE DEF X
  <2>6. SumFunctionOnSet(h, T) = SumFunctionOnSet(f, T) + SumFunctionOnSet(g, T)
    BY <2>2, <2>3, <2>4, <2>5
  <2> QED BY <2>6
<1> HIDE DEF P
<1>3. S \in P
  BY <1>1, <1>2, ChosenInduction
<1> QED BY <1>3 DEF P

(* One value and nothing else.                                             *)
LEMMA SumOne ==
  ASSUME NEW f, NEW S, IsFiniteSet(S), NEW a, NEW n \in Nat,
         \A x \in S : f[x] = IF x = a THEN n ELSE 0
  PROVE  SumFunctionOnSet(f, S) = IF a \in S THEN n ELSE 0
<1> DEFINE P == {T \in SUBSET S : SumFunctionOnSet(f, T) = IF a \in T THEN n ELSE 0}
<1>1. {} \in P
  BY SumChosen
<1>2. ASSUME NEW T \in SUBSET S, T # {}, T \ {Chosen(T)} \in P PROVE T \in P
  <2>1. IsFiniteSet(T) /\ Chosen(T) \in T
    BY <1>2, FS_Subset DEF Chosen
  <2>2. SumFunctionOnSet(f, T) = f[Chosen(T)] + SumFunctionOnSet(f, T \ {Chosen(T)})
    BY <1>2, <2>1, SumChosen
  <2>3. f[Chosen(T)] = IF Chosen(T) = a THEN n ELSE 0
    BY <2>1
  <2>4. SumFunctionOnSet(f, T \ {Chosen(T)}) = IF a \in T \ {Chosen(T)} THEN n ELSE 0
    BY <1>2
  <2>5. SumFunctionOnSet(f, T) = IF a \in T THEN n ELSE 0
    BY <2>1, <2>2, <2>3, <2>4
  <2> QED BY <2>5
<1> HIDE DEF P
<1>3. S \in P
  BY <1>1, <1>2, ChosenInduction
<1> QED BY <1>3 DEF P

(* Any value may be taken out first, not only the one that is chosen.      *)
LEMMA SumWithout ==
  ASSUME NEW f, NEW S, IsFiniteSet(S), \A x \in S : f[x] \in Nat, NEW a \in S
  PROVE  SumFunctionOnSet(f, S) = SumFunctionOnSet(f, S \ {a}) + f[a]
<1> DEFINE Sum(T) == SumFunctionOnSet(f, T)
           P == {T \in SUBSET S : \A x \in T : Sum(T) = Sum(T \ {x}) + f[x]}
<1>1. \A T \in SUBSET S : IsFiniteSet(T) /\ Sum(T) \in Nat
  <2> TAKE T \in SUBSET S
  <2>1. IsFiniteSet(T) /\ \A x \in T : f[x] \in Nat
    BY FS_Subset
  <2> QED BY <2>1, SumNat
<1>2. \A T \in SUBSET S : T # {} => Chosen(T) \in T /\ Sum(T) = f[Chosen(T)] + Sum(T \ {Chosen(T)})
  BY <1>1, SumChosen DEF Chosen
<1> HIDE DEF Sum
<1>3. ASSUME NEW T \in SUBSET S, \A U \in SUBSET T : U # T => U \in P
      PROVE  T \in P
  <2>1. ASSUME NEW x \in T PROVE Sum(T) = Sum(T \ {x}) + f[x]
    <3> DEFINE c == Chosen(T)
    <3>1. c \in T /\ Sum(T) = f[c] + Sum(T \ {c})
      BY <1>2, <2>1
    <3> HIDE DEF c
    <3>2. f[x] \in Nat /\ f[c] \in Nat /\ Sum(T \ {x}) \in Nat /\ Sum(T \ {c}) \in Nat
      <4>1. T \ {x} \in SUBSET S /\ T \ {c} \in SUBSET S /\ x \in S /\ c \in S
        BY <2>1, <3>1
      <4> QED BY <1>1, <4>1
    <3>3. CASE x = c
      BY <3>1, <3>2, <3>3
    <3>4. CASE x # c
      <4>1. T \ {c} \in P /\ x \in T \ {c} /\ T \ {x} \in P /\ c \in T \ {x}
        BY <1>3, <2>1, <3>1, <3>4
      <4>2. Sum(T \ {c}) = Sum((T \ {c}) \ {x}) + f[x]
        BY <4>1
      <4>3. Sum(T \ {x}) = Sum((T \ {x}) \ {c}) + f[c]
        BY <4>1
      <4>4. (T \ {c}) \ {x} = (T \ {x}) \ {c}
        OBVIOUS
      <4>5. Sum((T \ {x}) \ {c}) \in Nat
        <5>1. (T \ {x}) \ {c} \in SUBSET S
          OBVIOUS
        <5> QED BY <1>1, <5>1
      <4>6. PICK m \in Nat : m = Sum((T \ {x}) \ {c})
        BY <4>5
      <4>7. Sum(T \ {c}) = m + f[x] /\ Sum(T \ {x}) = m + f[c]
        BY <4>2, <4>3, <4>4, <4>6
      <4>8. Sum(T) = f[c] + (m + f[x])
        BY <3>1, <4>7
      <4>9. f[c] + (m + f[x]) = (m + f[c]) + f[x]
        BY <3>2, <4>6
      <4> QED BY <4>7, <4>8, <4>9
    <3> QED BY <3>3, <3>4
  <2> QED BY <2>1
<1> HIDE DEF P
<1>4. S \in P
  BY <1>3, SubsetInduction
<1> QED BY <1>4 DEF P, Sum

(* A sum is that of a part of the values and that of the others.           *)
LEMMA SumSplit ==
  ASSUME NEW f, NEW S, IsFiniteSet(S), \A x \in S : f[x] \in Nat, NEW T
  PROVE  SumFunctionOnSet(f, S) = SumFunctionOnSet(f, S \intersect T) + SumFunctionOnSet(f, S \ T)
<1> DEFINE Sum(U) == SumFunctionOnSet(f, U)
           P == {U \in SUBSET S : Sum(U) = Sum(U \intersect T) + Sum(U \ T)}
<1>1. \A U \in SUBSET S : IsFiniteSet(U) /\ Sum(U) \in Nat
  <2> TAKE U \in SUBSET S
  <2>1. IsFiniteSet(U) /\ \A x \in U : f[x] \in Nat
    BY FS_Subset
  <2> QED BY <2>1, SumNat
<1>2. \A U \in SUBSET S : \A x \in U : Sum(U) = Sum(U \ {x}) + f[x]
  <2> TAKE U \in SUBSET S
  <2>1. IsFiniteSet(U) /\ \A x \in U : f[x] \in Nat
    BY <1>1
  <2> QED BY <2>1, SumWithout
<1>3. Sum({}) = 0
  BY SumChosen
<1> HIDE DEF Sum
<1>4. {} \in P
  <2>1. {} \intersect T = {} /\ {} \ T = {}
    OBVIOUS
  <2> QED BY <1>3, <2>1
<1>5. ASSUME NEW U \in SUBSET S, U # {}, U \ {Chosen(U)} \in P PROVE U \in P
  <2> DEFINE c == Chosen(U)
             V == U \ {c}
  <2>1. c \in U /\ f[c] \in Nat
    BY <1>5 DEF Chosen
  <2>2. Sum(V) = Sum(V \intersect T) + Sum(V \ T)
    BY <1>5
  <2> HIDE DEF c
  <2>3. /\ U \intersect T \in SUBSET S /\ U \ T \in SUBSET S
        /\ V \intersect T \in SUBSET S /\ V \ T \in SUBSET S
    OBVIOUS
  <2>4. Sum(V \intersect T) \in Nat /\ Sum(V \ T) \in Nat
    BY <1>1, <2>3
  <2>5. Sum(U) = Sum(V) + f[c]
    BY <1>2, <2>1
  <2>6. CASE c \in T
    <3>1. c \in U \intersect T /\ V \intersect T = (U \intersect T) \ {c} /\ V \ T = U \ T
      BY <2>1, <2>6
    <3>2. Sum(U \intersect T) = Sum((U \intersect T) \ {c}) + f[c]
      BY <1>2, <2>3, <3>1
    <3>3. Sum(U \intersect T) = Sum(V \intersect T) + f[c] /\ Sum(U \ T) = Sum(V \ T)
      BY <3>1, <3>2
    <3> QED BY <2>1, <2>2, <2>4, <2>5, <3>3
  <2>7. CASE c \notin T
    <3>1. c \in U \ T /\ V \ T = (U \ T) \ {c} /\ V \intersect T = U \intersect T
      BY <2>1, <2>7
    <3>2. Sum(U \ T) = Sum((U \ T) \ {c}) + f[c]
      BY <1>2, <2>3, <3>1
    <3>3. Sum(U \ T) = Sum(V \ T) + f[c] /\ Sum(U \intersect T) = Sum(V \intersect T)
      BY <3>1, <3>2
    <3> QED BY <2>1, <2>2, <2>4, <2>5, <3>3
  <2> QED BY <2>6, <2>7
<1> HIDE DEF P
<1>6. S \in P
  BY <1>4, <1>5, ChosenInduction
<1> QED BY <1>6 DEF P, Sum

(* It is zero only if there is nothing to add.                             *)
LEMMA SumIsZero ==
  ASSUME NEW f, NEW S, IsFiniteSet(S), \A x \in S : f[x] \in Nat
  PROVE  SumFunctionOnSet(f, S) = 0 <=> \A x \in S : f[x] = 0
<1>1. ASSUME \A x \in S : f[x] = 0 PROVE SumFunctionOnSet(f, S) = 0
  <2>1. \A x \in S : f[x] = IF x = S THEN 0 ELSE 0
    BY <1>1
  <2> QED BY <2>1, SumOne
<1>2. ASSUME NEW x \in S, f[x] # 0 PROVE SumFunctionOnSet(f, S) # 0
  <2> DEFINE T == S \ {x}
  <2>1. IsFiniteSet(T) /\ \A y \in T : f[y] \in Nat
    BY FS_Subset
  <2>2. SumFunctionOnSet(f, S) = SumFunctionOnSet(f, T) + f[x]
    BY SumWithout
  <2> HIDE DEF T
  <2>3. SumFunctionOnSet(f, T) \in Nat
    BY <2>1, SumNat
  <2> QED BY <1>2, <2>2, <2>3
<1> QED BY <1>1, <1>2

(* Some value is the greatest.                                             *)
LEMMA GreatestValue ==
  ASSUME NEW f, NEW S, IsFiniteSet(S), S # {}, \A x \in S : f[x] \in Nat
  PROVE  \E x \in S : \A y \in S : f[y] <= f[x]
<1> DEFINE P == {T \in SUBSET S : T # {} => \E x \in T : \A y \in T : f[y] <= f[x]}
<1>1. {} \in P
  OBVIOUS
<1>2. ASSUME NEW T \in SUBSET S, T # {}, T \ {Chosen(T)} \in P PROVE T \in P
  <2> DEFINE c == Chosen(T)
  <2>1. c \in T
    BY <1>2 DEF Chosen
  <2>2. T \ {c} # {} => \E x \in T \ {c} : \A y \in T \ {c} : f[y] <= f[x]
    BY <1>2
  <2> HIDE DEF c
  <2>3. \E x \in T : \A y \in T : f[y] <= f[x]
    <3>1. CASE T = {c}
      BY <2>1, <3>1
    <3>2. CASE T # {c}
      <4>1. PICK x \in T \ {c} : \A y \in T \ {c} : f[y] <= f[x]
        BY <2>1, <2>2, <3>2
      <4>2. f[x] <= f[c] \/ f[c] <= f[x]
        BY <2>1
      <4> QED BY <2>1, <4>1, <4>2
    <3> QED BY <3>1, <3>2
  <2> QED BY <2>3
<1> HIDE DEF P
<1>3. S \in P
  BY <1>1, <1>2, ChosenInduction
<1> QED BY <1>3 DEF P

(* The values of g that f selects, each once, add up to what they add up   *)
(* to where they come from.                                                *)
LEMMA SumMoved ==
  ASSUME NEW S, IsFiniteSet(S), NEW T, NEW f \in [S -> T],
         \A x, y \in S : f[x] = f[y] => x = y,
         NEW g, NEW h, \A x \in S : g[f[x]] \in Nat /\ h[x] = g[f[x]]
  PROVE  SumFunctionOnSet(h, S) = SumFunctionOnSet(g, {f[x] : x \in S})
<1> DEFINE Image(U) == {f[x] : x \in U}
           P == {U \in SUBSET S : SumFunctionOnSet(h, U) = SumFunctionOnSet(g, Image(U))}
<1>1. {} \in P
  <2>1. Image({}) = {}
    OBVIOUS
  <2>2. SumFunctionOnSet(h, {}) = 0 /\ SumFunctionOnSet(g, {}) = 0
    BY SumChosen
  <2> HIDE DEF Image
  <2> QED BY <2>1, <2>2
<1>2. ASSUME NEW U \in SUBSET S, U # {}, U \ {Chosen(U)} \in P PROVE U \in P
  <2> DEFINE c == Chosen(U)
             V == U \ {c}
  <2>1. c \in U /\ c \in S
    BY <1>2 DEF Chosen
  <2>2. SumFunctionOnSet(h, V) = SumFunctionOnSet(g, Image(V))
    BY <1>2
  <2> HIDE DEF c
  <2>3. /\ f[c] \in Image(U) /\ Image(U) \ {f[c]} = Image(V)
        /\ \A y \in Image(U) : g[y] \in Nat
    BY <2>1
  <2>4. IsFiniteSet(U) /\ \A x \in U : h[x] \in Nat
    BY FS_Subset
  <2>5. IsFiniteSet(Image(U))
    <3> DEFINE k == [x \in U |-> f[x]]
    <3>1. k \in Surjection(U, Image(U))
      BY DEF Surjection
    <3> HIDE DEF k, Image
    <3> QED BY <2>4, <3>1, FS_Surjection
  <2> HIDE DEF Image
  <2>6. SumFunctionOnSet(h, U) = SumFunctionOnSet(h, V) + h[c]
    BY <2>1, <2>4, SumWithout DEF V
  <2>7. SumFunctionOnSet(g, Image(U)) = SumFunctionOnSet(g, Image(U) \ {f[c]}) + g[f[c]]
    BY <2>3, <2>5, SumWithout
  <2> QED BY <2>1, <2>2, <2>3, <2>6, <2>7
<1> HIDE DEF P
<1>3. S \in P
  BY <1>1, <1>2, ChosenInduction
<1> QED BY <1>3 DEF P

(* f takes the elements of A into B, and D[y] are those it takes to y.     *)
Classifies(f, D, A, B) ==
  /\ \A x \in A : f[x] \in B
  /\ \A y \in B : D[y] \in SUBSET A /\ \A x \in A : x \in D[y] <=> f[x] = y

(* All of them are as many as there are of each value.                     *)
LEMMA CountByValue ==
  ASSUME NEW A, IsFiniteSet(A), NEW B, IsFiniteSet(B),
         NEW f, NEW D, Classifies(f, D, A, B),
         NEW g, \A y \in B : g[y] = Cardinality(D[y])
  PROVE  SumFunctionOnSet(g, B) = Cardinality(A)
<1> DEFINE Into(T) == {x \in A : f[x] \in T}
           P == {T \in SUBSET B : SumFunctionOnSet(g, T) = Cardinality(Into(T))}
<1>1. Into(B) = A /\ Into({}) = {} /\ \A T : Into(T) \in SUBSET A
  BY DEF Classifies
<1>2. \A T \in SUBSET B : \A y \in T : /\ Into(T) = Into(T \ {y}) \union D[y]
                                      /\ Into(T \ {y}) \intersect D[y] = {}
  BY DEF Classifies
<1>3. \A y \in B : D[y] \in SUBSET A
  BY DEF Classifies
<1> HIDE DEF Into
<1>4. \A S \in SUBSET A : IsFiniteSet(S) /\ Cardinality(S) \in Nat
  BY FS_Subset, FS_CardinalityType
<1>5. {} \in P
  BY <1>1, SumChosen, FS_EmptySet
<1>6. ASSUME NEW T \in SUBSET B, T # {}, T \ {Chosen(T)} \in P PROVE T \in P
  <2> DEFINE c == Chosen(T)
  <2>1. c \in T /\ IsFiniteSet(T) /\ \A y \in T : g[y] \in Nat
    BY <1>3, <1>4, <1>6, FS_Subset DEF Chosen
  <2>2. SumFunctionOnSet(g, T) = g[c] + SumFunctionOnSet(g, T \ {c})
    BY <1>6, <2>1, SumChosen
  <2>3. SumFunctionOnSet(g, T \ {c}) = Cardinality(Into(T \ {c}))
    BY <1>6
  <2> HIDE DEF c
  <2>4. Cardinality(Into(T)) = Cardinality(Into(T \ {c})) + Cardinality(D[c])
    <3>1. Cardinality(Into(T \ {c}) \intersect D[c]) = 0
      BY <1>2, <2>1, FS_EmptySet
    <3>2. Cardinality(Into(T \ {c}) \union D[c])
            = Cardinality(Into(T \ {c})) + Cardinality(D[c])
              - Cardinality(Into(T \ {c}) \intersect D[c])
      BY <1>1, <1>3, <1>4, <2>1, FS_Union
    <3>3. Cardinality(Into(T \ {c})) \in Nat /\ Cardinality(D[c]) \in Nat
      BY <1>1, <1>3, <1>4, <2>1
    <3>4. Into(T) = Into(T \ {c}) \union D[c]
      BY <1>2, <2>1
    <3> QED BY <3>1, <3>2, <3>3, <3>4
  <2>5. g[c] = Cardinality(D[c]) /\ Cardinality(Into(T \ {c})) \in Nat /\ g[c] \in Nat
    BY <1>1, <1>3, <1>4, <2>1
  <2> QED BY <2>2, <2>3, <2>4, <2>5
<1> HIDE DEF P
<1>7. B \in P
  BY <1>5, <1>6, ChosenInduction
<1> QED BY <1>1, <1>7 DEF P

(***************************************************************************)
(* SumFunction.                                                            *)
(***************************************************************************)
(* The sum of a function of natural numbers.                               *)
LEMMA SumType ==
  ASSUME NEW S, IsFiniteSet(S), NEW f \in [S -> Nat]
  PROVE  SumFunction(f) \in Nat
<1>1. DOMAIN f = S /\ \A x \in S : f[x] \in Nat
  OBVIOUS
<1> QED BY <1>1, SumNat DEF SumFunction

(* Counting something once.                                                *)
LEMMA SumAdded ==
  ASSUME NEW S, IsFiniteSet(S), NEW f \in [S -> Nat], NEW g, DOMAIN g = S,
         NEW a \in S, NEW n \in Nat,
         \A x \in S : g[x] = f[x] + IF x = a THEN n ELSE 0
  PROVE  SumFunction(g) = SumFunction(f) + n
<1> DEFINE d == [x \in S |-> IF x = a THEN n ELSE 0]
<1>1. SumFunctionOnSet(d, S) = n
  BY SumOne
<1>2. \A x \in S : f[x] \in Nat /\ d[x] \in Nat /\ g[x] = f[x] + d[x]
  OBVIOUS
<1> HIDE DEF d
<1>3. SumFunctionOnSet(g, S) = SumFunctionOnSet(f, S) + SumFunctionOnSet(d, S)
  BY <1>2, SumPlus
<1> QED BY <1>1, <1>3 DEF SumFunction

(* Nothing counted.                                                        *)
LEMMA SumZero ==
  ASSUME NEW S, IsFiniteSet(S), NEW f, DOMAIN f = S, \A x \in S : f[x] = 0
  PROVE  SumFunction(f) = 0
<1>1. \A x \in S : f[x] = IF x = S THEN 0 ELSE 0
  OBVIOUS
<1>2. SumFunctionOnSet(f, S) = 0
  BY <1>1, SumOne
<1> QED BY <1>2 DEF SumFunction

(* Raising one value by n raises the sum by n.                             *)
LEMMA SumRaised ==
  ASSUME NEW S, IsFiniteSet(S), NEW f \in [S -> Nat], NEW g \in [S -> Nat],
         NEW a \in S, NEW n \in Nat, g[a] = f[a] + n,
         \A x \in S : x # a => g[x] = f[x]
  PROVE  SumFunction(g) = SumFunction(f) + n
<1>1. DOMAIN g = S /\ \A x \in S : g[x] = f[x] + IF x = a THEN n ELSE 0
  OBVIOUS
<1> QED BY <1>1, SumAdded

(***************************************************************************)
(* Other folds.  Here step and pick are functions: of a set and of what    *)
(* the fold is without one element of it, and of a set.                    *)
(***************************************************************************)
FoldStep(base, step, pick, h, T) == IF T = {} THEN base ELSE step[<<T, h[T \ {pick[T]}]>>]

(* h is the fold of every subset of S.                                     *)
FoldsOf(h, base, step, pick, S) ==
  h = [T \in SUBSET S |-> FoldStep(base, step, pick, h, T)]

Picks(pick, S) == \A T \in SUBSET S : T # {} => pick[T] \in T

(* One pick at a time a claim passes on to the whole set.                  *)
LEMMA PickedInduction ==
  ASSUME NEW S, IsFiniteSet(S), NEW pick, Picks(pick, S), NEW P, {} \in P,
         \A T \in SUBSET S : T # {} /\ T \ {pick[T]} \in P => T \in P
  PROVE  S \in P
<1>1. ASSUME NEW T \in SUBSET S, \A U \in SUBSET T : U # T => U \in P
      PROVE  T \in P
  <2>1. CASE T # {}
    <3>1. T \ {pick[T]} \in P
      BY <1>1, <2>1 DEF Picks
    <3> QED BY <2>1, <3>1
  <2> QED BY <2>1
<1> QED BY <1>1, SubsetInduction

(* The folds of a set do not depend on where they are taken from.          *)
LEMMA FoldsAgree ==
  ASSUME NEW base, NEW step, NEW pick, NEW S, IsFiniteSet(S), Picks(pick, S),
         NEW T, S \subseteq T, NEW g, NEW h,
         FoldsOf(g, base, step, pick, S), FoldsOf(h, base, step, pick, T)
  PROVE  g[S] = h[S]
<1> DEFINE P == {U \in SUBSET S : g[U] = h[U]}
<1>1. {} \in P
  BY DEF FoldsOf, FoldStep
<1>2. ASSUME NEW U \in SUBSET S, U # {}, U \ {pick[U]} \in P
      PROVE  U \in P
  <2>1. U \in SUBSET T /\ g[U \ {pick[U]}] = h[U \ {pick[U]}]
    BY <1>2
  <2>2. g[U] = step[<<U, g[U \ {pick[U]}]>>]
    BY <1>2 DEF FoldsOf, FoldStep
  <2>3. h[U] = step[<<U, h[U \ {pick[U]}]>>]
    BY <1>2, <2>1 DEF FoldsOf, FoldStep
  <2> QED BY <1>2, <2>1, <2>2, <2>3
<1> HIDE DEF P
<1>3. S \in P
  BY <1>1, <1>2, PickedInduction
<1> QED BY <1>3 DEF P

(* A finite set has a fold.                                                *)
LEMMA FoldExists ==
  ASSUME NEW base, NEW step, NEW pick, NEW S, IsFiniteSet(S), Picks(pick, S)
  PROVE  \E h : FoldsOf(h, base, step, pick, S)
<1> DEFINE Is(h, T) == FoldsOf(h, base, step, pick, T)
           P == {T \in SUBSET S : \E h : Is(h, T)}
<1>1. ASSUME NEW T \in SUBSET S, \A U \in SUBSET T : U # T => U \in P
      PROVE  T \in P
  <2> DEFINE V(U) == (CHOOSE h : Is(h, U))[U]
             W == [U \in SUBSET T |-> V(U)]
             g == [U \in SUBSET T |->
                     IF U = T THEN FoldStep(base, step, pick, W, T) ELSE V(U)]
  <2>1. ASSUME NEW U \in SUBSET T, U # T PROVE Is(CHOOSE h : Is(h, U), U)
    BY <1>1, <2>1
  <2>2. ASSUME NEW U \in SUBSET T PROVE g[U] = FoldStep(base, step, pick, g, U)
    <3>1. CASE U = {} /\ U = T
      BY <3>1 DEF FoldStep
    <3>2. CASE U = {} /\ U # T
      <4> DEFINE h == CHOOSE h : Is(h, U)
      <4>1. Is(h, U) /\ V(U) = h[U]
        BY <2>1, <3>2
      <4> HIDE DEF h
      <4>2. h[U] = base
        BY <3>2, <4>1 DEF FoldsOf, FoldStep
      <4>3. g[U] = h[U]
        BY <3>2, <4>1
      <4> QED BY <3>2, <4>2, <4>3 DEF FoldStep
    <3>3. CASE U # {}
      <4> DEFINE X == U \ {pick[U]}
      <4>1. X \in SUBSET U /\ X # U /\ X # T /\ X \in SUBSET T
        BY <3>3 DEF Picks
      <4>2. FoldStep(base, step, pick, g, U) = step[<<U, V(X)>>]
        BY <3>3, <4>1 DEF FoldStep
      <4>3. CASE U = T
        BY <3>3, <4>1, <4>2, <4>3 DEF FoldStep
      <4>4. CASE U # T
        <5> DEFINE h == CHOOSE h : Is(h, U)
                   k == CHOOSE k : Is(k, X)
        <5>1. Is(h, U) /\ Is(k, X)
          BY <2>1, <4>1, <4>4
        <5>2. IsFiniteSet(X) /\ Picks(pick, X)
          BY <4>1, FS_Subset DEF Picks
        <5> HIDE DEF h, k
        <5>3. k[X] = h[X]
          BY <4>1, <5>1, <5>2, FoldsAgree
        <5>4. h[U] = step[<<U, h[X]>>]
          BY <3>3, <5>1 DEF FoldsOf, FoldStep
        <5>5. V(U) = h[U] /\ V(X) = k[X]
          BY DEF h, k
        <5> QED BY <4>2, <4>4, <5>3, <5>4, <5>5
      <4> QED BY <4>3, <4>4
    <3> QED BY <3>1, <3>2, <3>3
  <2>3. Is(g, T)
    BY <2>2 DEF FoldsOf
  <2> QED BY <2>3
<1> HIDE DEF P
<1>2. S \in P
  BY <1>1, SubsetInduction
<1> QED BY <1>2 DEF P

(* If no step leaves the set V, the folds are in V.                        *)
LEMMA FoldType ==
  ASSUME NEW V, NEW base \in V, NEW step, NEW pick, NEW S, IsFiniteSet(S), Picks(pick, S),
         NEW h, FoldsOf(h, base, step, pick, S),
         \A T \in SUBSET S, v \in V : T # {} => step[<<T, v>>] \in V
  PROVE  \A T \in SUBSET S : h[T] \in V
<1> TAKE T \in SUBSET S
<1> DEFINE P == {U \in SUBSET T : h[U] \in V}
<1>1. {} \in P
  BY DEF FoldsOf, FoldStep
<1>2. ASSUME NEW U \in SUBSET T, U # {}, U \ {pick[U]} \in P PROVE U \in P
  <2>1. U \in SUBSET S /\ h[U \ {pick[U]}] \in V
    BY <1>2
  <2>2. h[U] = step[<<U, h[U \ {pick[U]}]>>]
    BY <1>2, <2>1 DEF FoldsOf, FoldStep
  <2> QED BY <1>2, <2>1, <2>2
<1>3. IsFiniteSet(T)
  BY FS_Subset
<1>4. Picks(pick, T)
  BY DEF Picks
<1> HIDE DEF P
<1>5. T \in P
  BY <1>1, <1>2, <1>3, <1>4, PickedInduction
<1> QED BY <1>5 DEF P

(***************************************************************************)
(* Folds over a sequence, from its first element to its last.              *)
(***************************************************************************)
(* Whatever holds of 0, and of k if it does of k - 1, holds up to n.       *)
LEMMA PrefixInduction ==
  ASSUME NEW n \in Nat, NEW P, 0 \in P, \A k \in 1..n : k - 1 \in P => k \in P
  PROVE  \A k \in 0..n : k \in P
<1> DEFINE B == {0..k : k \in {j \in 0..n : j \notin P}}
<1>1. SUFFICES ASSUME NEW k \in 0..n, k \notin P PROVE FALSE
  OBVIOUS
<1> DEFINE S == 0..n
<1>2. B # {} /\ B \in SUBSET SUBSET S /\ IsFiniteSet(S)
  <2>1. 0..k \in B
    BY <1>1
  <2>2. \A j \in 0..n : 0..j \subseteq S
    OBVIOUS
  <2>3. IsFiniteSet(S)
    BY FS_Interval
  <2> QED BY <2>1, <2>2, <2>3
<1> HIDE DEF B, S
<1>3. PICK T \in B : \A U \in B : U \subseteq T => U = T
  BY <1>2, MinimalSubset
<1>4. PICK j \in 0..n : j \notin P /\ T = 0..j
  BY <1>3 DEF B
<1>5. j \in 1..n /\ j - 1 \in 0..n /\ j - 1 \notin P
  BY <1>4
<1>6. 0..(j - 1) \in B
  BY <1>5 DEF B
<1>7. 0..(j - 1) \subseteq T /\ j \in T /\ j \notin 0..(j - 1)
  BY <1>4
<1> QED BY <1>3, <1>6, <1>7

(* A finite set of numbers has a greatest one,                             *)
LEMMA MaxOK ==
  ASSUME NEW T \in SUBSET Nat, IsFiniteSet(T), T # {}
  PROVE  Max(T) \in T /\ \A x \in T : x <= Max(T)
<1> DEFINE f == [x \in T |-> x]
<1>1. \A x \in T : f[x] \in Nat /\ f[x] = x
  OBVIOUS
<1> HIDE DEF f
<1>2. PICK m \in T : \A x \in T : f[x] <= f[m]
  BY <1>1, GreatestValue
<1>3. \E x \in T : \A y \in T : x >= y
  BY <1>1, <1>2
<1> QED BY <1>3 DEF Max

(* so a set of indices has.                                                *)
LEMMA MaxIn ==
  ASSUME NEW n \in Nat, NEW T \in SUBSET (1..n), T # {}
  PROVE  Max(T) \in T /\ \A x \in T : x <= Max(T)
<1>1. T \in SUBSET Nat /\ IsFiniteSet(1..n)
  BY FS_Interval
<1> QED BY <1>1, FS_Subset, MaxOK

(* The value at the greatest of some indices of a sequence.                *)
LEMMA MaxIndex ==
  ASSUME NEW E, NEW s \in Seq(E), NEW T \in SUBSET DOMAIN s, T # {}
  PROVE  Max(T) \in T /\ Max(T) \in DOMAIN s /\ s[Max(T)] \in E
<1>1. T \in SUBSET (1..Len(s)) /\ Len(s) \in Nat
  OBVIOUS
<1>2. Max(T) \in T
  BY <1>1, MaxIn
<1> QED BY <1>2

(* And a least one.                                                        *)
LEMMA MinIn ==
  ASSUME NEW n \in Nat, NEW T \in SUBSET (1..n), T # {}
  PROVE  Min(T) \in T /\ \A x \in T : Min(T) <= x
<1> DEFINE U == {n + 1 - x : x \in T}
<1>1. U \in SUBSET (1..n) /\ U # {}
  <2>1. \A x \in T : x \in 1..n
    OBVIOUS
  <2>2. \A x \in T : n + 1 - x \in 1..n
    BY <2>1
  <2> QED BY <2>2
<1> HIDE DEF U
<1>2. Max(U) \in U /\ \A y \in U : y <= Max(U)
  BY <1>1, MaxIn
<1>3. PICK m \in T : Max(U) = n + 1 - m
  BY <1>2 DEF U
<1>4. ASSUME NEW x \in T PROVE m <= x
  <2>1. n + 1 - x <= n + 1 - m
    BY <1>2, <1>3 DEF U
  <2>2. x \in 1..n /\ m \in 1..n
    OBVIOUS
  <2> QED BY <2>1, <2>2
<1> QED BY <1>4 DEF Min

(* The greatest of the first k indices is k.                               *)
LEMMA MaxOfPrefix ==
  ASSUME NEW k \in Nat \ {0}
  PROVE  Max(1..k) = k /\ (1..k) \ {Max(1..k)} = 1..(k - 1) /\ 1..k # {}
<1>1. 1..k # {} /\ Max(1..k) \in 1..k /\ \A x \in 1..k : x <= Max(1..k)
  <2>1. 1..k # {} /\ k \in Nat
    OBVIOUS
  <2> DEFINE T == 1..k
  <2>2. T \in SUBSET (1..k) /\ T # {}
    BY <2>1
  <2> HIDE DEF T
  <2>3. Max(T) \in T /\ \A x \in T : x <= Max(T)
    BY <2>1, <2>2, MaxIn
  <2> QED BY <2>1, <2>3 DEF T
<1> QED BY <1>1

(* What a fold over s with the function op is for every set of indices.    *)
LeftFolds(h, op, base, s) ==
  h = [T \in SUBSET DOMAIN s |->
         IF T = {} THEN base ELSE op[<<h[T \ {Max(T)}], s[Max(T)]>>]]

(* op does not leave the set V.                                            *)
StaysIn(op, V, E) == \A v \in V, e \in E : op[<<v, e>>] \in V

(* There is one if op stays within a set that contains base.               *)
LEMMA LeftFoldExists ==
  ASSUME NEW E, NEW s \in Seq(E), NEW V, NEW base \in V,
         NEW op, StaysIn(op, V, E)
  PROVE  \E h : LeftFolds(h, op, base, s) /\ \A T \in SUBSET DOMAIN s : h[T] \in V
<1> DEFINE S == DOMAIN s
           step == [p \in (SUBSET S) \X V |-> op[<<p[2], s[Max(p[1])]>>]]
           pick == [T \in SUBSET S |-> Max(T)]
<1>1. S = 1..Len(s) /\ Len(s) \in Nat /\ IsFiniteSet(S)
  BY FS_Interval
<1>2. \A T \in SUBSET S : T # {} => Max(T) \in T /\ pick[T] = Max(T)
  BY <1>1, MaxIn
<1>3. Picks(pick, S)
  BY <1>2 DEF Picks
<1>4. \A T \in SUBSET S, v \in V : T # {} =>
        /\ step[<<T, v>>] = op[<<v, s[Max(T)]>>]
        /\ step[<<T, v>>] \in V
  <2>1. ASSUME NEW T \in SUBSET S, NEW v \in V, T # {}
        PROVE  step[<<T, v>>] = op[<<v, s[Max(T)]>>] /\ step[<<T, v>>] \in V
    <3>1. Max(T) \in DOMAIN s
      BY <1>2, <2>1
    <3>2. s[Max(T)] \in E
      BY <3>1
    <3>3. step[<<T, v>>] = op[<<v, s[Max(T)]>>]
      OBVIOUS
    <3> QED BY <3>2, <3>3 DEF StaysIn
  <2> QED BY <2>1
<1> HIDE DEF S, step, pick
<1>5. PICK h : FoldsOf(h, base, step, pick, S)
  BY <1>1, <1>3, FoldExists
<1>6. \A T \in SUBSET S :
        h[T] = IF T = {} THEN base ELSE step[<<T, h[T \ {pick[T]}]>>]
  BY <1>5 DEF FoldsOf, FoldStep
<1>7. \A T \in SUBSET S : h[T] \in V
  BY <1>1, <1>3, <1>4, <1>5, FoldType
<1>8. ASSUME NEW T \in SUBSET S
      PROVE  h[T] = IF T = {} THEN base ELSE op[<<h[T \ {Max(T)}], s[Max(T)]>>]
  <2>1. CASE T = {}
    BY <1>6, <2>1
  <2>2. CASE T # {}
    <3>1. pick[T] = Max(T) /\ h[T \ {Max(T)}] \in V
      BY <1>2, <1>7, <2>2
    <3> QED BY <1>4, <1>6, <2>2, <3>1, ZenonT(30)
  <2> QED BY <2>1, <2>2
<1>9. LeftFolds(h, op, base, s)
  BY <1>5, <1>8 DEF LeftFolds, FoldsOf, S
<1> QED BY <1>7, <1>9 DEF S

(* g is such a fold as far as its values are in V.                         *)
FoldsWithin(g, V, op, s) ==
  \A T \in SUBSET DOMAIN s : T # {} /\ g[T \ {Max(T)}] \in V =>
    g[T] = op[<<g[T \ {Max(T)}], s[Max(T)]>>]

(* The values of a fold, of no index to all of them.                       *)
FoldValues(r, base, op, s, V) ==
  /\ r[0] = base
  /\ \A k \in 1..Len(s) : r[k] = op[<<r[k - 1], s[k]>>]
  /\ \A k \in 0..Len(s) : r[k] \in V

(* If g is a fold as far as its values are in that set, it is one, and the *)
(* fold over s is the last of a sequence of values, one for each index.    *)
LEMMA FoldRuns ==
  ASSUME NEW E, NEW s \in Seq(E), NEW V, NEW base \in V,
         NEW op, StaysIn(op, V, E),
         NEW g, g[{}] = base, FoldsWithin(g, V, op, s)
  PROVE  \E r : FoldValues(r, base, op, s, V) /\ g[DOMAIN s] = r[Len(s)]
<1> DEFINE r == [k \in 0..Len(s) |-> g[1..k]]
           P == {k \in 0..Len(s) : r[k] \in V}
<1>1. DOMAIN s = 1..Len(s) /\ Len(s) \in Nat
  OBVIOUS
<1>2. r[0] = base /\ g[DOMAIN s] = r[Len(s)]
  <2>1. 1..0 = {} /\ 0 \in 0..Len(s) /\ Len(s) \in 0..Len(s)
    BY <1>1
  <2> QED BY <1>1, <2>1
<1>3. ASSUME NEW k \in 1..Len(s), r[k - 1] \in V
      PROVE  r[k] = op[<<r[k - 1], s[k]>>] /\ r[k] \in V
  <2>1. /\ 1..k \in SUBSET DOMAIN s /\ 1..k # {}
        /\ k \in 0..Len(s) /\ k - 1 \in 0..Len(s) /\ k \in Nat \ {0}
    <3>1. k \in Nat \ {0} /\ k <= Len(s) /\ k \in 1..k
      BY <1>1
    <3>2. k \in 0..Len(s) /\ k - 1 \in 0..Len(s)
      BY <1>1, <3>1
    <3>3. 1..k \subseteq 1..Len(s)
      BY <1>1, <3>1
    <3> QED BY <1>1, <3>1, <3>2, <3>3
  <2>2. Max(1..k) = k /\ (1..k) \ {Max(1..k)} = 1..(k - 1)
    BY <2>1, MaxOfPrefix
  <2>3. r[k - 1] = g[1..(k - 1)] /\ r[k] = g[1..k] /\ s[k] \in E
    BY <2>1
  <2>4. r[k] = op[<<r[k - 1], s[k]>>]
    BY <1>3, <2>1, <2>2, <2>3 DEF FoldsWithin
  <2> QED BY <1>3, <2>3, <2>4 DEF StaysIn
<1> HIDE DEF r
<1>4. 0 \in P /\ \A k \in 1..Len(s) : k - 1 \in P => k \in P
  <2>1. 0 \in 0..Len(s) /\ \A k \in 1..Len(s) : k \in 0..Len(s)
    BY <1>1
  <2> QED BY <1>2, <1>3, <2>1
<1> HIDE DEF P
<1>5. \A k \in 0..Len(s) : k \in P
  BY <1>1, <1>4, PrefixInduction
<1>6. \A k \in 0..Len(s) : r[k] \in V
  BY <1>5 DEF P
<1>7. \A k \in 1..Len(s) : r[k] = op[<<r[k - 1], s[k]>>]
  <2>1. \A k \in 1..Len(s) : k - 1 \in 0..Len(s)
    BY <1>1
  <2> QED BY <1>3, <1>6, <2>1
<1>8. FoldValues(r, base, op, s, V)
  BY <1>2, <1>6, <1>7 DEF FoldValues
<1> QED BY <1>2, <1>8
=============================================================================

------------------------------- MODULE SumProofs -------------------------------
(***************************************************************************)
(* Facts about the sums that the specifications are stated with: what the  *)
(* folds of the community modules compute over a finite set of naturals.   *)
(* A fold picks the elements of its set in an order of its own, so that    *)
(* every fact rests on an induction; that is done here, once, through the  *)
(* least element of a set of counterexamples.  The last section has a fold *)
(* over a sequence as a run, a state for each prefix.                      *)
(***************************************************************************)
EXTENDS SequencesExt, FiniteSetTheorems, SequenceTheorems, TLAPS

\* Induction over the naturals, for a set.
LEMMA SetInduction ==
  ASSUME NEW T, 0 \in T, \A n \in Nat : n \in T => n + 1 \in T
  PROVE  Nat \subseteq T
<1> SUFFICES ASSUME Nat \ T # {} PROVE FALSE
  OBVIOUS
<1>1. PICK m \in Nat \ T : \A y \in Nat \ T : ~(<<y, m>> \in OpToRel(<, Nat))
  BY NatLessThanWellFounded, WFMin
<1>2. \A y \in Nat \ T : ~(y < m)
  BY <1>1 DEF OpToRel
<1>3. m # 0 /\ m - 1 \in Nat /\ m - 1 < m
  OBVIOUS
<1>4. m - 1 \in T
  BY <1>2, <1>3
<1> QED BY <1>3, <1>4

-----------------------------------------------------------------------------
(* The function that a fold over S defines.                                *)

Chosen(s) == CHOOSE x \in s : TRUE
SumStep(g, h, s) == IF s = {} THEN 0 ELSE g[Chosen(s)] + h[s \ {Chosen(s)}]

LEMMA ChosenIn == ASSUME NEW s, s # {} PROVE Chosen(s) \in s
BY DEF Chosen

LEMMA Smaller ==
  ASSUME NEW S, IsFiniteSet(S), NEW s \in SUBSET S, NEW x \in s
  PROVE  /\ IsFiniteSet(s) /\ Cardinality(s) \in Nat \ {0} /\ s \ {x} \in SUBSET S
         /\ Cardinality(s \ {x}) = Cardinality(s) - 1
<1>1. IsFiniteSet(s) /\ Cardinality(s) \in Nat
  BY FS_Subset, FS_CardinalityType
<1>2. Cardinality(s) # 0
  BY <1>1, FS_EmptySet
<1>3. Cardinality(s \ {x}) = Cardinality(s) - 1
  BY <1>1, FS_RemoveElement
<1> QED BY <1>1, <1>2, <1>3

LEMMA SumExists ==
  ASSUME NEW S, IsFiniteSet(S), NEW g, \A x \in S : g[x] \in Nat
  PROVE  \E h \in [SUBSET S -> Nat] : \A s \in SUBSET S : h[s] = SumStep(g, h, s)
<1> DEFINE D(n) == {s \in SUBSET S : Cardinality(s) <= n}
           OK(n, h) == h \in [D(n) -> Nat] /\ \A s \in D(n) : h[s] = SumStep(g, h, s)
           T == {n \in Nat : \E h : OK(n, h)}
<1>0. \A s \in SUBSET S : Cardinality(s) \in Nat /\ (Cardinality(s) = 0 => s = {})
  BY FS_Subset, FS_CardinalityType, FS_EmptySet
<1>1. 0 \in T
  <2> DEFINE h == [s \in D(0) |-> 0]
  <2>1. \A s \in D(0) : s = {}
    BY <1>0
  <2>2. OK(0, h)
    BY <2>1 DEF SumStep
  <2> HIDE DEF OK, h
  <2> QED BY <2>2
<1>2. ASSUME NEW n \in Nat, n \in T PROVE n + 1 \in T
  <2>1. PICK h : OK(n, h)
    BY <1>2
  <2> DEFINE k == [s \in D(n + 1) |-> IF Cardinality(s) <= n THEN h[s]
                                     ELSE g[Chosen(s)] + h[s \ {Chosen(s)}]]
  <2>2. ASSUME NEW s \in D(n + 1), s # {}
        PROVE  /\ Chosen(s) \in S /\ s \ {Chosen(s)} \in D(n)
               /\ Cardinality(s \ {Chosen(s)}) <= n
               /\ Cardinality(s) <= n + 1
    <3>1. s \in SUBSET S /\ Chosen(s) \in s /\ Cardinality(s) <= n + 1
      BY <2>2, ChosenIn
    <3>2. Cardinality(s) \in Nat /\ s \ {Chosen(s)} \in SUBSET S
          /\ Cardinality(s \ {Chosen(s)}) = Cardinality(s) - 1
      BY <3>1, Smaller
    <3> QED BY <3>1, <3>2
  <2>3. ASSUME NEW s \in D(n + 1), ~(Cardinality(s) <= n) PROVE s # {}
    BY <2>3, FS_EmptySet
  <2>4. \A s \in D(n) : s \in D(n + 1)
    BY <1>0
  <2>5. k \in [D(n + 1) -> Nat]
    <3>1. ASSUME NEW s \in D(n + 1)
          PROVE  (IF Cardinality(s) <= n THEN h[s] ELSE g[Chosen(s)] + h[s \ {Chosen(s)}]) \in Nat
      <4>1. CASE Cardinality(s) <= n
        BY <2>1, <4>1
      <4>2. CASE ~(Cardinality(s) <= n)
        <5>1. g[Chosen(s)] \in Nat /\ h[s \ {Chosen(s)}] \in Nat
          BY <2>1, <2>2, <2>3, <4>2
        <5> QED BY <4>2, <5>1
      <4> QED BY <4>1, <4>2
    <3> QED BY <3>1
  <2>6. ASSUME NEW s \in D(n + 1) PROVE k[s] = SumStep(g, k, s)
    <3>1. CASE s = {}
      <4>1. Cardinality(s) <= n /\ s \in D(n)
        BY <3>1, FS_EmptySet
      <4> QED BY <2>1, <3>1, <4>1 DEF SumStep
    <3>2. CASE s # {}
      <4>1. /\ s \ {Chosen(s)} \in D(n) /\ s \ {Chosen(s)} \in D(n + 1)
            /\ k[s \ {Chosen(s)}] = h[s \ {Chosen(s)}]
        BY <2>2, <2>4, <3>2
      <4>2. CASE Cardinality(s) <= n
        <5>1. s \in D(n) /\ k[s] = h[s]
          BY <4>2
        <5>2. h[s] = SumStep(g, h, s)
          BY <2>1, <5>1
        <5> QED BY <3>2, <4>1, <5>1, <5>2 DEF SumStep
      <4>3. CASE ~(Cardinality(s) <= n)
        BY <3>2, <4>1, <4>3 DEF SumStep
      <4> QED BY <4>2, <4>3
    <3> QED BY <3>1, <3>2
  <2>7. OK(n + 1, k)
    BY <2>5, <2>6
  <2> HIDE DEF OK, k
  <2> QED BY <2>7
<1> HIDE DEF T
<1>3. Nat \subseteq T
  BY <1>1, <1>2, SetInduction
<1>4. Cardinality(S) \in T
  BY <1>3, FS_CardinalityType
<1>5. D(Cardinality(S)) = SUBSET S
  BY FS_Subset
<1> QED BY <1>4, <1>5 DEF T

\* h is the function that the fold of g over S defines.
Folds(g, S, h) == \A s \in SUBSET S : h[s] = SumStep(g, h, s)
IsSum(g, S, h) == h \in [SUBSET S -> Nat] /\ Folds(g, S, h)

\* The order of a sum does not matter: any element may come first.
LEMMA AnyFirst ==
  ASSUME NEW S, IsFiniteSet(S), NEW g, \A x \in S : g[x] \in Nat, NEW h, IsSum(g, S, h)
  PROVE  \A s \in SUBSET S : \A x \in s : h[s] = g[x] + h[s \ {x}]
<1> DEFINE P(s) == \A x \in s : h[s] = g[x] + h[s \ {x}]
           T == {n \in Nat : \A s \in SUBSET S : Cardinality(s) = n => P(s)}
<1>1. 0 \in T
  <2>1. \A s \in SUBSET S : Cardinality(s) = 0 => s = {}
    BY FS_Subset, FS_EmptySet
  <2> QED BY <2>1
<1>2. ASSUME NEW n \in Nat, n \in T PROVE n + 1 \in T
  <2> SUFFICES ASSUME NEW s \in SUBSET S, Cardinality(s) = n + 1, NEW x \in s
               PROVE  h[s] = g[x] + h[s \ {x}]
    OBVIOUS
  <2> DEFINE c == Chosen(s)
             r == (s \ {c}) \ {x}
  <2>1. c \in s /\ h[s] = g[c] + h[s \ {c}]
    BY ChosenIn DEF IsSum, Folds, SumStep
  <2>2. CASE x = c
    BY <2>1, <2>2
  <2>3. CASE x # c
    <3>1. /\ s \ {c} \in SUBSET S /\ Cardinality(s \ {c}) = n
          /\ s \ {x} \in SUBSET S /\ Cardinality(s \ {x}) = n
      <4>1. Cardinality(s \ {c}) = Cardinality(s) - 1 /\ Cardinality(s \ {x}) = Cardinality(s) - 1
        BY <2>1, Smaller
      <4> QED BY <4>1
    <3>2. h[s \ {c}] = g[x] + h[r]
      BY <1>2, <2>3, <3>1
    <3>3. (s \ {x}) \ {c} = r /\ c \in s \ {x}
      BY <2>1, <2>3
    <3>4. h[s \ {x}] = g[c] + h[r]
      BY <1>2, <3>1, <3>3
    <3>5. g[x] \in Nat /\ g[c] \in Nat /\ h[r] \in Nat
      BY <2>1 DEF IsSum
    <3> HIDE DEF c, r
    <3> QED BY <2>1, <3>2, <3>4, <3>5
  <2> QED BY <2>2, <2>3
<1>3. Nat \subseteq T
  <2> HIDE DEF T
  <2> QED BY <1>1, <1>2, SetInduction
<1>4. \A s \in SUBSET S : Cardinality(s) \in Nat
  BY FS_Subset, FS_CardinalityType
<1> QED BY <1>3, <1>4

\* A sum depends on the values of its own elements only.
LEMMA SumUnique ==
  ASSUME NEW S, IsFiniteSet(S), NEW g, NEW h, Folds(g, S, h),
         NEW R, NEW f, NEW k, Folds(f, R, k)
  PROVE  \A s \in SUBSET (S \cap R) : (\A x \in s : f[x] = g[x]) => h[s] = k[s]
<1> DEFINE P(s) == (\A x \in s : f[x] = g[x]) => h[s] = k[s]
           T == {n \in Nat : \A s \in SUBSET (S \cap R) : Cardinality(s) = n => P(s)}
<1>1. 0 \in T
  <2>1. \A s \in SUBSET S : Cardinality(s) = 0 => s = {}
    BY FS_Subset, FS_EmptySet
  <2> QED BY <2>1 DEF Folds, SumStep
<1>2. ASSUME NEW n \in Nat, n \in T PROVE n + 1 \in T
  <2> SUFFICES ASSUME NEW s \in SUBSET (S \cap R), Cardinality(s) = n + 1,
                      \A x \in s : f[x] = g[x]
               PROVE  h[s] = k[s]
    OBVIOUS
  <2> DEFINE c == Chosen(s)
  <2>0. s # {}
    BY FS_EmptySet
  <2>1. c \in s /\ h[s] = g[c] + h[s \ {c}] /\ k[s] = f[c] + k[s \ {c}]
    BY <2>0, ChosenIn DEF Folds, SumStep
  <2>2. s \ {c} \in SUBSET (S \cap R) /\ Cardinality(s \ {c}) = n
    <3>1. Cardinality(s \ {c}) = Cardinality(s) - 1
      BY <2>1, Smaller
    <3> QED BY <3>1
  <2>3. h[s \ {c}] = k[s \ {c}]
    BY <1>2, <2>2
  <2> QED BY <2>1, <2>3
<1>3. Nat \subseteq T
  <2> HIDE DEF T
  <2> QED BY <1>1, <1>2, SetInduction
<1>4. \A s \in SUBSET S : Cardinality(s) \in Nat
  BY FS_Subset, FS_CardinalityType
<1> QED BY <1>3, <1>4

-----------------------------------------------------------------------------
(* Sums over sets.                                                         *)

SumOver(g, S) == MapThenSumSet(LAMBDA x : g[x], S)

LEMMA SumOverIs ==
  ASSUME NEW S, IsFiniteSet(S), NEW g, \A x \in S : g[x] \in Nat
  PROVE  \E h : IsSum(g, S, h) /\ SumOver(g, S) = h[S]
<1> DEFINE Q(h) == h = [s \in SUBSET S |-> IF s = {} THEN 0
                                          ELSE g[CHOOSE x \in s : TRUE] + h[s \ {CHOOSE x \in s : TRUE}]]
           it == CHOOSE h : Q(h)
<1>1. SumOver(g, S) = it[S]
  BY DEF SumOver, MapThenSumSet, MapThenFoldSet
<1>2. PICK h \in [SUBSET S -> Nat] : \A s \in SUBSET S : h[s] = SumStep(g, h, s)
  BY SumExists
<1>3. Q(h)
  BY <1>2 DEF SumStep, Chosen
<1> HIDE DEF it
<1>4. Q(it)
  BY <1>3 DEF it
<1>5. Folds(g, S, it) /\ Folds(g, S, h)
  BY <1>2, <1>4 DEF Folds, SumStep, Chosen
<1>6. \A s \in SUBSET S : h[s] = it[s]
  <2>1. SUBSET S = SUBSET (S \cap S)
    OBVIOUS
  <2> QED BY <1>5, <2>1, SumUnique
<1>7. SumOver(g, S) = h[S]
  BY <1>1, <1>6
<1> QED BY <1>2, <1>5, <1>7 DEF IsSum

LEMMA SumOverType ==
  ASSUME NEW S, IsFiniteSet(S), NEW g, \A x \in S : g[x] \in Nat
  PROVE  SumOver(g, S) \in Nat
<1>1. PICK h : IsSum(g, S, h) /\ SumOver(g, S) = h[S]
  BY SumOverIs
<1> QED BY <1>1 DEF IsSum

LEMMA SumOverEmpty == ASSUME NEW g PROVE SumOver(g, {}) = 0
<1>1. PICK h : IsSum(g, {}, h) /\ SumOver(g, {}) = h[{}]
  BY SumOverIs, FS_EmptySet
<1> QED BY <1>1 DEF IsSum, Folds, SumStep

\* Equal values, equal sums.
LEMMA SumOverSame ==
  ASSUME NEW S, IsFiniteSet(S), NEW g, \A x \in S : g[x] \in Nat,
         NEW f, \A x \in S : f[x] = g[x]
  PROVE  SumOver(f, S) = SumOver(g, S)
<1>1. PICK h : IsSum(g, S, h) /\ SumOver(g, S) = h[S]
  BY SumOverIs
<1>2. PICK k : IsSum(f, S, k) /\ SumOver(f, S) = k[S]
  BY SumOverIs
<1>3. h[S] = k[S]
  <2>1. Folds(g, S, h) /\ Folds(f, S, k) /\ S \in SUBSET (S \cap S)
    BY <1>1, <1>2 DEF IsSum
  <2> QED BY <2>1, SumUnique
<1> QED BY <1>1, <1>2, <1>3

\* One element set apart.
LEMMA SumOverSplit ==
  ASSUME NEW S, IsFiniteSet(S), NEW g, \A x \in S : g[x] \in Nat, NEW x \in S
  PROVE  SumOver(g, S) = g[x] + SumOver(g, S \ {x})
<1>1. PICK h : IsSum(g, S, h) /\ SumOver(g, S) = h[S]
  BY SumOverIs
<1> DEFINE R == S \ {x}
<1>2. IsFiniteSet(R) /\ R \in SUBSET S /\ R \in SUBSET (S \cap R)
  BY FS_Subset
<1>3. PICK k : IsSum(g, R, k) /\ SumOver(g, R) = k[R]
  BY <1>2, SumOverIs
<1>4. h[R] = k[R]
  <2>1. Folds(g, S, h) /\ Folds(g, R, k)
    BY <1>1, <1>3 DEF IsSum
  <2> HIDE DEF R
  <2> QED BY <1>2, <2>1, SumUnique
<1>5. h[S] = g[x] + h[R]
  BY <1>1, AnyFirst
<1> QED BY <1>1, <1>3, <1>4, <1>5

\* One value changed.
LEMMA SumOverExcept ==
  ASSUME NEW S, IsFiniteSet(S), NEW g, \A x \in S : g[x] \in Nat, NEW x \in S,
         NEW f, f[x] \in Nat, \A y \in S \ {x} : f[y] = g[y]
  PROVE  SumOver(f, S) = SumOver(g, S) - g[x] + f[x]
<1> DEFINE R == S \ {x}
<1>1. IsFiniteSet(R) /\ \A y \in R : g[y] \in Nat
  BY FS_Subset
<1>2. SumOver(f, R) = SumOver(g, R) /\ SumOver(g, R) \in Nat
  <2> HIDE DEF R
  <2>1. \A y \in R : f[y] = g[y]
    BY DEF R
  <2> QED BY <1>1, <2>1, SumOverSame, SumOverType
<1>3. SumOver(g, S) = g[x] + SumOver(g, R)
  BY SumOverSplit
<1>4. \A y \in S : f[y] \in Nat
  OBVIOUS
<1>5. SumOver(f, S) = f[x] + SumOver(f, R)
  BY <1>4, SumOverSplit
<1> HIDE DEF R
<1>6. g[x] \in Nat
  OBVIOUS
<1> QED BY <1>2, <1>3, <1>5, <1>6

LEMMA SumOverZero ==
  ASSUME NEW S, IsFiniteSet(S), NEW g, \A x \in S : g[x] = 0
  PROVE  SumOver(g, S) = 0
<1>1. PICK h : IsSum(g, S, h) /\ SumOver(g, S) = h[S]
  BY SumOverIs
<1> DEFINE z == [s \in SUBSET S |-> 0]
<1>2. Folds(g, S, z)
  <2>1. \A s \in SUBSET S : s # {} => g[Chosen(s)] = 0 /\ s \ {Chosen(s)} \in SUBSET S
    BY ChosenIn
  <2> QED BY <2>1 DEF Folds, SumStep
<1>3. z[S] = 0 /\ S \in SUBSET (S \cap S)
  OBVIOUS
<1> HIDE DEF z
<1>4. h[S] = z[S]
  BY <1>1, <1>2, <1>3, SumUnique DEF IsSum
<1> QED BY <1>1, <1>3, <1>4

\* A part sums up to no more than the whole.
LEMMA SumOverMono ==
  ASSUME NEW S, IsFiniteSet(S), NEW g, \A x \in S : g[x] \in Nat, NEW A \in SUBSET S
  PROVE  SumOver(g, A) <= SumOver(g, S)
<1> DEFINE P(B) == \A C \in SUBSET B : SumOver(g, C) <= SumOver(g, B)
           T == {n \in Nat : \A B \in SUBSET S : Cardinality(B) = n => P(B)}
<1>0. \A B \in SUBSET S : SumOver(g, B) \in Nat /\ IsFiniteSet(B)
  BY SumOverType, FS_Subset
<1>1. 0 \in T
  <2>1. \A B \in SUBSET S : Cardinality(B) = 0 => B = {}
    BY FS_Subset, FS_EmptySet
  <2>2. SumOver(g, {}) <= SumOver(g, {})
    BY SumOverEmpty
  <2> QED BY <2>1, <2>2
<1>2. ASSUME NEW n \in Nat, n \in T PROVE n + 1 \in T
  <2> SUFFICES ASSUME NEW B \in SUBSET S, Cardinality(B) = n + 1, NEW C \in SUBSET B
               PROVE  SumOver(g, C) <= SumOver(g, B)
    OBVIOUS
  <2>1. CASE C = B
    BY <1>0, <2>1
  <2>2. CASE C # B
    <3>1. PICK x \in B : x \notin C
      BY <2>2
    <3>2. B \ {x} \in SUBSET S /\ Cardinality(B \ {x}) = n
      <4>1. Cardinality(B \ {x}) = Cardinality(B) - 1
        BY Smaller
      <4> QED BY <4>1
    <3>3. C \in SUBSET (B \ {x})
      BY <3>1
    <3>4. SumOver(g, C) <= SumOver(g, B \ {x})
      BY <1>2, <3>2, <3>3
    <3>5. \A y \in B : g[y] \in Nat
      OBVIOUS
    <3>6. SumOver(g, B) = g[x] + SumOver(g, B \ {x})
      BY <1>0, <3>5, SumOverSplit
    <3>7. SumOver(g, C) \in Nat /\ SumOver(g, B \ {x}) \in Nat /\ g[x] \in Nat
      <4>1. C \in SUBSET S
        OBVIOUS
      <4> QED BY <1>0, <3>2, <3>5, <4>1
    <3> QED BY <3>4, <3>6, <3>7
  <2> QED BY <2>1, <2>2
<1>3. Nat \subseteq T
  <2> HIDE DEF T
  <2> QED BY <1>1, <1>2, SetInduction
<1>4. Cardinality(S) \in Nat
  BY FS_CardinalityType
<1> QED BY <1>3, <1>4

-----------------------------------------------------------------------------
(* Sums over sequences.                                                    *)

SumSeq(s) == SumOver(s, DOMAIN s)

LEMMA SumUpTo ==
  ASSUME NEW g, NEW n \in Nat, \A i \in 1 .. n + 1 : g[i] \in Nat
  PROVE  SumOver(g, 1 .. n + 1) = g[n + 1] + SumOver(g, 1 .. n)
<1>1. (1 .. n + 1) \ {n + 1} = 1 .. n /\ n + 1 \in 1 .. n + 1
  OBVIOUS
<1>2. IsFiniteSet(1 .. n + 1)
  BY FS_Interval
<1>3. SumOver(g, 1 .. n + 1) = g[n + 1] + SumOver(g, (1 .. n + 1) \ {n + 1})
  BY <1>1, <1>2, SumOverSplit
<1> QED BY <1>1, <1>3

LEMMA SumSeqType == ASSUME NEW s \in Seq(Nat) PROVE SumSeq(s) \in Nat
<1>1. IsFiniteSet(DOMAIN s) /\ \A i \in DOMAIN s : s[i] \in Nat
  BY FS_Interval
<1> QED BY <1>1, SumOverType DEF SumSeq

LEMMA SumSeqEmpty == SumSeq(<<>>) = 0
<1>1. DOMAIN <<>> = {}
  OBVIOUS
<1> QED BY <1>1, SumOverEmpty DEF SumSeq

LEMMA SumSeqAppend ==
  ASSUME NEW s \in Seq(Nat), NEW n \in Nat
  PROVE  SumSeq(Append(s, n)) = SumSeq(s) + n
<1> DEFINE t == Append(s, n)
           L == Len(s)
<1>1. /\ t \in Seq(Nat) /\ L \in Nat /\ DOMAIN s = 1 .. L /\ DOMAIN t = 1 .. L + 1
      /\ t[L + 1] = n /\ \A i \in 1 .. L : t[i] = s[i]
  OBVIOUS
<1> HIDE DEF t, L
<1>2. IsFiniteSet(1 .. L) /\ IsFiniteSet(1 .. L + 1)
  BY <1>1, FS_Interval
<1>4. \A i \in 1 .. L + 1 : t[i] \in Nat
  BY <1>1
<1>5. SumOver(t, 1 .. L + 1) = t[L + 1] + SumOver(t, 1 .. L)
  BY <1>1, <1>4, SumUpTo
<1>6. SumOver(t, 1 .. L) = SumOver(s, 1 .. L)
  <2>1. \A i \in 1 .. L : s[i] \in Nat
    BY <1>1
  <2> QED BY <1>1, <1>2, <2>1, SumOverSame
<1>7. SumSeq(s) \in Nat
  BY SumSeqType
<1>8. SumSeq(t) = n + SumSeq(s)
  BY <1>1, <1>5, <1>6 DEF SumSeq
<1> QED BY <1>7, <1>8 DEF t

LEMMA SumSeqTail ==
  ASSUME NEW s \in Seq(Nat), s # <<>>
  PROVE  SumSeq(s) = Head(s) + SumSeq(Tail(s))
<1> DEFINE t == Tail(s)
           L == Len(s)
<1>1. /\ t \in Seq(Nat) /\ L \in Nat \ {0} /\ DOMAIN s = 1 .. L /\ DOMAIN t = 1 .. L - 1
      /\ Head(s) = s[1] /\ \A i \in 1 .. L - 1 : t[i] = s[i + 1]
      /\ \A i \in 1 .. L : s[i] \in Nat
  OBVIOUS
<1> HIDE DEF t, L
<1> DEFINE T == {n \in Nat : n <= L - 1 => SumOver(s, 1 .. n + 1) = s[1] + SumOver(t, 1 .. n)}
<1>2. \A n \in Nat : IsFiniteSet(1 .. n)
  BY FS_Interval
<1>3. 0 \in T
  <2>1. SumOver(s, 1 .. 0 + 1) = s[0 + 1] + SumOver(s, 1 .. 0)
    <3>1. \A i \in 1 .. 0 + 1 : s[i] \in Nat
      BY <1>1
    <3> QED BY <3>1, SumUpTo
  <2>2. 1 .. 0 = {}
    OBVIOUS
  <2>3. SumOver(s, {}) = 0 /\ SumOver(t, {}) = 0
    BY SumOverEmpty
  <2> QED BY <2>1, <2>2, <2>3
<1>4. ASSUME NEW n \in Nat, n \in T PROVE n + 1 \in T
  <2> SUFFICES ASSUME n + 1 <= L - 1
               PROVE  SumOver(s, 1 .. n + 1 + 1) = s[1] + SumOver(t, 1 .. n + 1)
    OBVIOUS
  <2>1. SumOver(s, 1 .. n + 1) = s[1] + SumOver(t, 1 .. n)
    BY <1>1, <1>4
  <2> HIDE DEF T
  <2>2. SumOver(s, 1 .. n + 1 + 1) = s[n + 1 + 1] + SumOver(s, 1 .. n + 1)
    <3>1. n + 1 \in Nat /\ \A i \in 1 .. n + 1 + 1 : s[i] \in Nat
      BY <1>1
    <3> QED BY <3>1, SumUpTo
  <2>3. SumOver(t, 1 .. n + 1) = t[n + 1] + SumOver(t, 1 .. n)
    <3>1. \A i \in 1 .. n + 1 : t[i] \in Nat
      BY <1>1
    <3> QED BY <3>1, SumUpTo
  <2>4. t[n + 1] = s[n + 1 + 1] /\ s[n + 1 + 1] \in Nat /\ s[1] \in Nat
    BY <1>1
  <2>5. SumOver(t, 1 .. n) \in Nat
    <3>1. \A i \in 1 .. n : t[i] \in Nat
      BY <1>1
    <3> QED BY <1>2, <3>1, SumOverType
  <2> QED BY <2>1, <2>2, <2>3, <2>4, <2>5
<1>5. Nat \subseteq T
  <2> HIDE DEF T
  <2> QED BY <1>3, <1>4, SetInduction
<1>6. L - 1 \in T
  BY <1>1, <1>5
<1>7. SumOver(s, 1 .. L) = s[1] + SumOver(t, 1 .. L - 1)
  BY <1>1, <1>6
<1> QED BY <1>1, <1>7 DEF SumSeq, t

-----------------------------------------------------------------------------
(* Folds from the left over a sequence of n elements.                      *)

LEMMA MaxIn ==
  ASSUME NEW n \in Nat, NEW s \in SUBSET (1 .. n), s # {}
  PROVE  Max(s) \in s /\ \A y \in s : Max(s) >= y
<1> DEFINE T == {k \in Nat : \A r \in SUBSET (1 .. k) : r # {} => \E x \in r : \A y \in r : x >= y}
<1>1. 0 \in T
  <2>1. \A r \in SUBSET (1 .. 0) : r = {}
    OBVIOUS
  <2> QED BY <2>1
<1>2. ASSUME NEW k \in Nat, k \in T PROVE k + 1 \in T
  <2> SUFFICES ASSUME NEW r \in SUBSET (1 .. k + 1), r # {} PROVE \E x \in r : \A y \in r : x >= y
    OBVIOUS
  <2>1. CASE k + 1 \in r
    BY <2>1
  <2>2. CASE k + 1 \notin r
    <3>1. r \in SUBSET (1 .. k)
      BY <2>2
    <3> QED BY <1>2, <3>1
  <2> QED BY <2>1, <2>2
<1> HIDE DEF T
<1>3. Nat \subseteq T
  BY <1>1, <1>2, SetInduction
<1>4. \E x \in s : \A y \in s : x >= y
  <2>1. n \in T
    BY <1>3
  <2> QED BY <2>1 DEF T
<1> QED BY <1>4 DEF Max

LEMMA MaxUpTo ==
  ASSUME NEW k \in Nat
  PROVE  1 .. k + 1 # {} /\ Max(1 .. k + 1) = k + 1 /\ (1 .. k + 1) \ {k + 1} = 1 .. k
<1>1. 1 .. k + 1 # {} /\ (1 .. k + 1) \ {k + 1} = 1 .. k /\ k + 1 \in 1 .. k + 1
  OBVIOUS
<1> DEFINE s == 1 .. k + 1
<1>2. s \in SUBSET (1 .. k + 1) /\ s # {} /\ k + 1 \in Nat
  BY <1>1
<1>3. Max(s) \in s /\ \A y \in s : Max(s) >= y
  BY <1>2, MaxIn
<1>4. Max(s) <= k + 1 /\ Max(s) >= k + 1 /\ Max(s) \in Int
  BY <1>1, <1>3
<1>5. Max(s) = k + 1
  BY <1>4
<1> QED BY <1>1, <1>5

\* The values of a fold from the left over the first elements.
Recurs(n, base, F, it) ==
  \A s \in SUBSET (1 .. n) : it[s] = IF s = {} THEN base ELSE F[it[s \ {Max(s)}], Max(s)]

\* The function that a fold from the left defines exists.
LEMMA FoldExists ==
  ASSUME NEW n \in Nat, NEW V, NEW base \in V, NEW F \in [V \X (1 .. n) -> V]
  PROVE  \E h \in [SUBSET (1 .. n) -> V] : Recurs(n, base, F, h)
<1> DEFINE S == 1 .. n
           D(m) == {s \in SUBSET S : Cardinality(s) <= m}
           OK(m, h) == /\ h \in [D(m) -> V]
                       /\ \A s \in D(m) : h[s] = IF s = {} THEN base ELSE F[h[s \ {Max(s)}], Max(s)]
           T == {m \in Nat : \E h : OK(m, h)}
<1>0. IsFiniteSet(S) /\ \A s \in SUBSET S : Cardinality(s) \in Nat /\ (Cardinality(s) = 0 => s = {})
  <2>1. IsFiniteSet(S)
    BY FS_Interval
  <2> QED BY <2>1, FS_Subset, FS_CardinalityType, FS_EmptySet
<1>1. 0 \in T
  <2> DEFINE h == [s \in D(0) |-> base]
  <2>1. \A s \in D(0) : s = {}
    BY <1>0
  <2>2. OK(0, h)
    BY <2>1
  <2> HIDE DEF OK, h
  <2> QED BY <2>2
<1>2. ASSUME NEW m \in Nat, m \in T PROVE m + 1 \in T
  <2>1. PICK h : OK(m, h)
    BY <1>2
  <2> DEFINE k == [s \in D(m + 1) |-> IF Cardinality(s) <= m THEN h[s]
                                     ELSE F[h[s \ {Max(s)}], Max(s)]]
  <2>2. ASSUME NEW s \in D(m + 1), s # {}
        PROVE  /\ Max(s) \in S /\ s \ {Max(s)} \in D(m)
               /\ Cardinality(s \ {Max(s)}) <= m
               /\ Cardinality(s) <= m + 1
    <3>1. s \in SUBSET S /\ Max(s) \in s /\ Cardinality(s) <= m + 1
      BY <2>2, MaxIn
    <3>2. Cardinality(s) \in Nat /\ s \ {Max(s)} \in SUBSET S
          /\ Cardinality(s \ {Max(s)}) = Cardinality(s) - 1
      BY <1>0, <3>1, Smaller
    <3>3. Cardinality(s \ {Max(s)}) <= m
      BY <3>1, <3>2
    <3>4. Max(s) \in S
      BY <3>1
    <3> QED BY <3>1, <3>2, <3>3, <3>4
  <2>3. ASSUME NEW s \in D(m + 1), ~(Cardinality(s) <= m) PROVE s # {}
    BY <2>3, FS_EmptySet
  <2>4. \A s \in D(m) : s \in D(m + 1)
    BY <1>0
  <2>5. k \in [D(m + 1) -> V]
    <3>1. ASSUME NEW s \in D(m + 1)
          PROVE  (IF Cardinality(s) <= m THEN h[s] ELSE F[h[s \ {Max(s)}], Max(s)]) \in V
      <4>1. CASE Cardinality(s) <= m
        BY <2>1, <4>1
      <4>2. CASE ~(Cardinality(s) <= m)
        <5>1. h[s \ {Max(s)}] \in V /\ Max(s) \in 1 .. n
          BY <2>1, <2>2, <2>3, <4>2
        <5>2. <<h[s \ {Max(s)}], Max(s)>> \in V \X (1 .. n)
          BY <5>1
        <5>3. F[h[s \ {Max(s)}], Max(s)] \in V
          BY <5>2
        <5> QED BY <4>2, <5>3
      <4> QED BY <4>1, <4>2
    <3> QED BY <3>1
  <2>6. ASSUME NEW s \in D(m + 1)
        PROVE  k[s] = IF s = {} THEN base ELSE F[k[s \ {Max(s)}], Max(s)]
    <3>1. CASE s = {}
      <4>1. Cardinality(s) <= m /\ s \in D(m)
        BY <3>1, FS_EmptySet
      <4> QED BY <2>1, <3>1, <4>1
    <3>2. CASE s # {}
      <4>1. /\ s \ {Max(s)} \in D(m) /\ s \ {Max(s)} \in D(m + 1)
            /\ k[s \ {Max(s)}] = h[s \ {Max(s)}]
        BY <2>2, <2>4, <3>2
      <4>2. CASE Cardinality(s) <= m
        <5>1. s \in D(m) /\ k[s] = h[s]
          BY <4>2
        <5>2. h[s] = IF s = {} THEN base ELSE F[h[s \ {Max(s)}], Max(s)]
          BY <2>1, <5>1
        <5> QED BY <3>2, <4>1, <5>1, <5>2
      <4>3. CASE ~(Cardinality(s) <= m)
        BY <3>2, <4>1, <4>3
      <4> QED BY <4>2, <4>3
    <3> QED BY <3>1, <3>2
  <2>7. OK(m + 1, k)
    BY <2>5, <2>6
  <2> HIDE DEF OK, k
  <2> QED BY <2>7
<1> HIDE DEF T
<1>3. Nat \subseteq T
  BY <1>1, <1>2, SetInduction
<1>4. Cardinality(S) \in T
  BY <1>0, <1>3, FS_CardinalityType
<1>5. D(Cardinality(S)) = SUBSET S
  BY <1>0, FS_Subset
<1>6. PICK h : OK(Cardinality(S), h)
  BY <1>4 DEF T
<1> QED BY <1>5, <1>6 DEF Recurs

\* A fold that satisfies its recursion runs through the sequence.
LEMMA FoldRuns ==
  ASSUME NEW n \in Nat, NEW base, NEW F, NEW it, Recurs(n, base, F, it)
  PROVE  it[1 .. 0] = base /\ \A k \in 0 .. n - 1 : it[1 .. k + 1] = F[it[1 .. k], k + 1]
<1>1. it[1 .. 0] = base
  <2>1. 1 .. 0 = {}
    OBVIOUS
  <2>2. {} \in SUBSET (1 .. n)
    OBVIOUS
  <2>3. it[{}] = base
    BY <2>2 DEF Recurs
  <2> QED BY <2>1, <2>3
<1>2. ASSUME NEW k \in 0 .. n - 1 PROVE it[1 .. k + 1] = F[it[1 .. k], k + 1]
  <2>1. k \in Nat /\ 1 .. k + 1 \in SUBSET (1 .. n)
    OBVIOUS
  <2> DEFINE s == 1 .. k + 1
  <2>2. s # {} /\ Max(s) = k + 1 /\ s \ {k + 1} = 1 .. k /\ s \in SUBSET (1 .. n)
    BY <2>1, MaxUpTo
  <2> HIDE DEF s
  <2>3. it[s] = F[it[s \ {Max(s)}], Max(s)]
    BY <2>2 DEF Recurs
  <2> QED BY <2>2, <2>3 DEF s
<1> QED BY <1>1, <1>2
=============================================================================

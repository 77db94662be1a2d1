------------------------------- MODULE Lemmas -------------------------------
(***************************************************************************)
(* What the proofs about loops and sums share: least and greatest members  *)
(* of sets of numbers, the induction they give, and what SumFunctionOnSet  *)
(* of the community modules comes to.                                      *)
(*                                                                         *)
(* A sum there is a fold over a CHOOSEn recursive function: that there is  *)
(* such a function is FoldExists, and SumFacts is what follows, the        *)
(* recursion over any element and not only the chosen one.                 *)
(***************************************************************************)
EXTENDS Integers, Sequences, FiniteSets, Functions,
        WellFoundedInduction, FiniteSetTheorems, TLAPS

\* A set of natural numbers has a least member, and one that is bounded a
\* greatest.
LEMMA LeastNatural ==
    ASSUME NEW T \in SUBSET Nat, T # {}
    PROVE  \E m \in T : \A k \in T : m <= k
<1> DEFINE R == OpToRel(<, Nat)
<1>1. IsWellFoundedOn(R, Nat)
  BY NatLessThanWellFounded
<1>2. \A a, b \in Nat : <<a, b>> \in R <=> a < b
  BY DEF OpToRel
<1> HIDE DEF R
<1>3. PICK m \in T : \A k \in T : ~ (<<k, m>> \in R)
  BY <1>1, WFMin
<1>4. ASSUME NEW k \in T PROVE m <= k
  <2>1. ~ (<<k, m>> \in R) /\ m \in Nat /\ k \in Nat
    BY <1>3
  <2>2. ~ (k < m)
    BY <1>2, <2>1, Zenon
  <2> QED BY <2>1, <2>2
<1> QED BY <1>4

LEMMA GreatestNatural ==
    ASSUME NEW T \in SUBSET Nat, T # {}, NEW n \in Nat, \A k \in T : k <= n
    PROVE  \E m \in T : \A k \in T : m >= k
<1> DEFINE bounds == {b \in Nat : \A k \in T : k <= b}
<1>1. PICK m \in bounds : \A b \in bounds : m <= b
  <2>1. bounds # {}
    OBVIOUS
  <2> HIDE DEF bounds
  <2>2. bounds \in SUBSET Nat
    BY DEF bounds
  <2> QED BY <2>1, <2>2, LeastNatural
<1>2. m \in Nat /\ \A k \in T : k <= m
  BY <1>1
<1>3. m \in T
  <2> SUFFICES ASSUME m \notin T PROVE FALSE
    OBVIOUS
  <2>1. \A k \in T : k \in Nat /\ k <= m /\ k # m
    BY <1>2
  <2>2. \A k \in T : k <= m - 1
    BY <1>2, <2>1
  <2>3. m - 1 \in Nat
    <3>1. PICK k \in T : TRUE
      OBVIOUS
    <3> QED BY <1>2, <2>1, <3>1
  <2>4. m - 1 \in bounds
    BY <2>2, <2>3
  <2> QED BY <1>1, <1>2, <2>4
<1> QED BY <1>2, <1>3

\* A set of numbers that holds 0 and the successor of each of its members
\* holds every number: how the proofs about loops of any length go by
\* induction.
LEMMA NaturalsOf ==
    ASSUME NEW T \in SUBSET Nat, 0 \in T, \A n \in T : n + 1 \in T
    PROVE  T = Nat
<1> SUFFICES ASSUME Nat \ T # {} PROVE FALSE
  OBVIOUS
<1>1. PICK m \in Nat \ T : \A k \in Nat \ T : m <= k
  <2>1. Nat \ T \in SUBSET Nat
    OBVIOUS
  <2> QED
    BY <2>1, LeastNatural
<1>2. m # 0 /\ m - 1 \in Nat
  BY <1>1
<1>3. m - 1 \in T
  BY <1>1, <1>2
<1>4. (m - 1) + 1 \in T
  BY <1>3
<1> QED
  BY <1>1, <1>2, <1>4

\* What is in a sequence.
LEMMA ElementOf ==
    ASSUME NEW S, NEW s \in Seq(S), NEW k \in 1 .. Len(s)
    PROVE  s[k] \in S
OBVIOUS

-----------------------------------------------------------------------------
(* Folds                                                                   *)

\* A way to pick from every set, a step that stays in V, and the function
\* that takes the steps, one for each element picked, from base.
Picks(pick, S) == \A s \in SUBSET S : s # {} => pick[s] \in s

Steps(step, S, V) == \A x \in S, v \in V : step[<<x, v>>] \in V

FoldsBy(h, base, pick, step, S) ==
    \A s \in SUBSET S :
        h[s] = IF s = {} THEN base ELSE step[<<pick[s], h[s \ {pick[s]}]>>]

\* Such a function exists for every finite set.
LEMMA FoldExists ==
    ASSUME NEW S, IsFiniteSet(S), NEW V, NEW base \in V,
           NEW pick, Picks(pick, S), NEW step, Steps(step, S, V)
    PROVE  \E h \in [SUBSET S -> V] : FoldsBy(h, base, pick, step, S)
<1> USE DEF Picks, Steps
<1> DEFINE Ok(h, s) == h[s] = IF s = {} THEN base ELSE step[<<pick[s], h[s \ {pick[s]}]>>]
           P(n) == \E h \in [SUBSET S -> V] : \A s \in SUBSET S :
                        Cardinality(s) <= n => Ok(h, s)
           T == {n \in Nat : P(n)}
<1>1. \A s \in SUBSET S : IsFiniteSet(s) /\ Cardinality(s) \in Nat
  BY FS_Subset, FS_CardinalityType
<1>2. P(0)
  <2> DEFINE h == [s \in SUBSET S |-> base]
  <2>1. h \in [SUBSET S -> V]
    OBVIOUS
  <2>2. \A s \in SUBSET S : Cardinality(s) <= 0 => Ok(h, s)
    <3> SUFFICES ASSUME NEW s \in SUBSET S, Cardinality(s) <= 0 PROVE Ok(h, s)
      OBVIOUS
    <3>1. s = {}
      BY <1>1, FS_EmptySet
    <3> QED BY <3>1
  <2> QED BY <2>1, <2>2
<1>3. ASSUME NEW n \in Nat, P(n) PROVE P(n + 1)
  <2>1. PICK h \in [SUBSET S -> V] : \A s \in SUBSET S : Cardinality(s) <= n => Ok(h, s)
    BY <1>3
  <2> DEFINE g == [s \in SUBSET S |-> IF Cardinality(s) <= n THEN h[s]
                        ELSE step[<<pick[s], h[s \ {pick[s]}]>>]]
  <2>2. \A s \in SUBSET S : s # {} =>
            s \ {pick[s]} \in SUBSET S /\ pick[s] \in S
            /\ Cardinality(s \ {pick[s]}) = Cardinality(s) - 1
    BY <1>1, FS_RemoveElement
  <2>3. \A s \in SUBSET S : Cardinality(s) = 0 <=> s = {}
    BY <1>1, FS_EmptySet
  <2>4. g \in [SUBSET S -> V]
    <3>1. ASSUME NEW s \in SUBSET S PROVE g[s] \in V
      <4>1. CASE Cardinality(s) <= n
        BY <4>1, <2>1
      <4>2. CASE ~ (Cardinality(s) <= n)
        <5>1. s # {}
          BY <4>2, <1>1, <2>3
        <5>2. h[s \ {pick[s]}] \in V
          BY <5>1, <2>2, <2>1
        <5>3. step[<<pick[s], h[s \ {pick[s]}]>>] \in V
          BY <5>1, <5>2, <2>2
        <5> QED BY <5>3, <4>2
      <4> QED BY <4>1, <4>2
    <3> QED BY <3>1
  <2>5. ASSUME NEW s \in SUBSET S, Cardinality(s) <= n + 1 PROVE Ok(g, s)
    <3>1. CASE s = {}
      <4>1. g[s] = h[s]
        BY <3>1, <2>3, <1>1
      <4>2. Cardinality(s) <= n
        BY <3>1, <2>3, <1>1
      <4>3. Ok(h, s)
        BY <4>2, <2>1
      <4> QED BY <4>1, <4>3, <3>1
    <3>2. CASE s # {}
      <4> DEFINE r == s \ {pick[s]}
      <4>1. r \in SUBSET S /\ Cardinality(r) <= n
        BY <3>2, <2>2, <2>5, <1>1
      <4>2. g[r] = h[r]
        BY <4>1
      <4>3. g[s] = step[<<pick[s], h[r]>>]
        <5>1. CASE Cardinality(s) <= n
          <6>1. g[s] = h[s]
            BY <5>1
          <6> QED BY <6>1, <2>1, <5>1, <3>2
        <5>2. CASE ~ (Cardinality(s) <= n)
          BY <5>2
        <5> QED BY <5>1, <5>2
      <4> QED BY <4>2, <4>3, <3>2
    <3> QED BY <3>1, <3>2
  <2> HIDE DEF g, Ok
  <2> QED BY <2>4, <2>5
<1>4. T = Nat
  <2> HIDE DEF P
  <2>1. T \in SUBSET Nat /\ 0 \in T /\ \A n \in T : n + 1 \in T
    BY <1>2, <1>3
  <2> HIDE DEF T
  <2> QED BY <2>1, NaturalsOf
<1>5. P(Cardinality(S))
  <2> HIDE DEF P
  <2> QED BY <1>4, <1>1
<1>6. PICK h \in [SUBSET S -> V] : \A s \in SUBSET S :
            Cardinality(s) <= Cardinality(S) => Ok(h, s)
  BY <1>5
<1>7. \A s \in SUBSET S : Cardinality(s) <= Cardinality(S)
  BY FS_Subset
<1> QED BY <1>6, <1>7 DEF FoldsBy

-----------------------------------------------------------------------------
(* Sums                                                                    *)

NatOn(f, S) == \A x \in S : f[x] \in Nat

\* h sums f over the subsets of S as SumFunctionOnSet does.
Adds(h, f, S) ==
    h = [s \in SUBSET S |-> IF s = {} THEN 0
            ELSE f[CHOOSE x \in s : TRUE] + h[s \ {CHOOSE x \in s : TRUE}]]

\* There is such a function, so the sum is its value.
LEMMA AddsExists ==
    ASSUME NEW S, IsFiniteSet(S), NEW f, NatOn(f, S)
    PROVE  \E h \in [SUBSET S -> Nat] : Adds(h, f, S)
<1> USE DEF NatOn
<1> DEFINE pick == [s \in SUBSET S |-> CHOOSE x \in s : TRUE]
           step == [p \in S \X Nat |-> f[p[1]] + p[2]]
<1>1. \A s \in SUBSET S : s # {} => pick[s] \in s
  OBVIOUS
<1>2. \A x \in S, v \in Nat : step[<<x, v>>] = f[x] + v /\ step[<<x, v>>] \in Nat
  OBVIOUS
<1>3. PICK h \in [SUBSET S -> Nat] : FoldsBy(h, 0, pick, step, S)
  <2>1. Picks(pick, S)
    BY <1>1 DEF Picks
  <2>2. Steps(step, S, Nat)
    BY <1>2 DEF Steps
  <2> HIDE DEF pick, step
  <2>3. PICK V : V = Nat
    OBVIOUS
  <2>4. 0 \in V /\ Steps(step, S, V)
    BY <2>2, <2>3
  <2>5. \E h \in [SUBSET S -> V] : FoldsBy(h, 0, pick, step, S)
    BY <2>1, <2>4, FoldExists
  <2> QED BY <2>3, <2>5
<1>4. ASSUME NEW s \in SUBSET S
      PROVE h[s] = IF s = {} THEN 0
                    ELSE f[CHOOSE x \in s : TRUE] + h[s \ {CHOOSE x \in s : TRUE}]
  <2>1. CASE s # {}
    <3>1. pick[s] = CHOOSE x \in s : TRUE
      OBVIOUS
    <3> DEFINE c == CHOOSE x \in s : TRUE
    <3>2. c \in S /\ h[s \ {c}] \in Nat
      BY <2>1
    <3>3. h[s] = step[<<c, h[s \ {c}]>>]
      BY <1>3, <2>1, <3>1 DEF FoldsBy
    <3> HIDE DEF c, step
    <3>4. h[s] = f[c] + h[s \ {c}]
      BY <3>2, <3>3, <1>2
    <3> QED BY <3>4, <2>1 DEF c
  <2> QED BY <2>1, <1>3 DEF FoldsBy
<1> QED BY <1>4 DEF Adds

LEMMA SumIsIter ==
    ASSUME NEW S, IsFiniteSet(S), NEW f, NatOn(f, S)
    PROVE  \E h : Adds(h, f, S) /\ SumFunctionOnSet(f, S) = h[S]
<1>1. \E h : Adds(h, f, S)
  BY AddsExists
<1>2. SumFunctionOnSet(f, S) = (CHOOSE h : Adds(h, f, S))[S]
  BY Zenon DEF SumFunctionOnSet, FoldFunctionOnSet, MapThenFoldSet, Adds
<1> QED BY <1>1, <1>2

\* Whichever element is taken out first, the sum is the same.
LEMMA AddsExchange ==
    ASSUME NEW S, IsFiniteSet(S), NEW f, NatOn(f, S),
           NEW h, Adds(h, f, S)
    PROVE  /\ h[{}] = 0
           /\ \A s \in SUBSET S : h[s] \in Nat
           /\ \A s \in SUBSET S : \A x \in s : h[s] = f[x] + h[s \ {x}]
<1> USE DEF NatOn
<1> DEFINE Good(s) == h[s] \in Nat /\ \A x \in s : h[s] = f[x] + h[s \ {x}]
           T == {n \in Nat : \A s \in SUBSET S : Cardinality(s) <= n => Good(s)}
<1>1. \A s \in SUBSET S : IsFiniteSet(s) /\ Cardinality(s) \in Nat
  BY FS_Subset, FS_CardinalityType
<1>2. \A s \in SUBSET S : \A x \in s : Cardinality(s \ {x}) = Cardinality(s) - 1
  BY <1>1, FS_RemoveElement
<1>3. \A s \in SUBSET S : Cardinality(s) = 0 <=> s = {}
  BY <1>1, FS_EmptySet
<1>4. h[{}] = 0
  BY DEF Adds
<1>5. 0 \in T
  <2>1. \A s \in SUBSET S : Cardinality(s) <= 0 => s = {}
    BY <1>1, <1>3
  <2> QED BY <1>4, <2>1
<1>6. ASSUME NEW n \in T PROVE n + 1 \in T
  <2>1. n \in Nat /\ \A s \in SUBSET S : Cardinality(s) <= n => Good(s)
    OBVIOUS
  <2>2. ASSUME NEW s \in SUBSET S, Cardinality(s) <= n + 1, s # {}
        PROVE Good(s)
    <3>1. PICK c \in s : h[s] = f[c] + h[s \ {c}]
      <4>1. (CHOOSE x \in s : TRUE) \in s
        BY <2>2
      <4> QED BY <2>2, <4>1 DEF Adds
    <3>2. \A x \in s : s \ {x} \in SUBSET S /\ Cardinality(s \ {x}) <= n
      BY <2>2, <1>2, <1>1, <2>1
    <3>3. \A x \in s : Good(s \ {x})
      BY <3>2, <2>1
    <3>4. h[s] \in Nat
      BY <3>1, <3>3
    <3>5. ASSUME NEW x \in s, x # c PROVE h[s] = f[x] + h[s \ {x}]
      <4> DEFINE u == s \ {x, c}
      <4>1. (s \ {c}) \ {x} = u /\ (s \ {x}) \ {c} = u
        OBVIOUS
      <4>2. u \in SUBSET S /\ Cardinality(s \ {c}) <= n /\ Cardinality(u) <= n
        <5>1. x \in s \ {c} /\ s \ {c} \in SUBSET S
          BY <3>5
        <5>2. Cardinality((s \ {c}) \ {x}) = Cardinality(s \ {c}) - 1
          BY <5>1, <1>2
        <5>3. Cardinality(u) = Cardinality(s \ {c}) - 1
          BY <5>2, <4>1
        <5>4. Cardinality(s \ {c}) \in Nat /\ Cardinality(s \ {c}) <= n
          BY <5>1, <3>2, <1>1
        <5>5. u \in SUBSET S
          OBVIOUS
        <5> HIDE DEF u
        <5> QED BY <5>3, <5>4, <5>5, <2>1
      <4>3. h[s \ {c}] = f[x] + h[u] /\ h[s \ {x}] = f[c] + h[u]
        <5>1. Good(s \ {c}) /\ Good(s \ {x})
          BY <3>3, <3>5
        <5>2. x \in s \ {c} /\ c \in s \ {x}
          BY <3>5
        <5>3. h[s \ {c}] = f[x] + h[(s \ {c}) \ {x}]
          BY <5>1, <5>2
        <5>4. h[s \ {x}] = f[c] + h[(s \ {x}) \ {c}]
          BY <5>1, <5>2
        <5> HIDE DEF u
        <5> QED BY <5>3, <5>4, <4>1
      <4>4. f[x] \in Nat /\ f[c] \in Nat /\ h[u] \in Nat
        BY <4>2, <2>1
      <4> HIDE DEF u
      <4> QED BY <3>1, <4>3, <4>4
    <3> QED BY <3>1, <3>4, <3>5
  <2>3. Good({})
    BY <1>4
  <2>4. \A s \in SUBSET S : Cardinality(s) <= n + 1 => Good(s)
    <3> HIDE DEF Good
    <3> QED BY <2>2, <2>3
  <2> HIDE DEF Good
  <2> QED BY <2>1, <2>4
<1>7. T = Nat
  <2>1. T \in SUBSET Nat
    OBVIOUS
  <2> HIDE DEF T
  <2> QED BY <1>5, <1>6, <2>1, NaturalsOf
<1>8. ASSUME NEW s \in SUBSET S PROVE Good(s)
  <2>1. Cardinality(s) \in T
    <3>1. Cardinality(s) \in Nat
      BY <1>1
    <3> HIDE DEF T
    <3> QED BY <3>1, <1>7
  <2> HIDE DEF Good
  <2> QED BY <2>1, <1>1
<1> QED BY <1>4, <1>8

\* The sum over a subset does not depend on the set it is a subset of.
LEMMA AddsAgree ==
    ASSUME NEW S, IsFiniteSet(S), NEW f, NatOn(f, S),
           NEW g, Adds(g, f, S), NEW R \in SUBSET S, NEW h, Adds(h, f, R)
    PROVE  \A s \in SUBSET R : g[s] = h[s]
<1> DEFINE T == {n \in Nat : \A s \in SUBSET R : Cardinality(s) <= n => g[s] = h[s]}
<1>1. \A s \in SUBSET R : IsFiniteSet(s) /\ Cardinality(s) \in Nat
  BY FS_Subset, FS_CardinalityType
<1>2. \A s \in SUBSET R : \A x \in s : Cardinality(s \ {x}) = Cardinality(s) - 1
  BY <1>1, FS_RemoveElement
<1>3. \A s \in SUBSET R : Cardinality(s) <= 0 => s = {}
  BY <1>1, FS_EmptySet
<1>4. g[{}] = 0 /\ h[{}] = 0
  BY DEF Adds
<1>5. 0 \in T
  BY <1>3, <1>4
<1>6. ASSUME NEW n \in T PROVE n + 1 \in T
  <2>1. n \in Nat /\ \A s \in SUBSET R : Cardinality(s) <= n => g[s] = h[s]
    OBVIOUS
  <2>2. ASSUME NEW s \in SUBSET R, Cardinality(s) <= n + 1, s # {}
        PROVE g[s] = h[s]
    <3> DEFINE c == CHOOSE x \in s : TRUE
    <3>1. c \in s
      BY <2>2
    <3>2. g[s] = f[c] + g[s \ {c}] /\ h[s] = f[c] + h[s \ {c}]
      <4>1. s \in SUBSET S
        OBVIOUS
      <4> QED BY <2>2, <4>1 DEF Adds
    <3>3. s \ {c} \in SUBSET R /\ Cardinality(s \ {c}) <= n
      <4>1. Cardinality(s \ {c}) = Cardinality(s) - 1
        BY <3>1, <1>2
      <4>2. s \ {c} \in SUBSET R /\ Cardinality(s) \in Nat
        BY <1>1
      <4> HIDE DEF c
      <4> QED BY <4>1, <4>2, <2>1, <2>2
    <3> HIDE DEF c
    <3> QED BY <3>2, <3>3, <2>1
  <2>3. \A s \in SUBSET R : Cardinality(s) <= n + 1 => g[s] = h[s]
    BY <2>2, <1>4
  <2> QED BY <2>1, <2>3
<1>7. T = Nat
  <2>1. T \in SUBSET Nat
    OBVIOUS
  <2> HIDE DEF T
  <2> QED BY <1>5, <1>6, <2>1, NaturalsOf
<1> QED BY <1>1, <1>7

\* A sum of numbers is a number, and any element can be taken out of it.
LEMMA SumFacts ==
    ASSUME NEW S, IsFiniteSet(S), NEW f, NatOn(f, S)
    PROVE  /\ SumFunctionOnSet(f, S) \in Nat
           /\ S = {} => SumFunctionOnSet(f, S) = 0
           /\ \A x \in S : SumFunctionOnSet(f, S) = f[x] + SumFunctionOnSet(f, S \ {x})
<1>1. PICK h : Adds(h, f, S) /\ SumFunctionOnSet(f, S) = h[S]
  BY SumIsIter
<1>2. /\ h[{}] = 0
      /\ \A s \in SUBSET S : h[s] \in Nat
      /\ \A s \in SUBSET S : \A x \in s : h[s] = f[x] + h[s \ {x}]
  BY <1>1, AddsExchange
<1>3. ASSUME NEW x \in S PROVE SumFunctionOnSet(f, S \ {x}) = h[S \ {x}]
  <2> DEFINE R == S \ {x}
  <2>1. R \in SUBSET S /\ IsFiniteSet(R) /\ NatOn(f, R)
    BY FS_Subset DEF NatOn
  <2> HIDE DEF R
  <2>2. PICK k : Adds(k, f, R) /\ SumFunctionOnSet(f, R) = k[R]
    BY <2>1, SumIsIter
  <2>3. h[R] = k[R]
    BY <2>1, <2>2, <1>1, AddsAgree
  <2> QED BY <2>2, <2>3 DEF R
<1> QED BY <1>1, <1>2, <1>3

\* Functions that agree have one sum.
LEMMA SumSame ==
    ASSUME NEW S, IsFiniteSet(S), NEW f, NatOn(f, S), NEW g, \A x \in S : g[x] = f[x]
    PROVE  SumFunctionOnSet(g, S) = SumFunctionOnSet(f, S)
<1>1. NatOn(g, S)
  BY DEF NatOn
<1>2. PICK h : Adds(h, f, S) /\ SumFunctionOnSet(f, S) = h[S]
  BY SumIsIter
<1>3. PICK k : Adds(k, g, S) /\ SumFunctionOnSet(g, S) = k[S]
  BY <1>1, SumIsIter
<1>4. ASSUME NEW s \in SUBSET S
      PROVE  h[s] = IF s = {} THEN 0
                    ELSE g[CHOOSE x \in s : TRUE] + h[s \ {CHOOSE x \in s : TRUE}]
  <2>1. h[s] = IF s = {} THEN 0
                ELSE f[CHOOSE x \in s : TRUE] + h[s \ {CHOOSE x \in s : TRUE}]
    BY <1>2 DEF Adds
  <2>2. s # {} => g[CHOOSE x \in s : TRUE] = f[CHOOSE x \in s : TRUE]
    OBVIOUS
  <2> QED BY <2>1, <2>2
<1>5. h = [s \in SUBSET S |-> h[s]]
  BY <1>2 DEF Adds
<1>6. Adds(h, g, S)
  BY <1>4, <1>5 DEF Adds
<1>7. k[S] = h[S]
  BY <1>1, <1>3, <1>6, AddsAgree
<1> QED BY <1>2, <1>3, <1>7

\* The sum over two sets that share nothing.
LEMMA SumSplit ==
    ASSUME NEW S, IsFiniteSet(S), NEW R, IsFiniteSet(R), S \cap R = {},
           NEW f, NatOn(f, S \cup R)
    PROVE  SumFunctionOnSet(f, S \cup R) = SumFunctionOnSet(f, S) + SumFunctionOnSet(f, R)
<1> DEFINE Good(s) == SumFunctionOnSet(f, S \cup s)
                        = SumFunctionOnSet(f, S) + SumFunctionOnSet(f, s)
           T == {n \in Nat : \A s \in SUBSET R : Cardinality(s) <= n => Good(s)}
<1>1. \A s \in SUBSET R : /\ IsFiniteSet(s) /\ Cardinality(s) \in Nat
                          /\ IsFiniteSet(S \cup s)
                          /\ NatOn(f, s) /\ NatOn(f, S \cup s)
  BY FS_Subset, FS_CardinalityType, FS_Union DEF NatOn
<1>2. NatOn(f, S)
  BY DEF NatOn
<1>3. SumFunctionOnSet(f, S) \in Nat
  BY <1>2, SumFacts
<1>4. Good({})
  <2>1. SumFunctionOnSet(f, {}) = 0
    BY FS_EmptySet, SumFacts DEF NatOn
  <2>2. S \cup {} = S
    OBVIOUS
  <2> QED BY <1>3, <2>1, <2>2
<1>5. 0 \in T
  <2>1. \A s \in SUBSET R : Cardinality(s) = 0 <=> s = {}
    BY <1>1, FS_EmptySet
  <2>2. ASSUME NEW s \in SUBSET R, Cardinality(s) <= 0 PROVE s = {}
    <3>1. Cardinality(s) \in Nat
      BY <1>1
    <3>2. Cardinality(s) = 0
      BY <2>2, <3>1
    <3> QED BY <2>1, <3>2
  <2> HIDE DEF Good
  <2> QED BY <1>4, <2>2
<1>6. ASSUME NEW n \in T PROVE n + 1 \in T
  <2>1. n \in Nat /\ \A s \in SUBSET R : Cardinality(s) <= n => Good(s)
    OBVIOUS
  <2>2. ASSUME NEW s \in SUBSET R, Cardinality(s) <= n + 1, s # {}
        PROVE  Good(s)
    <3>1. PICK c \in s : TRUE
      BY <2>2
    <3> DEFINE r == s \ {c}
    <3>2. r \in SUBSET R /\ Cardinality(r) <= n
      <4>1. Cardinality(r) = Cardinality(s) - 1
        BY <1>1, FS_RemoveElement
      <4>2. r \in SUBSET R /\ Cardinality(s) \in Nat
        BY <1>1
      <4> HIDE DEF r
      <4> QED BY <4>1, <4>2, <2>1, <2>2
    <3>3. SumFunctionOnSet(f, s) = f[c] + SumFunctionOnSet(f, r)
      <4>1. IsFiniteSet(s) /\ NatOn(f, s)
        BY <1>1
      <4> QED BY <4>1, SumFacts
    <3>4. SumFunctionOnSet(f, S \cup s) = f[c] + SumFunctionOnSet(f, S \cup r)
      <4>1. (S \cup s) \ {c} = S \cup r /\ c \in S \cup s
        OBVIOUS
      <4> DEFINE u == S \cup s
      <4>2. IsFiniteSet(u) /\ NatOn(f, u)
        BY <1>1
      <4>3. SumFunctionOnSet(f, u) = f[c] + SumFunctionOnSet(f, u \ {c})
        <5>1. c \in u
          OBVIOUS
        <5> HIDE DEF u
        <5> QED BY <5>1, <4>2, SumFacts
      <4> QED BY <4>1, <4>3
    <3>5. Good(r)
      <4> HIDE DEF Good, r
      <4> QED BY <2>1, <3>2
    <3>6. f[c] \in Nat /\ SumFunctionOnSet(f, r) \in Nat
      <4>1. f[c] \in Nat
        BY DEF NatOn
      <4>2. SumFunctionOnSet(f, r) \in Nat
        <5> HIDE DEF r
        <5> QED BY <3>2, <1>1, SumFacts
      <4> QED BY <4>1, <4>2
    <3> HIDE DEF r
    <3> QED BY <3>3, <3>4, <3>5, <3>6, <1>3
  <2>3. \A s \in SUBSET R : Cardinality(s) <= n + 1 => Good(s)
    <3> HIDE DEF Good
    <3> QED BY <2>2, <1>4
  <2> HIDE DEF Good
  <2> QED BY <2>1, <2>3
<1>7. T = Nat
  <2>1. T \in SUBSET Nat
    OBVIOUS
  <2> HIDE DEF T
  <2> QED BY <1>5, <1>6, <2>1, NaturalsOf
<1>8. Good(R)
  <2>1. Cardinality(R) \in Nat
    BY <1>1
  <2>2. Cardinality(R) \in T
    <3> HIDE DEF T
    <3> QED BY <2>1, <1>7
  <2> HIDE DEF Good
  <2> QED BY <2>1, <2>2
<1> QED BY <1>8

\* A sum of zeros.
LEMMA SumZero ==
    ASSUME NEW S, IsFiniteSet(S), NEW f, \A x \in S : f[x] = 0
    PROVE  SumFunctionOnSet(f, S) = 0
<1>1. NatOn(f, S)
  BY DEF NatOn
<1>2. PICK h : Adds(h, f, S) /\ SumFunctionOnSet(f, S) = h[S]
  BY <1>1, SumIsIter
<1> DEFINE k == [s \in SUBSET S |-> 0]
<1>3. Adds(k, f, S)
  <2>1. ASSUME NEW s \in SUBSET S
        PROVE  k[s] = IF s = {} THEN 0
                      ELSE f[CHOOSE x \in s : TRUE] + k[s \ {CHOOSE x \in s : TRUE}]
    <3>1. CASE s # {}
      <4> DEFINE c == CHOOSE x \in s : TRUE
      <4>1. c \in S /\ s \ {c} \in SUBSET S
        BY <3>1
      <4>2. f[c] = 0 /\ k[s \ {c}] = 0 /\ k[s] = 0
        BY <4>1
      <4> HIDE DEF c, k
      <4>3. k[s] = f[c] + k[s \ {c}]
        BY <4>2
      <4> QED BY <3>1, <4>3 DEF c
    <3> QED BY <3>1
  <2> QED BY <2>1 DEF Adds
<1>4. h[S] = k[S]
  <2> HIDE DEF k
  <2> QED BY <1>1, <1>2, <1>3, AddsAgree
<1> QED BY <1>2, <1>4

\* One element more, and one that grows.
LEMMA SumMore ==
    ASSUME NEW S, IsFiniteSet(S), NEW f, NatOn(f, S), NEW x, x \notin S, f[x] \in Nat
    PROVE  SumFunctionOnSet(f, S \cup {x}) = SumFunctionOnSet(f, S) + f[x]
<1> DEFINE u == S \cup {x}
<1>1. IsFiniteSet(u) /\ NatOn(f, u)
  BY FS_AddElement DEF NatOn
<1>2. x \in u /\ u \ {x} = S
  OBVIOUS
<1>3. SumFunctionOnSet(f, S) \in Nat
  BY SumFacts
<1>4. SumFunctionOnSet(f, u) = f[x] + SumFunctionOnSet(f, u \ {x})
  <2> HIDE DEF u
  <2> QED BY <1>1, <1>2, SumFacts
<1>5. SumFunctionOnSet(f, u) = SumFunctionOnSet(f, S) + f[x]
  <2>1. SumFunctionOnSet(f, u \ {x}) = SumFunctionOnSet(f, S)
    BY <1>2
  <2> HIDE DEF u
  <2> QED BY <2>1, <1>3, <1>4
<1> QED BY <1>5

LEMMA SumGrows ==
    ASSUME NEW S, IsFiniteSet(S), NEW f, NatOn(f, S), NEW x \in S, NEW d \in Nat,
           NEW g, g[x] = f[x] + d, \A y \in S \ {x} : g[y] = f[y]
    PROVE  SumFunctionOnSet(g, S) = SumFunctionOnSet(f, S) + d
<1> DEFINE r == S \ {x}
<1>1. IsFiniteSet(r) /\ NatOn(f, r) /\ x \notin r /\ S = r \cup {x}
  BY FS_RemoveElement DEF NatOn
<1>2. f[x] \in Nat
  BY DEF NatOn
<1>3. SumFunctionOnSet(g, r) = SumFunctionOnSet(f, r)
  BY <1>1, SumSame
<1>4. NatOn(g, S) /\ NatOn(g, r)
  BY <1>2 DEF NatOn
<1>5. SumFunctionOnSet(f, r) \in Nat
  <2> HIDE DEF r
  <2> QED BY <1>1, SumFacts
<1>6. SumFunctionOnSet(f, S) = f[x] + SumFunctionOnSet(f, r)
  BY SumFacts
<1>7. SumFunctionOnSet(g, S) = g[x] + SumFunctionOnSet(g, r)
  BY <1>4, SumFacts
<1> HIDE DEF r
<1> QED BY <1>2, <1>3, <1>5, <1>6, <1>7

\* The first n, and one more; all of a sequence.
LEMMA SumOneMore ==
    ASSUME NEW n \in Nat, NEW f, NatOn(f, 1 .. n + 1)
    PROVE  /\ SumFunctionOnSet(f, 1 .. n) \in Nat
           /\ SumFunctionOnSet(f, 1 .. n + 1) = SumFunctionOnSet(f, 1 .. n) + f[n + 1]
<1>1. IsFiniteSet(1 .. n) /\ NatOn(f, 1 .. n)
  BY FS_Interval DEF NatOn
<1>2. n + 1 \notin 1 .. n /\ f[n + 1] \in Nat /\ 1 .. n + 1 = (1 .. n) \cup {n + 1}
  BY DEF NatOn
<1> DEFINE S == 1 .. n
           x == n + 1
<1>3. SumFunctionOnSet(f, S \cup {x}) = SumFunctionOnSet(f, S) + f[x]
  <2>1. IsFiniteSet(S) /\ NatOn(f, S) /\ x \notin S /\ f[x] \in Nat
    BY <1>1, <1>2
  <2> HIDE DEF S, x
  <2> QED BY <2>1, SumMore
<1> QED BY <1>1, <1>2, <1>3, SumFacts

LEMMA SumAppend ==
    ASSUME NEW s \in Seq(Nat), NEW v \in Nat
    PROVE  SumFunction(s) \in Nat /\ SumFunction(Append(s, v)) = SumFunction(s) + v
<1> DEFINE t == Append(s, v)
<1>1. PICK n \in Nat : n = Len(s)
  OBVIOUS
<1>2. DOMAIN s = 1 .. n /\ DOMAIN t = 1 .. n + 1 /\ t[n + 1] = v
  BY <1>1
<1>3. \A k \in 1 .. n : t[k] = s[k] /\ s[k] \in Nat
  BY <1>1, ElementOf
<1>4. NatOn(s, 1 .. n) /\ NatOn(t, 1 .. n + 1)
  BY <1>2, <1>3 DEF NatOn
<1> HIDE DEF t
<1>5. SumFunctionOnSet(t, 1 .. n + 1) = SumFunctionOnSet(t, 1 .. n) + t[n + 1]
  BY <1>4, SumOneMore
<1>6. IsFiniteSet(1 .. n)
  BY FS_Interval
<1>7. SumFunctionOnSet(t, 1 .. n) = SumFunctionOnSet(s, 1 .. n)
  BY <1>3, <1>4, <1>6, SumSame
<1>8. SumFunctionOnSet(s, 1 .. n) \in Nat
  BY <1>4, <1>6, SumFacts
<1> QED BY <1>2, <1>5, <1>7, <1>8 DEF SumFunction, t

=============================================================================

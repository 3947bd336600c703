-------------------------------- MODULE Sums --------------------------------
(***************************************************************************)
(* Facts about SumFunctionOnSet, the sum of a function over a finite set.    *)
(* The streams of a batch, the workers of a load and the errors of a report  *)
(* are added up with it.                                                     *)
(*                                                                         *)
(* The community module defines the sum as a fold with a recursive function. *)
(* That the equation has a solution, and only one, is shown from the least   *)
(* cardinality of a set without one; then an element may be taken out, and   *)
(* the rest follows.                                                         *)
(***************************************************************************)
EXTENDS Integers, Functions, FiniteSetTheorems, WellFoundedInduction, TLAPS

\* A set of natural numbers that is not empty has a least element.
LEMMA LeastFact ==
  ASSUME NEW N \in SUBSET Nat, N # {}
  PROVE  \E n \in N : \A m \in N : n <= m
<1> DEFINE R == OpToRel(<, Nat)
<1>1. IsWellFoundedOn(R, Nat)
  BY NatLessThanWellFounded
<1>2. PICK n \in N : \A m \in N : ~(<<m, n>> \in R)
  BY <1>1, WFMin
<1>3. \A m \in N : m < n => <<m, n>> \in R
  BY DEF OpToRel
<1>4. \A m \in N : ~(m < n)
  <2> HIDE DEF R
  <2> QED
    BY <1>2, <1>3
<1> QED
  BY <1>4

\* Induction over the numbers up to n, for the set of those that have a property.
LEMMA UpTo ==
  ASSUME NEW n \in Nat, NEW Q, 0 \in Q, \A k \in 1 .. n : k - 1 \in Q => k \in Q
  PROVE  \A k \in 0 .. n : k \in Q
<1> DEFINE N == (0 .. n) \ Q
<1> SUFFICES ASSUME N # {}
             PROVE  FALSE
  OBVIOUS
<1>1. PICK k \in N : \A m \in N : k <= m
  <2>1. N \in SUBSET Nat
    OBVIOUS
  <2> HIDE DEF N
  <2> QED
    BY <2>1, LeastFact
<1>2. k \in 1 .. n /\ k - 1 \in 0 .. n
  OBVIOUS
<1>3. k - 1 \in N
  BY <1>1, <1>2
<1> QED
  BY <1>1, <1>2, <1>3

\* Induction over the subsets of a finite set, for the set of those that have
\* a property.
LEMMA SubsetInduction ==
  ASSUME NEW S, IsFiniteSet(S), NEW Q, {} \in Q,
         \A T \in SUBSET S : T # {} /\ (\A x \in T : T \ {x} \in Q) => T \in Q
  PROVE  \A T \in SUBSET S : T \in Q
<1> DEFINE N == {Cardinality(T) : T \in (SUBSET S) \ Q}
<1>1. \A T \in SUBSET S : IsFiniteSet(T) /\ Cardinality(T) \in Nat
  BY FS_Subset, FS_CardinalityType
<1>2. SUFFICES ASSUME N # {}
               PROVE  FALSE
  OBVIOUS
<1>3. N \in SUBSET Nat
  BY <1>1
<1>4. PICK n \in N : \A m \in N : n <= m
  <2> HIDE DEF N
  <2> QED
    BY <1>2, <1>3, LeastFact
<1>5. PICK T \in (SUBSET S) \ Q : n = Cardinality(T)
  OBVIOUS
<1>6. ASSUME NEW x \in T
      PROVE  T \ {x} \in Q
  <2>1. Cardinality(T \ {x}) = Cardinality(T) - 1
    BY <1>1, FS_RemoveElement
  <2>2. CASE T \ {x} \notin Q
    <3>1. Cardinality(T \ {x}) \in N
      BY <2>2
    <3> QED
      BY <1>1, <1>4, <1>5, <2>1, <3>1
  <2> QED
    BY <2>2
<1> QED
  BY <1>5, <1>6

\* g maps the subsets of S to what is left of them when step takes the element
\* that next picks, one after the other, and the empty set is base.
Folds(S, base, next, step, g) ==
  g = [s \in SUBSET S |-> IF s = {} THEN base ELSE step[next[s]][g[s \ {next[s]}]]]

\* The equation that defines a fold has a solution.
LEMMA FoldExists ==
  ASSUME NEW S, IsFiniteSet(S), NEW X, NEW base \in X, NEW next, NEW step,
         \A s \in SUBSET S : s # {} => next[s] \in s,
         \A x \in S, y \in X : step[x][y] \in X
  PROVE  \E g \in [SUBSET S -> X] : Folds(S, base, next, step, g)
<1> DEFINE Up(n) == {T \in SUBSET S : Cardinality(T) <= n}
<1> DEFINE Solves(g, D) == g = [s \in D |-> IF s = {} THEN base ELSE step[next[s]][g[s \ {next[s]}]]]
<1> DEFINE N == {n \in Nat : ~\E g \in [Up(n) -> X] : Solves(g, Up(n))}
<1>1. \A T \in SUBSET S : IsFiniteSet(T) /\ Cardinality(T) \in Nat /\ Cardinality(T) <= Cardinality(S)
  BY FS_Subset, FS_CardinalityType
<1>2. N = {}
  <2> SUFFICES ASSUME N # {}
               PROVE  FALSE
    OBVIOUS
  <2>1. PICK n \in N : \A m \in N : n <= m
    <3>1. N \in SUBSET Nat
      OBVIOUS
    <3> HIDE DEF N
    <3> QED
      BY <3>1, LeastFact
  <2>2. CASE n = 0
    <3>1. Up(0) = {{}}
      <4>1. \A T \in SUBSET S : Cardinality(T) <= 0 <=> T = {}
        BY <1>1, FS_EmptySet
      <4> QED
        BY <4>1
    <3>2. Solves([s \in Up(0) |-> base], Up(0))
      BY <3>1
    <3> QED
      BY <2>2, <3>2
  <2>3. CASE n # 0
    <3>1. n - 1 \in Nat
      BY <2>1, <2>3
    <3>2. n - 1 \notin N
      <4>1. n \in Nat
        BY <2>1
      <4> HIDE DEF N
      <4> QED
        BY <2>1, <3>1, <4>1
    <3>3. PICK g \in [Up(n - 1) -> X] : Solves(g, Up(n - 1))
      <4> HIDE DEF Up, Solves
      <4> QED
        BY <3>1, <3>2
    <3> DEFINE h == [s \in Up(n) |-> IF s = {} THEN base ELSE step[next[s]][g[s \ {next[s]}]]]
    <3>4. \A s \in Up(n) : s # {} => next[s] \in S /\ s \ {next[s]} \in Up(n - 1)
      <4> SUFFICES ASSUME NEW s \in Up(n), s # {}
                   PROVE  next[s] \in S /\ s \ {next[s]} \in Up(n - 1)
        OBVIOUS
      <4>1. next[s] \in s
        OBVIOUS
      <4>2. Cardinality(s \ {next[s]}) = Cardinality(s) - 1
        BY <1>1, <4>1, FS_RemoveElement
      <4> QED
        BY <1>1, <2>1, <4>1, <4>2
    <3>5. h \in [Up(n) -> X]
      BY <3>4
    <3>6. \A s \in Up(n - 1) : s \in Up(n) /\ h[s] = g[s]
      <4>1. Up(n - 1) \subseteq Up(n)
        BY <1>1, <2>1
      <4>2. \A s \in Up(n - 1) : g[s] = IF s = {} THEN base ELSE step[next[s]][g[s \ {next[s]}]]
        BY <3>3
      <4> QED
        BY <4>1, <4>2
    <3>7. Solves(h, Up(n))
      <4>1. \A s \in Up(n) : s # {} => g[s \ {next[s]}] = h[s \ {next[s]}]
        BY <3>4, <3>6
      <4>2. h = [s \in Up(n) |-> IF s = {} THEN base ELSE step[next[s]][h[s \ {next[s]}]]]
        <5> HIDE DEF Up
        <5> QED
          BY <4>1
      <4> QED
        BY <4>2
    <3> QED
      BY <2>1, <3>5, <3>7
  <2> QED
    BY <2>2, <2>3
<1>3. PICK g \in [Up(Cardinality(S)) -> X] : Solves(g, Up(Cardinality(S)))
  BY <1>1, <1>2
<1>4. Up(Cardinality(S)) = SUBSET S
  BY <1>1
<1> QED
  BY <1>3, <1>4 DEF Folds

\* g maps the subsets of S to the sums of f over them, one element at a time.
Adds(f, S, g) ==
  g = [s \in SUBSET S |->
         IF s = {} THEN 0
         ELSE f[CHOOSE x \in s : TRUE] + g[s \ {CHOOSE x \in s : TRUE}]]

\* The equation that defines a sum has a solution.
LEMMA SumExists ==
  ASSUME NEW S, IsFiniteSet(S), NEW f, \A x \in S : f[x] \in Nat
  PROVE  \E g \in [SUBSET S -> Nat] : Adds(f, S, g)
<1> DEFINE next == [s \in SUBSET S |-> CHOOSE x \in s : TRUE]
           step == [x \in S |-> [y \in Nat |-> f[x] + y]]
<1>1. \A s \in SUBSET S : s # {} => next[s] \in s
  OBVIOUS
<1>2. \A x \in S, y \in Nat : step[x][y] \in Nat
  OBVIOUS
<1>3. PICK g \in [SUBSET S -> Nat] : Folds(S, 0, next, step, g)
  <2> HIDE DEF next, step
  <2> QED
    BY <1>1, <1>2, FoldExists
<1>4. \A s \in SUBSET S : s # {} => step[next[s]][g[s \ {next[s]}]] = f[next[s]] + g[s \ {next[s]}]
  BY <1>1, <1>3
<1>5. g = [s \in SUBSET S |-> IF s = {} THEN 0 ELSE f[next[s]] + g[s \ {next[s]}]]
  <2> HIDE DEF next, step
  <2> QED
    BY <1>3, <1>4 DEF Folds
<1>6. g = [s \in SUBSET S |->
             IF s = {} THEN 0
             ELSE f[CHOOSE x \in s : TRUE] + g[s \ {CHOOSE x \in s : TRUE}]]
  BY <1>5
<1> QED
  BY <1>6 DEF Adds

\* It has no other, and those over different sets agree.
LEMMA SumUnique ==
  ASSUME NEW S, IsFiniteSet(S), NEW T, S \subseteq T, NEW f, NEW g, NEW h,
         Adds(f, S, g), Adds(f, T, h)
  PROVE  \A s \in SUBSET S : g[s] = h[s]
<1> DEFINE c(s) == CHOOSE x \in s : TRUE
<1> DEFINE Q == {s \in SUBSET S : g[s] = h[s]}
<1>1. \A s \in SUBSET S : s # {} => c(s) \in s /\ g[s] = f[c(s)] + g[s \ {c(s)}]
                                  /\ h[s] = f[c(s)] + h[s \ {c(s)}]
  BY DEF Adds
<1>2. {} \in Q
  BY DEF Adds
<1>3. \A s \in SUBSET S : s # {} /\ (\A x \in s : s \ {x} \in Q) => s \in Q
  <2> HIDE DEF c
  <2> QED
    BY <1>1
<1>4. \A s \in SUBSET S : s \in Q
  <2> HIDE DEF Q
  <2> QED
    BY <1>2, <1>3, SubsetInduction
<1> QED
  BY <1>4

\* SumFunctionOnSet(f, S) is the value of the solution.
LEMMA SumSolves ==
  ASSUME NEW S, IsFiniteSet(S), NEW f, \A x \in S : f[x] \in Nat
  PROVE  \E g \in [SUBSET S -> Nat] : Adds(f, S, g) /\ SumFunctionOnSet(f, S) = g[S]
<1> DEFINE sol == CHOOSE g : Adds(f, S, g)
<1>1. PICK g \in [SUBSET S -> Nat] : Adds(f, S, g)
  BY SumExists
<1>2. Adds(f, S, sol)
  BY <1>1
<1>3. SumFunctionOnSet(f, S) = sol[S]
  BY DEF SumFunctionOnSet, FoldFunctionOnSet, MapThenFoldSet, Adds
<1>4. \A s \in SUBSET S : sol[s] = g[s]
  <2> HIDE DEF sol
  <2> QED
    BY <1>1, <1>2, SumUnique
<1> QED
  BY <1>1, <1>3, <1>4

\* A sum of natural numbers is one.
THEOREM SumType ==
  ASSUME NEW S, IsFiniteSet(S), NEW f, \A x \in S : f[x] \in Nat
  PROVE  SumFunctionOnSet(f, S) \in Nat
<1>1. PICK g \in [SUBSET S -> Nat] : Adds(f, S, g) /\ SumFunctionOnSet(f, S) = g[S]
  BY SumSolves
<1> QED
  BY <1>1

\* A sum over nothing is zero.
THEOREM SumEmpty == ASSUME NEW f PROVE SumFunctionOnSet(f, {}) = 0
<1>1. IsFiniteSet({})
  BY FS_EmptySet
<1>2. PICK g \in [SUBSET {} -> Nat] : Adds(f, {}, g) /\ SumFunctionOnSet(f, {}) = g[{}]
  BY <1>1, SumSolves
<1> QED
  BY <1>2 DEF Adds

\* An element that the fold chooses may be taken out.
LEMMA SumOfChoice ==
  ASSUME NEW S, IsFiniteSet(S), NEW f, \A x \in S : f[x] \in Nat, S # {}
  PROVE  \E c \in S : SumFunctionOnSet(f, S) = f[c] + SumFunctionOnSet(f, S \ {c})
<1> DEFINE c == CHOOSE x \in S : TRUE
<1>1. c \in S
  OBVIOUS
<1>2. PICK g \in [SUBSET S -> Nat] : Adds(f, S, g) /\ SumFunctionOnSet(f, S) = g[S]
  BY SumSolves
<1>3. g[S] = f[c] + g[S \ {c}]
  BY <1>2 DEF Adds
<1> HIDE DEF c
<1>4. IsFiniteSet(S \ {c})
  BY FS_Subset
<1>5. PICK h \in [SUBSET (S \ {c}) -> Nat] :
        Adds(f, S \ {c}, h) /\ SumFunctionOnSet(f, S \ {c}) = h[S \ {c}]
  BY <1>4, SumSolves
<1>6. h[S \ {c}] = g[S \ {c}]
  BY <1>2, <1>4, <1>5, SumUnique
<1> QED
  BY <1>1, <1>2, <1>3, <1>5, <1>6

\* Any element may be taken out: the order of the additions does not matter.
THEOREM SumStep ==
  ASSUME NEW S, IsFiniteSet(S), NEW f, \A x \in S : f[x] \in Nat
  PROVE  \A x \in S : SumFunctionOnSet(f, S) = f[x] + SumFunctionOnSet(f, S \ {x})
<1> DEFINE Q == {s \in SUBSET S : \A x \in s :
                   SumFunctionOnSet(f, s) = f[x] + SumFunctionOnSet(f, s \ {x})}
<1>1. {} \in Q
  OBVIOUS
<1>2. ASSUME NEW s \in SUBSET S, s # {}, \A x \in s : s \ {x} \in Q
      PROVE  s \in Q
  <2>1. IsFiniteSet(s)
    BY FS_Subset
  <2>2. PICK c \in s : SumFunctionOnSet(f, s) = f[c] + SumFunctionOnSet(f, s \ {c})
    BY <1>2, <2>1, SumOfChoice
  <2>3. ASSUME NEW x \in s, x # c
        PROVE  SumFunctionOnSet(f, s) = f[x] + SumFunctionOnSet(f, s \ {x})
    <3> DEFINE both == SumFunctionOnSet(f, s \ {x, c})
    <3>1. (s \ {c}) \ {x} = s \ {x, c} /\ (s \ {x}) \ {c} = s \ {x, c}
      OBVIOUS
    <3>2. SumFunctionOnSet(f, s \ {c}) = f[x] + both
      BY <1>2, <2>3, <3>1
    <3>3. SumFunctionOnSet(f, s \ {x}) = f[c] + both
      BY <1>2, <2>3, <3>1
    <3>4. both \in Nat
      BY <2>1, FS_Subset, SumType
    <3> HIDE DEF both
    <3> QED
      BY <2>2, <3>2, <3>3, <3>4
  <2> QED
    BY <2>2, <2>3
<1>3. \A s \in SUBSET S : s \in Q
  <2> HIDE DEF Q
  <2> QED
    BY <1>1, <1>2, SubsetInduction
<1> QED
  BY <1>3

\* No number in a sum is greater than the sum.
THEOREM SumAtLeast ==
  ASSUME NEW S, IsFiniteSet(S), NEW f, \A x \in S : f[x] \in Nat
  PROVE  \A x \in S : f[x] <= SumFunctionOnSet(f, S)
<1> SUFFICES ASSUME NEW x \in S
             PROVE  f[x] <= SumFunctionOnSet(f, S)
  OBVIOUS
<1>1. SumFunctionOnSet(f, S) = f[x] + SumFunctionOnSet(f, S \ {x})
  BY SumStep
<1>2. SumFunctionOnSet(f, S \ {x}) \in Nat
  BY FS_Subset, SumType
<1> QED
  BY <1>1, <1>2

\* The sum of a sum of two functions, and of functions that agree.
THEOREM SumPlus ==
  ASSUME NEW S, IsFiniteSet(S), NEW f, NEW g, NEW h,
         \A x \in S : f[x] \in Nat /\ g[x] \in Nat /\ h[x] = f[x] + g[x]
  PROVE  SumFunctionOnSet(h, S) = SumFunctionOnSet(f, S) + SumFunctionOnSet(g, S)
<1> DEFINE Q == {s \in SUBSET S :
                   SumFunctionOnSet(h, s) = SumFunctionOnSet(f, s) + SumFunctionOnSet(g, s)}
<1>1. {} \in Q
  BY SumEmpty
<1>2. ASSUME NEW s \in SUBSET S, s # {}, \A x \in s : s \ {x} \in Q
      PROVE  s \in Q
  <2>1. IsFiniteSet(s)
    BY FS_Subset
  <2>2. PICK x \in s : TRUE
    BY <1>2
  <2> DEFINE r == s \ {x}
  <2>3. r \in Q /\ IsFiniteSet(r)
    BY <1>2, <2>1, FS_Subset
  <2>4. SumFunctionOnSet(f, r) \in Nat /\ SumFunctionOnSet(g, r) \in Nat
    BY <2>3, SumType
  <2>5. /\ SumFunctionOnSet(f, s) = f[x] + SumFunctionOnSet(f, r)
        /\ SumFunctionOnSet(g, s) = g[x] + SumFunctionOnSet(g, r)
    BY <2>1, SumStep
  <2>6. SumFunctionOnSet(h, s) = h[x] + SumFunctionOnSet(h, r)
    BY <2>1, SumStep
  <2>7. SumFunctionOnSet(h, r) = SumFunctionOnSet(f, r) + SumFunctionOnSet(g, r)
    BY <2>3
  <2> HIDE DEF r
  <2> QED
    BY <2>4, <2>5, <2>6, <2>7
<1>3. \A s \in SUBSET S : s \in Q
  <2> HIDE DEF Q
  <2> QED
    BY <1>1, <1>2, SubsetInduction
<1> QED
  BY <1>3

\* Functions that agree on a set have the same sum over it.
THEOREM SumEqual ==
  ASSUME NEW S, IsFiniteSet(S), NEW f, NEW g, \A x \in S : f[x] \in Nat /\ g[x] = f[x]
  PROVE  SumFunctionOnSet(g, S) = SumFunctionOnSet(f, S)
<1> DEFINE Q == {s \in SUBSET S : SumFunctionOnSet(g, s) = SumFunctionOnSet(f, s)}
<1>1. {} \in Q
  BY SumEmpty
<1>2. ASSUME NEW s \in SUBSET S, s # {}, \A x \in s : s \ {x} \in Q
      PROVE  s \in Q
  <2>1. IsFiniteSet(s)
    BY FS_Subset
  <2>2. PICK x \in s : TRUE
    BY <1>2
  <2>3. SumFunctionOnSet(f, s) = f[x] + SumFunctionOnSet(f, s \ {x})
    BY <2>1, SumStep
  <2>4. SumFunctionOnSet(g, s) = g[x] + SumFunctionOnSet(g, s \ {x})
    BY <2>1, SumStep
  <2> QED
    BY <1>2, <2>3, <2>4
<1>3. \A s \in SUBSET S : s \in Q
  <2> HIDE DEF Q
  <2> QED
    BY <1>1, <1>2, SubsetInduction
<1> QED
  BY <1>3

\* A sum is zero if, and only if, every number in it is.
THEOREM SumZero ==
  ASSUME NEW S, IsFiniteSet(S), NEW f, \A x \in S : f[x] \in Nat
  PROVE  SumFunctionOnSet(f, S) = 0 <=> \A x \in S : f[x] = 0
<1>1. ASSUME SumFunctionOnSet(f, S) = 0
      PROVE  \A x \in S : f[x] = 0
  BY <1>1, SumAtLeast
<1>2. ASSUME \A x \in S : f[x] = 0
      PROVE  SumFunctionOnSet(f, S) = 0
  <2>1. SumFunctionOnSet(f, S) = SumFunctionOnSet(f, S) + SumFunctionOnSet(f, S)
    BY <1>2, SumPlus
  <2> QED
    BY <2>1, SumType
<1> QED
  BY <1>1, <1>2

\* The sum of one number, as often as there are elements.
THEOREM SumConstant ==
  ASSUME NEW S, IsFiniteSet(S), NEW k \in Nat, NEW f, \A x \in S : f[x] = k
  PROVE  SumFunctionOnSet(f, S) = k * Cardinality(S)
<1> DEFINE Q == {s \in SUBSET S : SumFunctionOnSet(f, s) = k * Cardinality(s)}
<1>1. {} \in Q
  BY SumEmpty, FS_EmptySet
<1>2. ASSUME NEW s \in SUBSET S, s # {}, \A x \in s : s \ {x} \in Q
      PROVE  s \in Q
  <2>1. PICK x \in s : TRUE
    BY <1>2
  <2> DEFINE r == s \ {x}
  <2>2. IsFiniteSet(s) /\ r \in Q /\ f[x] = k /\ \A y \in s : f[y] \in Nat
    BY <1>2, FS_Subset
  <2>3. Cardinality(r) = Cardinality(s) - 1 /\ Cardinality(s) \in Nat /\ Cardinality(r) \in Nat
    BY <2>2, FS_RemoveElement, FS_CardinalityType, FS_Subset
  <2>4. SumFunctionOnSet(f, s) = f[x] + SumFunctionOnSet(f, r)
    BY <2>2, SumStep
  <2>5. SumFunctionOnSet(f, r) = k * Cardinality(r)
    BY <2>2
  <2> HIDE DEF r
  <2>6. k + k * Cardinality(r) = k * Cardinality(s)
    <3>1. PICK m \in Nat, n \in Nat : m = Cardinality(r) /\ n = Cardinality(s) /\ n = m + 1
      BY <2>3
    <3>2. k * (m + 1) = k * m + k
      OBVIOUS
    <3> QED
      BY <3>1, <3>2
  <2> QED
    BY <2>2, <2>4, <2>5, <2>6
<1>3. \A s \in SUBSET S : s \in Q
  <2> HIDE DEF Q
  <2> QED
    BY <1>1, <1>2, SubsetInduction
<1> QED
  BY <1>3

\* When one number is raised by k, so is the sum.
THEOREM SumRaise ==
  ASSUME NEW S, IsFiniteSet(S), NEW f, \A y \in S : f[y] \in Nat, NEW x \in S, NEW k \in Nat,
         NEW g, g[x] = f[x] + k, \A y \in S \ {x} : g[y] = f[y]
  PROVE  SumFunctionOnSet(g, S) = SumFunctionOnSet(f, S) + k
<1> DEFINE R == S \ {x}
<1>1. IsFiniteSet(R) /\ \A y \in R : f[y] \in Nat /\ g[y] = f[y]
  BY FS_Subset
<1>2. \A y \in S : g[y] \in Nat
  OBVIOUS
<1>3. /\ SumFunctionOnSet(f, S) = f[x] + SumFunctionOnSet(f, R)
      /\ SumFunctionOnSet(g, S) = g[x] + SumFunctionOnSet(g, R)
  BY <1>2, SumStep
<1> HIDE DEF R
<1>4. SumFunctionOnSet(g, R) = SumFunctionOnSet(f, R) /\ SumFunctionOnSet(f, R) \in Nat
  BY <1>1, SumEqual, SumType
<1> QED
  BY <1>3, <1>4

\* The sum over two disjoint sets.
THEOREM SumDisjoint ==
  ASSUME NEW S, IsFiniteSet(S), NEW T, IsFiniteSet(T), S \cap T = {},
         NEW f, \A x \in S \cup T : f[x] \in Nat
  PROVE  SumFunctionOnSet(f, S \cup T) = SumFunctionOnSet(f, S) + SumFunctionOnSet(f, T)
<1> DEFINE Q == {t \in SUBSET T :
                   SumFunctionOnSet(f, S \cup t) = SumFunctionOnSet(f, S) + SumFunctionOnSet(f, t)}
<1>1. {} \in Q
  <2>1. S \cup {} = S /\ SumFunctionOnSet(f, S) \in Nat
    BY SumType
  <2> QED
    BY <2>1, SumEmpty
<1>2. ASSUME NEW t \in SUBSET T, t # {}, \A x \in t : t \ {x} \in Q
      PROVE  t \in Q
  <2>1. IsFiniteSet(t) /\ \A x \in t : f[x] \in Nat
    BY FS_Subset
  <2>2. PICK x \in t : TRUE
    BY <1>2
  <2> DEFINE r == t \ {x}
  <2>3. r \in Q /\ IsFiniteSet(r) /\ \A y \in r : f[y] \in Nat
    BY <1>2, <2>1, FS_Subset
  <2>4. SumFunctionOnSet(f, t) = f[x] + SumFunctionOnSet(f, r)
    BY <2>1, SumStep
  <2>5. IsFiniteSet(S \cup t) /\ x \in S \cup t /\ \A y \in S \cup t : f[y] \in Nat
    BY <2>1, FS_Union
  <2>6. (S \cup t) \ {x} = S \cup r
    OBVIOUS
  <2>7. SumFunctionOnSet(f, S \cup t) = f[x] + SumFunctionOnSet(f, S \cup r)
    BY <2>5, <2>6, SumStep
  <2>8. SumFunctionOnSet(f, S \cup r) = SumFunctionOnSet(f, S) + SumFunctionOnSet(f, r)
    BY <2>3
  <2>9. SumFunctionOnSet(f, S) \in Nat /\ SumFunctionOnSet(f, r) \in Nat /\ f[x] \in Nat
    <3> HIDE DEF r
    <3> QED
      BY <2>3, SumType
  <2> HIDE DEF r
  <2> QED
    BY <2>4, <2>7, <2>8, <2>9
<1>3. \A t \in SUBSET T : t \in Q
  <2> HIDE DEF Q
  <2> QED
    BY <1>1, <1>2, SubsetInduction
<1> QED
  BY <1>3

\* The same numbers, with other indices.
THEOREM SumMoved ==
  ASSUME NEW S, IsFiniteSet(S), NEW h, \A x, y \in S : h[x] = h[y] => x = y,
         NEW f, NEW g, \A x \in S : f[x] \in Nat /\ g[h[x]] = f[x]
  PROVE  SumFunctionOnSet(g, {h[x] : x \in S}) = SumFunctionOnSet(f, S)
<1> DEFINE img(s) == {h[x] : x \in s}
           Q == {s \in SUBSET S : IsFiniteSet(img(s)) /\ SumFunctionOnSet(g, img(s)) = SumFunctionOnSet(f, s)}
<1>1. {} \in Q
  <2>1. img({}) = {}
    OBVIOUS
  <2> QED
    BY <2>1, SumEmpty, FS_EmptySet
<1>2. ASSUME NEW s \in SUBSET S, s # {}, \A x \in s : s \ {x} \in Q
      PROVE  s \in Q
  <2>1. IsFiniteSet(s)
    BY FS_Subset
  <2>2. PICK x \in s : TRUE
    BY <1>2
  <2> DEFINE r == s \ {x}
  <2>3. IsFiniteSet(img(r)) /\ SumFunctionOnSet(g, img(r)) = SumFunctionOnSet(f, r)
    BY <1>2
  <2>4. SumFunctionOnSet(f, s) = f[x] + SumFunctionOnSet(f, r)
    BY <2>1, SumStep
  <2>5. img(s) = img(r) \cup {h[x]} /\ img(s) \ {h[x]} = img(r) /\ h[x] \in img(s)
    OBVIOUS
  <2>6. \A y \in img(s) : g[y] \in Nat
    OBVIOUS
  <2>8. g[h[x]] = f[x]
    OBVIOUS
  <2> HIDE DEF img, r
  <2>7. IsFiniteSet(img(s))
    BY <2>3, <2>5, FS_AddElement
  <2>9. SumFunctionOnSet(g, img(s)) = g[h[x]] + SumFunctionOnSet(g, img(r))
    BY <2>5, <2>6, <2>7, SumStep
  <2> QED
    BY <2>3, <2>4, <2>7, <2>8, <2>9
<1>3. \A s \in SUBSET S : s \in Q
  <2> HIDE DEF Q
  <2> QED
    BY <1>1, <1>2, SubsetInduction
<1> QED
  BY <1>3

\* The sum over m numbers and n more, as over two sequences one after the other.
Joins(f, a, m, b, n) ==
  /\ \A i \in 1 .. m : a[i] \in Nat /\ f[i] = a[i]
  /\ \A j \in 1 .. n : b[j] \in Nat /\ f[m + j] = b[j]

\* A sum over a concatenation is that of its two parts (the streams of a round
\* follow those of the rounds before it).
THEOREM SumConcat ==
  ASSUME NEW m \in Nat, NEW n \in Nat, NEW f, NEW a, NEW b, Joins(f, a, m, b, n)
  PROVE  SumFunctionOnSet(f, 1 .. (m + n)) = SumFunctionOnSet(a, 1 .. m) + SumFunctionOnSet(b, 1 .. n)
<1> USE DEF Joins
<1> DEFINE S == 1 .. m
           N == 1 .. n
           h == [j \in N |-> m + j]
           T == {h[j] : j \in N}
<1>1. IsFiniteSet(S) /\ IsFiniteSet(N)
  BY FS_Interval
<1>2. 1 .. (m + n) = S \cup T
  <2>1. T = {m + j : j \in N}
    OBVIOUS
  <2>2. ASSUME NEW i \in 1 .. (m + n), i \notin S
        PROVE  i \in T
    <3>1. i - m \in N /\ i = m + (i - m)
      BY <2>2
    <3> QED
      BY <2>1, <3>1
  <2>3. \A i \in S \cup T : i \in 1 .. (m + n)
    BY <2>1
  <2> QED
    BY <2>2, <2>3
<1>3. \A x, y \in N : h[x] = h[y] => x = y
  OBVIOUS
<1>4. \A j \in N : b[j] \in Nat /\ f[h[j]] = b[j]
  OBVIOUS
<1>5. S \cap T = {} /\ \A x \in S \cup T : f[x] \in Nat
  OBVIOUS
<1>6. IsFiniteSet(T)
  <2>1. IsFiniteSet(1 .. (m + n))
    BY FS_Interval
  <2> HIDE DEF T
  <2>2. T \in SUBSET (1 .. (m + n))
    BY <1>2
  <2> QED
    BY <2>1, <2>2, FS_Subset
<1>7. \A i \in S : a[i] \in Nat /\ f[i] = a[i]
  OBVIOUS
<1> HIDE DEF S, N, h
<1>8. SumFunctionOnSet(f, T) = SumFunctionOnSet(b, N)
  BY <1>1, <1>3, <1>4, SumMoved
<1> HIDE DEF T
<1>9. SumFunctionOnSet(f, S) = SumFunctionOnSet(a, S)
  BY <1>1, <1>7, SumEqual
<1>10. SumFunctionOnSet(f, S \cup T) = SumFunctionOnSet(f, S) + SumFunctionOnSet(f, T)
  BY <1>1, <1>5, <1>6, SumDisjoint
<1> QED
  BY <1>2, <1>8, <1>9, <1>10 DEF S, N

\* The elements of disjoint sets are as many as their cardinalities add up to.
THEOREM SumOfCardinalities ==
  ASSUME NEW S, IsFiniteSet(S), NEW f, NEW n,
         \A x \in S : IsFiniteSet(f[x]) /\ n[x] = Cardinality(f[x]),
         \A x, y \in S : x # y => f[x] \cap f[y] = {}
  PROVE  /\ IsFiniteSet(UNION {f[x] : x \in S})
         /\ SumFunctionOnSet(n, S) = Cardinality(UNION {f[x] : x \in S})
<1> DEFINE All(s) == UNION {f[x] : x \in s}
<1> DEFINE Q == {s \in SUBSET S : IsFiniteSet(All(s)) /\ SumFunctionOnSet(n, s) = Cardinality(All(s))}
<1>1. {} \in Q
  <2>1. All({}) = {}
    OBVIOUS
  <2> QED
    BY <2>1, SumEmpty, FS_EmptySet
<1>2. \A x \in S : n[x] \in Nat
  BY FS_CardinalityType
<1>3. ASSUME NEW s \in SUBSET S, s # {}, \A x \in s : s \ {x} \in Q
      PROVE  s \in Q
  <2>1. IsFiniteSet(s)
    BY FS_Subset
  <2>2. PICK x \in s : TRUE
    BY <1>3
  <2>3. SumFunctionOnSet(n, s) = n[x] + SumFunctionOnSet(n, s \ {x})
    BY <1>2, <2>1, SumStep
  <2>4. /\ IsFiniteSet(All(s \ {x}))
        /\ SumFunctionOnSet(n, s \ {x}) = Cardinality(All(s \ {x}))
    BY <1>3
  <2>5. All(s) = f[x] \cup All(s \ {x})
    OBVIOUS
  <2>6. f[x] \cap All(s \ {x}) = {}
    OBVIOUS
  <2>7. IsFiniteSet(f[x]) /\ n[x] = Cardinality(f[x])
    OBVIOUS
  <2> HIDE DEF All
  <2>8. /\ IsFiniteSet(All(s))
        /\ Cardinality(All(s)) = Cardinality(f[x]) + Cardinality(All(s \ {x}))
                                   - Cardinality(f[x] \cap All(s \ {x}))
    <3> DEFINE A == f[x] B == All(s \ {x})
    <3>1. IsFiniteSet(A) /\ IsFiniteSet(B)
      BY <2>4, <2>7
    <3> HIDE DEF A, B
    <3>2. /\ IsFiniteSet(A \cup B)
          /\ Cardinality(A \cup B) = Cardinality(A) + Cardinality(B) - Cardinality(A \cap B)
      BY <3>1, FS_Union
    <3> QED
      BY <2>5, <3>2 DEF A, B
  <2>9. Cardinality(f[x] \cap All(s \ {x})) = 0
    BY <2>6, FS_EmptySet
  <2>10. Cardinality(f[x]) \in Nat /\ Cardinality(All(s \ {x})) \in Nat
    BY <2>4, <2>7, FS_CardinalityType
  <2> QED
    BY <2>3, <2>4, <2>7, <2>8, <2>9, <2>10
<1>4. \A s \in SUBSET S : s \in Q
  <2> HIDE DEF Q
  <2> QED
    BY <1>1, <1>3, SubsetInduction
<1> QED
  BY <1>4
=============================================================================

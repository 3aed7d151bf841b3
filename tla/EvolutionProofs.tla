-------------------------- MODULE EvolutionProofs --------------------------
(***************************************************************************)
(* Proofs about compute_spawn and about the generations of a NEAT run, for *)
(* any number of genomes, species and generations and every configuration. *)
(*                                                                         *)
(* The sums of compute_spawn and of the new genomes' keys are folds over   *)
(* finite sets.  The first part shows from the well-foundedness of strict  *)
(* inclusion what such a sum does.                                         *)
(***************************************************************************)
EXTENDS MCEvolution, FiniteSetTheorems, TLAPS

-----------------------------------------------------------------------------
(* Induction. *)

\* A set of subsets of a finite set S that has every set whose strict subsets
\* it has, has all of them.
LEMMA StrongInduction ==
  ASSUME NEW S, IsFiniteSet(S), NEW Good \in SUBSET SUBSET S,
         \A T \in SUBSET S : (\A U \in SUBSET T : U # T => U \in Good) => T \in Good
  PROVE  Good = SUBSET S
<1> SUFFICES ASSUME Good # SUBSET S PROVE FALSE
  OBVIOUS
<1> DEFINE Bad == (SUBSET S) \ Good
<1>1. FiniteSubsetsOf(S) = SUBSET S
  BY FS_FiniteSubsetsOfFinite
<1>2. IsWellFoundedOn(StrictSubsetOrdering(S), FiniteSubsetsOf(S))
  BY FS_StrictSubsetOrderingWellFounded
<1>3. Bad \subseteq FiniteSubsetsOf(S) /\ Bad # {}
  BY <1>1
<1> DEFINE R == StrictSubsetOrdering(S)
           F == FiniteSubsetsOf(S)
<1>4. PICK T \in Bad : \A U \in Bad : <<U, T>> \notin R
  <2> HIDE DEF Bad, R, F
  <2> QED
    BY <1>2, <1>3, WFMin DEF R, F
<1>5. ASSUME NEW U \in SUBSET T, U # T PROVE U \in Good
  <2>1. <<U, T>> \in StrictSubsetOrdering(S)
    BY <1>4, <1>5 DEF StrictSubsetOrdering
  <2> QED
    BY <1>4, <2>1
<1> QED
  BY <1>4, <1>5

\* The same with one element more at a time.
LEMMA Induction ==
  ASSUME NEW S, IsFiniteSet(S), NEW Good \in SUBSET SUBSET S,
         {} \in Good,
         \A T \in SUBSET S : \A x \in S \ T : T \in Good => T \cup {x} \in Good
  PROVE  Good = SUBSET S
<1>1. ASSUME NEW T \in SUBSET S, \A U \in SUBSET T : U # T => U \in Good
      PROVE  T \in Good
  <2>1. CASE T = {}
    BY <2>1
  <2>2. CASE T # {}
    <3>1. PICK x \in T : TRUE
      BY <2>2
    <3> DEFINE U == T \ {x}
    <3>2. U \in SUBSET T /\ U # T /\ T = U \cup {x} /\ x \in S \ U
      BY <3>1
    <3> HIDE DEF U
    <3>3. U \in Good
      BY <1>1, <3>2
    <3> QED
      BY <3>2, <3>3
  <2> QED
    BY <2>1, <2>2
<1> QED
  BY <1>1, StrongInduction

-----------------------------------------------------------------------------
(* Sums. *)

\* The recursion of a fold over the subsets of I: what it gives for s when
\* it gives g[t] for smaller sets t.
Pick(s)    == CHOOSE x \in s : TRUE
Turn(f, g, s) == IF s = {} THEN 0 ELSE f[Pick(s)] + g[s \ {Pick(s)}]
Folds(f, I, g) == g = [s \in SUBSET I |-> Turn(f, g, s)]

LEMMA PickIsElement == \A s : s # {} => Pick(s) \in s
BY DEF Pick

LEMMA FoldsAgree ==
  ASSUME NEW f, NEW I, NEW J, NEW g, NEW h, Folds(f, I, g), Folds(f, J, h),
         NEW S, IsFiniteSet(S), S \subseteq I, S \subseteq J
  PROVE  g[S] = h[S]
<1> DEFINE Good == {s \in SUBSET S : g[s] = h[s]}
<1>1. ASSUME NEW T \in SUBSET S, \A U \in SUBSET T : U # T => U \in Good
      PROVE  T \in Good
  <2>1. g[T] = Turn(f, g, T) /\ h[T] = Turn(f, h, T)
    BY DEF Folds
  <2>2. T # {} => g[T \ {Pick(T)}] = h[T \ {Pick(T)}]
    <3>1. SUFFICES ASSUME T # {} PROVE g[T \ {Pick(T)}] = h[T \ {Pick(T)}]
      OBVIOUS
    <3>2. T \ {Pick(T)} \in SUBSET T /\ T \ {Pick(T)} # T
      BY <3>1, PickIsElement
    <3> QED
      BY <1>1, <3>2
  <2> QED
    BY <2>1, <2>2 DEF Turn
<1> HIDE DEF Good
<1>2. Good \in SUBSET SUBSET S
  BY DEF Good
<1>3. Good = SUBSET S
  BY <1>1, <1>2, StrongInduction
<1>4. S \in SUBSET S
  OBVIOUS
<1> QED
  BY <1>3, <1>4 DEF Good

\* There is such a fold on every finite set, built from those on its subsets.
Fold(f, I) == CHOOSE g : Folds(f, I, g)

LEMMA FoldExists ==
  ASSUME NEW f, NEW I, IsFiniteSet(I)
  PROVE  Folds(f, I, Fold(f, I))
<1> DEFINE Good == {T \in SUBSET I : \E g : Folds(f, T, g)}
<1>1. ASSUME NEW T \in SUBSET I, \A U \in SUBSET T : U # T => U \in Good
      PROVE  \E g : Folds(f, T, g)
  <2> DEFINE rest(s) == s \ {Pick(s)}
             value(s) == IF s = {} THEN 0 ELSE f[Pick(s)] + Fold(f, rest(s))[rest(s)]
             h == [s \in SUBSET T |-> value(s)]
  <2>1. \A U \in SUBSET T : U # T => Folds(f, U, Fold(f, U))
    BY <1>1 DEF Fold
  <2>2. ASSUME NEW s \in SUBSET T, s # {}
        PROVE  h[rest(s)] = Fold(f, rest(s))[rest(s)]
    <3> DEFINE t == rest(s)
    <3>1. t \in SUBSET T /\ t # T /\ IsFiniteSet(t)
      <4>1. t \in SUBSET T /\ t # T
        BY <2>2, PickIsElement
      <4> QED
        BY <4>1, FS_Subset, <1>1
    <3> HIDE DEF t
    <3>2. Folds(f, t, Fold(f, t))
      BY <2>1, <3>1
    <3>3. Fold(f, t)[t] = Turn(f, Fold(f, t), t)
      BY <3>2 DEF Folds
    <3>4. h[t] = value(t)
      BY <3>1
    <3>5. t # {} => Fold(f, t)[rest(t)] = Fold(f, rest(t))[rest(t)]
      <4>1. SUFFICES ASSUME t # {} PROVE Fold(f, t)[rest(t)] = Fold(f, rest(t))[rest(t)]
        OBVIOUS
      <4> DEFINE u == rest(t)
      <4>2. u \in SUBSET T /\ u \subseteq t /\ u # T /\ IsFiniteSet(u)
        <5>1. u \subseteq t /\ u # t
          BY <4>1, PickIsElement
        <5>2. u \in SUBSET T /\ u # T
          BY <3>1, <5>1
        <5> QED
          BY <3>1, <5>1, <5>2, FS_Subset
      <4> HIDE DEF u
      <4>3. Folds(f, u, Fold(f, u))
        BY <2>1, <4>2
      <4>4. Fold(f, t)[u] = Fold(f, u)[u]
        BY <3>2, <4>2, <4>3, FoldsAgree
      <4> QED
        BY <4>4 DEF u
    <3>6. h[t] = Fold(f, t)[t]
      BY <3>3, <3>4, <3>5 DEF Turn
    <3> QED
      BY <3>6 DEF t
  <2>3. ASSUME NEW s \in SUBSET T PROVE h[s] = Turn(f, h, s)
    <3>1. h[s] = value(s)
      OBVIOUS
    <3> HIDE DEF h
    <3> QED
      BY <2>2, <3>1 DEF Turn
  <2>4. Folds(f, T, h)
    <3>1. h = [s \in SUBSET T |-> h[s]]
      OBVIOUS
    <3> HIDE DEF h
    <3>2. [s \in SUBSET T |-> h[s]] = [s \in SUBSET T |-> Turn(f, h, s)]
      BY <2>3
    <3> QED
      BY <3>1, <3>2 DEF Folds
  <2> QED
    BY <2>4
<1>2. \A T \in SUBSET I : (\A U \in SUBSET T : U # T => U \in Good) => T \in Good
  BY <1>1
<1> HIDE DEF Good
<1>3. Good \in SUBSET SUBSET I
  BY DEF Good
<1>4. Good = SUBSET I
  BY <1>2, <1>3, StrongInduction
<1>5. I \in Good
  BY <1>4
<1> QED
  BY <1>5 DEF Good, Fold

\* A sum is such a fold.
LEMMA SumIsFold == \A f, I : SumFunctionOnSet(f, I) = Fold(f, I)[I]
BY DEF SumFunctionOnSet, FoldFunctionOnSet, MapThenFoldSet, Fold, Folds, Turn, Pick

LEMMA SumOfNone == \A f : SumFunctionOnSet(f, {}) = 0
<1> SUFFICES ASSUME NEW f PROVE Fold(f, {})[{}] = 0
  BY SumIsFold
<1>1. Folds(f, {}, Fold(f, {}))
  BY FS_EmptySet, FoldExists
<1> QED
  BY <1>1 DEF Folds, Turn

LEMMA SumStep ==
  ASSUME NEW f, NEW S, IsFiniteSet(S), S # {}
  PROVE  SumFunctionOnSet(f, S) = f[Pick(S)] + SumFunctionOnSet(f, S \ {Pick(S)})
<1> DEFINE T == S \ {Pick(S)}
<1>1. IsFiniteSet(T) /\ T \subseteq S
  BY FS_Subset
<1> HIDE DEF T
<1>2. Folds(f, S, Fold(f, S)) /\ Folds(f, T, Fold(f, T))
  BY <1>1, FoldExists
<1>3. Fold(f, S)[T] = Fold(f, T)[T]
  BY <1>1, <1>2, FoldsAgree
<1>4. Fold(f, S)[S] = f[Pick(S)] + Fold(f, S)[T]
  BY <1>2 DEF Folds, Turn, T
<1> QED
  BY <1>3, <1>4, SumIsFold DEF T

LEMMA SumIsInt ==
  ASSUME NEW f, NEW S, IsFiniteSet(S), \A x \in S : f[x] \in Int
  PROVE  SumFunctionOnSet(f, S) \in Int
<1> DEFINE Good == {T \in SUBSET S : SumFunctionOnSet(f, T) \in Int}
<1>1. ASSUME NEW T \in SUBSET S, \A U \in SUBSET T : U # T => U \in Good
      PROVE  SumFunctionOnSet(f, T) \in Int
  <2>1. CASE T = {}
    BY <2>1, SumOfNone
  <2>2. CASE T # {}
    <3>1. IsFiniteSet(T)
      BY FS_Subset
    <3>2. Pick(T) \in T /\ T \ {Pick(T)} \in Good
      BY <1>1, <2>2, PickIsElement
    <3> QED
      BY <2>2, <3>1, <3>2, SumStep
  <2> QED
    BY <2>1, <2>2
<1> HIDE DEF Good
<1>2. Good \in SUBSET SUBSET S /\ \A T \in SUBSET S : SumFunctionOnSet(f, T) \in Int <=> T \in Good
  BY DEF Good
<1>3. Good = SUBSET S
  BY <1>1, <1>2, StrongInduction
<1> QED
  BY <1>2, <1>3

\* Whatever element the fold picks, it may be any other.
LEMMA SumWithout ==
  ASSUME NEW f, NEW S, IsFiniteSet(S), \A x \in S : f[x] \in Int, NEW a \in S
  PROVE  SumFunctionOnSet(f, S) = f[a] + SumFunctionOnSet(f, S \ {a})
<1> DEFINE Sum(T) == SumFunctionOnSet(f, T)
           Good == {T \in SUBSET S : \A x \in T : Sum(T) = f[x] + Sum(T \ {x})}
<1>1. ASSUME NEW T \in SUBSET S, \A U \in SUBSET T : U # T => U \in Good
      PROVE  \A x \in T : Sum(T) = f[x] + Sum(T \ {x})
  <2> SUFFICES ASSUME NEW x \in T PROVE Sum(T) = f[x] + Sum(T \ {x})
    OBVIOUS
  <2> DEFINE c == Pick(T)
  <2>1. c \in T /\ Sum(T) = f[c] + Sum(T \ {c}) /\ IsFiniteSet(T)
    BY PickIsElement, SumStep, FS_Subset
  <2> HIDE DEF c
  <2>2. CASE c = x
    BY <2>1, <2>2
  <2>3. CASE c # x
    <3> DEFINE U == T \ {c, x}
    <3>1. T \ {c} \in Good /\ T \ {x} \in Good /\ x \in T \ {c} /\ c \in T \ {x}
      BY <1>1, <2>1, <2>3
    <3>2. (T \ {c}) \ {x} = U /\ (T \ {x}) \ {c} = U /\ U \in SUBSET S
      OBVIOUS
    <3> HIDE DEF U
    <3>3. Sum(T \ {c}) = f[x] + Sum(U) /\ Sum(T \ {x}) = f[c] + Sum(U)
      BY <3>1, <3>2
    <3>4. Sum(U) \in Int
      <4>1. IsFiniteSet(U)
        BY <3>2, FS_Subset
      <4> QED
        BY <3>2, <4>1, SumIsInt
    <3>5. f[c] \in Int /\ f[x] \in Int
      BY <2>1
    <3> QED
      BY <2>1, <3>3, <3>4, <3>5
  <2> QED
    BY <2>2, <2>3
<1> HIDE DEF Sum
<1>2. \A T \in SUBSET S : (\A U \in SUBSET T : U # T => U \in Good) => T \in Good
  BY <1>1
<1> HIDE DEF Good
<1>3. Good \in SUBSET SUBSET S
  BY DEF Good
<1>4. Good = SUBSET S
  BY <1>2, <1>3, StrongInduction
<1>5. S \in Good
  BY <1>4
<1> QED
  BY <1>5 DEF Good, Sum

LEMMA SumWith ==
  ASSUME NEW f, NEW S, IsFiniteSet(S), NEW a, a \notin S, \A x \in S \cup {a} : f[x] \in Int
  PROVE  SumFunctionOnSet(f, S \cup {a}) = f[a] + SumFunctionOnSet(f, S)
<1>1. IsFiniteSet(S \cup {a}) /\ (S \cup {a}) \ {a} = S
  BY FS_AddElement
<1> QED
  BY <1>1, SumWithout

\* A sum of larger values over more elements is not smaller.
LEMMA SumMonotone ==
  ASSUME NEW f, NEW g, NEW S, IsFiniteSet(S), NEW R \in SUBSET S,
         \A x \in S : f[x] \in Int /\ g[x] \in Int,
         \A x \in R : f[x] <= g[x], \A x \in S \ R : 0 <= g[x]
  PROVE  SumFunctionOnSet(f, R) <= SumFunctionOnSet(g, S)
<1> DEFINE Low(T) == SumFunctionOnSet(f, R \cap T)
           High(T) == SumFunctionOnSet(g, T)
           Good == {T \in SUBSET S : Low(T) <= High(T)}
<1>1. Low({}) <= High({})
  <2>1. R \cap {} = {}
    OBVIOUS
  <2> QED
    BY <2>1, SumOfNone
<1>2. ASSUME NEW T \in SUBSET S, NEW x \in S \ T, Low(T) <= High(T)
      PROVE  Low(T \cup {x}) <= High(T \cup {x})
  <2>1. IsFiniteSet(T) /\ IsFiniteSet(R \cap T)
    BY FS_Subset
  <2>2. High(T \cup {x}) = g[x] + High(T)
    BY <2>1, SumWith
  <2>3. Low(T) \in Int /\ High(T) \in Int /\ f[x] \in Int /\ g[x] \in Int
    BY <2>1, SumIsInt
  <2>4. CASE x \in R
    <3>1. R \cap (T \cup {x}) = (R \cap T) \cup {x}
      BY <2>4
    <3>2. Low(T \cup {x}) = f[x] + Low(T)
      BY <2>1, <3>1, SumWith
    <3>3. f[x] <= g[x]
      BY <2>4
    <3> HIDE DEF Low, High
    <3> QED
      BY <1>2, <2>2, <2>3, <3>2, <3>3
  <2>5. CASE x \notin R
    <3>1. R \cap (T \cup {x}) = R \cap T
      BY <2>5
    <3>2. Low(T \cup {x}) = Low(T) /\ 0 <= g[x]
      BY <2>5, <3>1
    <3> HIDE DEF Low, High
    <3> QED
      BY <1>2, <2>2, <2>3, <3>2
  <2> QED
    BY <2>4, <2>5
<1> HIDE DEF Low, High
<1>3. Good = SUBSET S
  <2>1. {} \in Good /\ \A T \in SUBSET S : \A x \in S \ T : T \in Good => T \cup {x} \in Good
    BY <1>1, <1>2
  <2>2. Good \in SUBSET SUBSET S
    OBVIOUS
  <2> HIDE DEF Good
  <2> QED
    BY <2>1, <2>2, Induction
<1>4. Low(S) <= High(S)
  BY <1>3
<1>5. R \cap S = R
  OBVIOUS
<1> QED
  BY <1>4, <1>5 DEF Low, High

\* A sum of natural numbers is at least each of its parts.
LEMMA SumAtLeast ==
  ASSUME NEW f, NEW S, IsFiniteSet(S), \A x \in S : f[x] \in Nat
  PROVE  /\ SumFunctionOnSet(f, S) \in Nat
         /\ \A R \in SUBSET S : SumFunctionOnSet(f, R) <= SumFunctionOnSet(f, S)
         /\ \A a \in S : f[a] <= SumFunctionOnSet(f, S)
<1>1. \A R \in SUBSET S : SumFunctionOnSet(f, R) <= SumFunctionOnSet(f, S)
  BY SumMonotone
<1>2. SumFunctionOnSet(f, S) \in Nat
  <2>1. SumFunctionOnSet(f, S) \in Int /\ {} \in SUBSET S
    BY SumIsInt
  <2> QED
    BY <1>1, <2>1, SumOfNone
<1>3. ASSUME NEW a \in S PROVE f[a] <= SumFunctionOnSet(f, S)
  <2>1. IsFiniteSet(S \ {a})
    BY FS_Subset
  <2>2. SumFunctionOnSet(f, S \ {a}) \in Int /\ 0 <= SumFunctionOnSet(f, S \ {a})
    <3>1. SumFunctionOnSet(f, {}) <= SumFunctionOnSet(f, S \ {a})
      BY <2>1, SumMonotone
    <3> QED
      BY <2>1, <3>1, SumIsInt, SumOfNone
  <2> QED
    BY <2>2, SumWithout
<1> QED
  BY <1>1, <1>2, <1>3

-----------------------------------------------------------------------------
(* The largest and the smallest element. *)

LEMMA MaxOf ==
  ASSUME NEW S \in SUBSET Int, IsFiniteSet(S), S # {}
  PROVE  Max(S) \in S /\ \A y \in S : Max(S) >= y
<1> DEFINE Good == {T \in SUBSET S : T # {} => \E x \in T : \A y \in T : x >= y}
<1>1. ASSUME NEW T \in SUBSET S, NEW z \in S \ T, T \in Good PROVE T \cup {z} \in Good
  <2>1. CASE T = {}
    BY <2>1
  <2>2. CASE T # {}
    <3>1. PICK x \in T : \A y \in T : x >= y
      BY <1>1, <2>2
    <3>2. CASE x >= z
      BY <3>1, <3>2
    <3>3. CASE ~(x >= z)
      BY <3>1, <3>3
    <3> QED
      BY <3>2, <3>3
  <2> QED
    BY <2>1, <2>2
<1>2. {} \in Good /\ Good \in SUBSET SUBSET S
  OBVIOUS
<1> HIDE DEF Good
<1>3. Good = SUBSET S
  BY <1>1, <1>2, Induction
<1>4. S \in Good
  BY <1>3
<1>5. \E x \in S : \A y \in S : x >= y
  BY <1>4 DEF Good
<1> QED
  BY <1>5 DEF Max

LEMMA MinOf ==
  ASSUME NEW S \in SUBSET Int, IsFiniteSet(S), S # {}
  PROVE  Min(S) \in S /\ \A y \in S : Min(S) <= y
<1> DEFINE Good == {T \in SUBSET S : T # {} => \E x \in T : \A y \in T : x <= y}
<1>1. ASSUME NEW T \in SUBSET S, NEW z \in S \ T, T \in Good PROVE T \cup {z} \in Good
  <2>1. CASE T = {}
    BY <2>1
  <2>2. CASE T # {}
    <3>1. PICK x \in T : \A y \in T : x <= y
      BY <1>1, <2>2
    <3>2. CASE x <= z
      BY <3>1, <3>2
    <3>3. CASE ~(x <= z)
      BY <3>1, <3>3
    <3> QED
      BY <3>2, <3>3
  <2> QED
    BY <2>1, <2>2
<1>2. {} \in Good /\ Good \in SUBSET SUBSET S
  OBVIOUS
<1> HIDE DEF Good
<1>3. Good = SUBSET S
  BY <1>1, <1>2, Induction
<1>4. S \in Good
  BY <1>3
<1>5. \E x \in S : \A y \in S : x <= y
  BY <1>4 DEF Good
<1> QED
  BY <1>5 DEF Min

LEMMA Larger ==
  ASSUME NEW a \in Int, NEW b \in Int
  PROVE  Max({a, b}) = (IF a >= b THEN a ELSE b)
<1>1. \E x \in {a, b} : \A y \in {a, b} : x >= y
  OBVIOUS
<1> QED
  BY <1>1 DEF Max

LEMMA Smaller ==
  ASSUME NEW a \in Int, NEW b \in Int
  PROVE  Min({a, b}) = (IF a <= b THEN a ELSE b)
<1>1. \E x \in {a, b} : \A y \in {a, b} : x <= y
  OBVIOUS
<1> QED
  BY <1>1 DEF Min

-----------------------------------------------------------------------------
(* compute_spawn, for any species. *)

\* A product by a positive number compares as the other factors do.
LEMMA Cancel ==
  ASSUME NEW y \in Nat \ {0}, NEW a \in Int, NEW b \in Int, y * a <= y * b
  PROVE  a <= b
<1> SUFFICES ASSUME b < a PROVE FALSE
  OBVIOUS
<1>1. a - b - 1 \in Nat
  OBVIOUS
<1>2. y * (a - b - 1) >= 0
  BY <1>1
<1>3. y * (a - b - 1) = y * a - y * b - y
  OBVIOUS
<1> QED
  BY <1>2, <1>3

LEMMA Product == ASSUME NEW a \in Nat, NEW b \in Nat PROVE a * b \in Nat
OBVIOUS

\* The integer that RoundHalfEven finds is off by at most a half.
LEMMA Rounding ==
  ASSUME NEW x \in Int, NEW y \in Nat \ {0}
  PROVE  /\ RoundHalfEven(x, y) \in Int
         /\ 2 * x - y <= 2 * (y * RoundHalfEven(x, y))
         /\ 2 * (y * RoundHalfEven(x, y)) <= 2 * x + y
<1> DEFINE q == x \div y
           m == x % y
<1>1. q \in Int /\ m \in 0 .. y - 1 /\ x = y * q + m
  OBVIOUS
<1>2. RoundHalfEven(x, y) = IF 2 * m < y \/ (2 * m = y /\ q % 2 = 0) THEN q ELSE q + 1
  BY DEF RoundHalfEven
<1> HIDE DEF q, m
<1>3. CASE 2 * m < y \/ (2 * m = y /\ q % 2 = 0)
  BY <1>1, <1>2, <1>3
<1>4. CASE ~(2 * m < y \/ (2 * m = y /\ q % 2 = 0))
  <2>1. y * (q + 1) = y * q + y
    BY <1>1
  <2> QED
    BY <1>1, <1>2, <1>4, <2>1
<1> QED
  BY <1>3, <1>4

LEMMA RoundingIsMonotone ==
  ASSUME NEW x \in Int, NEW z \in Int, x <= z, NEW y \in Nat \ {0}
  PROVE  RoundHalfEven(x, y) <= RoundHalfEven(z, y)
<1> DEFINE q == x \div y
           m == x % y
           p == z \div y
           n == z % y
<1>1. /\ q \in Int /\ m \in 0 .. y - 1 /\ x = y * q + m
      /\ p \in Int /\ n \in 0 .. y - 1 /\ z = y * p + n
  OBVIOUS
<1>2. /\ RoundHalfEven(x, y) = IF 2 * m < y \/ (2 * m = y /\ q % 2 = 0) THEN q ELSE q + 1
      /\ RoundHalfEven(z, y) = IF 2 * n < y \/ (2 * n = y /\ p % 2 = 0) THEN p ELSE p + 1
  BY DEF RoundHalfEven
<1> HIDE DEF q, m, p, n
<1>3. q <= p
  <2>1. SUFFICES ASSUME q > p PROVE FALSE
    BY <1>1
  <2>2. y * (p + 1) <= y * q
    <3>1. y * (q - p - 1) \in Nat
      <4>1. q - p - 1 \in Nat
        BY <1>1, <2>1
      <4> HIDE DEF q, p
      <4> QED
        BY <4>1, Product
    <3>2. y * (q - p - 1) = y * q - y * (p + 1)
      BY <1>1
    <3> QED
      BY <1>1, <3>1, <3>2
  <2>3. y * (p + 1) = y * p + y
    BY <1>1
  <2> QED
    BY <1>1, <2>2, <2>3
<1>4. CASE q = p
  BY <1>1, <1>2, <1>4
<1>5. CASE q < p
  BY <1>1, <1>2, <1>5
<1> QED
  BY <1>1, <1>3, <1>4, <1>5

\* A share of at least one genome keeps every species above zero on the way.
LEMMA HalfWayIsPositive ==
  ASSUME NEW size \in Nat \ {0}, NEW unit \in Nat \ {0}, NEW share \in Int, share >= unit
  PROVE  HalfWay(size, share, unit) \in Nat \ {0}
<1> DEFINE d == share - size * unit
           y == 2 * unit
           c == RoundHalfEven(d, y)
<1>1. d \in Int /\ y \in Nat \ {0} /\ y = 2 * unit
  OBVIOUS
<1>2. d >= unit - size * unit
  OBVIOUS
<1>3. HalfWay(size, share, unit) = size + (IF c # 0 THEN c ELSE Sign(d))
  BY DEF HalfWay
<1> HIDE DEF d, y
<1>4. c \in Int /\ 2 * d - y <= 2 * (y * c)
  BY <1>1, Rounding
<1> HIDE DEF c
<1>5. -size <= 2 * c
  <2>1. unit * (-size) <= unit * (2 * c)
    <3>1. y * c = unit * (2 * c)
      BY <1>1, <1>4
    <3>2. unit * (-size) = -(size * unit)
      OBVIOUS
    <3>3. unit * (2 * c) \in Int /\ size * unit \in Int
      BY <1>4
    <3> QED
      BY <1>1, <1>2, <1>4, <3>1, <3>2, <3>3
  <2> DEFINE b == 2 * c
  <2>2. -size \in Int /\ b \in Int
    BY <1>4
  <2> HIDE DEF b
  <2> QED
    BY <2>1, <2>2, Cancel DEF b
<1>6. CASE c # 0
  BY <1>3, <1>4, <1>5, <1>6
<1>7. CASE c = 0
  <2>1. Sign(d) \in {-1, 0, 1} /\ (d >= 0 => Sign(d) >= 0)
    BY <1>1 DEF Sign
  <2>2. size = 1 => d >= 0
    BY <1>1, <1>2
  <2> QED
    BY <1>3, <1>7, <2>1, <2>2
<1> QED
  BY <1>6, <1>7

LEMMA HalfWayIsMonotone ==
  ASSUME NEW size \in Nat, NEW unit \in Nat \ {0},
         NEW share \in Int, NEW more \in Int, share <= more
  PROVE  HalfWay(size, share, unit) <= HalfWay(size, more, unit)
<1> DEFINE d == share - size * unit
           e == more - size * unit
           y == 2 * unit
           b == RoundHalfEven(d, y)
           c == RoundHalfEven(e, y)
<1>1. d \in Int /\ e \in Int /\ d <= e /\ y \in Nat \ {0}
  OBVIOUS
<1>2. /\ HalfWay(size, share, unit) = size + (IF b # 0 THEN b ELSE Sign(d))
      /\ HalfWay(size, more, unit) = size + (IF c # 0 THEN c ELSE Sign(e))
  BY DEF HalfWay
<1> HIDE DEF d, e, y
<1>3. b \in Int /\ c \in Int /\ b <= c
  BY <1>1, Rounding, RoundingIsMonotone
<1> HIDE DEF b, c
<1>4. Sign(d) \in -1 .. 1 /\ Sign(e) \in -1 .. 1 /\ Sign(d) <= Sign(e)
  BY <1>1 DEF Sign
<1> QED
  BY <1>2, <1>3, <1>4

\* What the inputs of compute_spawn look like: species that have members, and
\* a minimum that is not zero.
IsSpawnInput(fitness, sizes, pop, min) ==
  /\ DOMAIN fitness # {} /\ IsFiniteSet(DOMAIN fitness)
  /\ \A i \in DOMAIN fitness : fitness[i] \in Int /\ sizes[i] \in Nat \ {0}
  /\ pop \in Nat \ {0} /\ min \in Nat \ {0}

\* The two parts of a raw amount, as compute_spawn computes them.
Unit(fitness) == Max({SumFunction(fitness), 1})
Share(fitness, i, pop, min) ==
  Max({min * Unit(fitness), fitness[i] * (IF SumFunction(fitness) > 0 THEN pop ELSE 0)})

LEMMA RawAmount ==
  ASSUME NEW fitness, NEW sizes, NEW pop, NEW min, IsSpawnInput(fitness, sizes, pop, min)
  PROVE  /\ DOMAIN raw_amounts(fitness, sizes, pop, min) = DOMAIN fitness
         /\ Unit(fitness) \in Nat \ {0}
         /\ \A i \in DOMAIN fitness :
              /\ Share(fitness, i, pop, min) \in Int /\ Share(fitness, i, pop, min) >= Unit(fitness)
              /\ raw_amounts(fitness, sizes, pop, min)[i] =
                   HalfWay(sizes[i], Share(fitness, i, pop, min), Unit(fitness))
              /\ raw_amounts(fitness, sizes, pop, min)[i] \in Nat \ {0}
<1> DEFINE raw == raw_amounts(fitness, sizes, pop, min)
<1>1. SumFunction(fitness) \in Int
  BY SumIsInt DEF IsSpawnInput, SumFunction
<1>2. Unit(fitness) \in Nat \ {0}
  BY <1>1, Larger DEF Unit
<1>3. raw = [i \in DOMAIN fitness |-> HalfWay(sizes[i], Share(fitness, i, pop, min), Unit(fitness))]
  BY DEF raw_amounts, Share, Unit
<1>4. ASSUME NEW i \in DOMAIN fitness
      PROVE  Share(fitness, i, pop, min) \in Int /\ Share(fitness, i, pop, min) >= Unit(fitness)
  <2> DEFINE u == Unit(fitness)
             a == min * u
             b == fitness[i] * (IF SumFunction(fitness) > 0 THEN pop ELSE 0)
  <2>1. u \in Nat \ {0} /\ min \in Nat \ {0} /\ fitness[i] \in Int /\ pop \in Nat
    BY <1>2 DEF IsSpawnInput
  <2>2. a >= u /\ a \in Int
    <3> HIDE DEF u
    <3>1. (min - 1) * u \in Nat
      BY <2>1, Product
    <3> QED
      BY <2>1, <3>1
  <2>3. b \in Int
    BY <2>1
  <2>4. Share(fitness, i, pop, min) = Max({a, b})
    BY DEF Share
  <2> HIDE DEF a, b, u
  <2> QED
    BY <2>1, <2>2, <2>3, <2>4, Larger DEF u
<1> HIDE DEF raw
<1>5. ASSUME NEW i \in DOMAIN fitness
      PROVE  raw[i] = HalfWay(sizes[i], Share(fitness, i, pop, min), Unit(fitness)) /\ raw[i] \in Nat \ {0}
  <2>1. raw[i] = HalfWay(sizes[i], Share(fitness, i, pop, min), Unit(fitness))
    BY <1>3
  <2>2. sizes[i] \in Nat \ {0}
    BY DEF IsSpawnInput
  <2> QED
    BY <1>2, <1>4, <2>1, <2>2, HalfWayIsPositive
<1> QED
  BY <1>2, <1>3, <1>4, <1>5 DEF raw

\* The amount of one species: at least the minimum, and at most half a genome
\* or the minimum away from its part of pop_size.
LEMMA SpawnAmount ==
  ASSUME NEW fitness, NEW sizes, NEW pop, NEW min, IsSpawnInput(fitness, sizes, pop, min),
         NEW raw, raw = raw_amounts(fitness, sizes, pop, min),
         NEW total, total = SumFunction(raw),
         NEW spawn, spawn = compute_spawn(fitness, sizes, pop, min)
  PROVE  /\ total \in Nat \ {0} /\ DOMAIN spawn = DOMAIN fitness
         /\ \A i \in DOMAIN fitness :
              /\ spawn[i] = AtLeast(RoundHalfEven(raw[i] * pop, total), min)
              /\ spawn[i] \in Nat \ {0} /\ spawn[i] >= min
              /\ raw[i] * pop - total <= total * spawn[i]
              /\ total * spawn[i] <= raw[i] * pop + min * total
<1>1. DOMAIN raw = DOMAIN fitness /\ \A i \in DOMAIN fitness : raw[i] \in Nat \ {0}
  BY RawAmount
<1>2. total \in Nat \ {0}
  <2>1. PICK i \in DOMAIN fitness : TRUE
    BY DEF IsSpawnInput
  <2>2. total \in Nat /\ raw[i] <= total
    BY <1>1, SumAtLeast DEF IsSpawnInput, SumFunction
  <2> QED
    BY <1>1, <2>2
<1>3. spawn = [i \in DOMAIN fitness |-> AtLeast(RoundHalfEven(raw[i] * pop, total), min)]
  BY <1>1 DEF compute_spawn
<1>4. ASSUME NEW i \in DOMAIN fitness
      PROVE  /\ spawn[i] \in Nat \ {0} /\ spawn[i] >= min
             /\ raw[i] * pop - total <= total * spawn[i]
             /\ total * spawn[i] <= raw[i] * pop + min * total
  <2> DEFINE a == raw[i] * pop
             r == RoundHalfEven(a, total)
             s == spawn[i]
  <2>1. a \in Nat /\ min \in Nat \ {0}
    <3>1. raw[i] \in Nat /\ pop \in Nat
      BY <1>1 DEF IsSpawnInput
    <3> QED
      BY <3>1, Product DEF IsSpawnInput
  <2>2. s = AtLeast(r, min)
    BY <1>3
  <2> HIDE DEF a, s
  <2>3. r \in Int /\ 2 * a - total <= 2 * (total * r) /\ 2 * (total * r) <= 2 * a + total
    <3>1. a \in Int
      BY <2>1
    <3> QED
      BY ONLY <1>2, <3>1, Rounding DEF r
  <2> HIDE DEF r
  <2>4. s = IF r >= min THEN r ELSE min
    BY <2>1, <2>2, <2>3, Larger DEF AtLeast
  <2>5. total <= min * total /\ min * total = total * min /\ min * total \in Int
    <3>1. (min - 1) * total \in Nat
      BY <1>2, <2>1, Product
    <3> QED
      BY <1>2, <2>1, <3>1
  <2>6. total * r <= total * s
    <3>1. total * (s - r) \in Nat
      <4>1. s - r \in Nat
        BY <2>1, <2>3, <2>4
      <4> QED
        BY <1>2, <4>1, Product
    <3> QED
      BY <1>2, <2>1, <2>3, <2>4, <3>1
  <2>7. total * r \in Int /\ total * s \in Int
    BY <1>2, <2>1, <2>3, <2>4
  <2>8. a - total <= total * s
    BY <1>2, <2>1, <2>3, <2>6, <2>7
  <2>9. total * s <= a + min * total
    BY <1>2, <2>1, <2>3, <2>4, <2>5, <2>7
  <2> QED
    BY <2>1, <2>3, <2>4, <2>8, <2>9 DEF a, s
<1> QED
  BY <1>1, <1>2, <1>3, <1>4

LEMMA SpawnSum ==
  ASSUME NEW fitness, NEW sizes, NEW pop, NEW min, IsSpawnInput(fitness, sizes, pop, min),
         NEW spawn, spawn = compute_spawn(fitness, sizes, pop, min),
         NEW n, n = Cardinality(DOMAIN fitness)
  PROVE  SumFunction(spawn) \in (pop - n) .. (pop + n * min)
<1> DEFINE S == DOMAIN fitness
           raw == raw_amounts(fitness, sizes, pop, min)
           total == SumFunction(raw)
           Raw(T) == SumFunctionOnSet(raw, T)
           Spawn(T) == SumFunctionOnSet(spawn, T)
           size(T) == Cardinality(T)
           Near(T) == /\ Raw(T) * pop - size(T) * total <= total * Spawn(T)
                      /\ total * Spawn(T) <= Raw(T) * pop + (size(T) * min) * total
           Good == {T \in SUBSET S : Near(T)}
<1> HIDE DEF raw, total
<1>1. /\ total \in Nat \ {0} /\ DOMAIN spawn = S
      /\ \A i \in S : /\ spawn[i] \in Int
                      /\ raw[i] * pop - total <= total * spawn[i]
                      /\ total * spawn[i] <= raw[i] * pop + min * total
  BY SpawnAmount DEF raw, total
<1>2. \A i \in S : raw[i] \in Int
  BY RawAmount DEF raw
<1>3. IsFiniteSet(S) /\ pop \in Nat \ {0} /\ min \in Nat \ {0}
  BY DEF IsSpawnInput
<1>4. \A T \in SUBSET S : Raw(T) \in Int /\ Spawn(T) \in Int /\ size(T) \in Nat /\ IsFiniteSet(T)
  <2> SUFFICES ASSUME NEW T \in SUBSET S
               PROVE Raw(T) \in Int /\ Spawn(T) \in Int /\ size(T) \in Nat /\ IsFiniteSet(T)
    OBVIOUS
  <2>1. IsFiniteSet(T)
    BY <1>3, FS_Subset
  <2> QED
    BY <1>1, <1>2, <2>1, SumIsInt, FS_CardinalityType
<1>5. Near({})
  <2>1. Raw({}) = 0 /\ Spawn({}) = 0 /\ size({}) = 0
    BY SumOfNone, FS_EmptySet
  <2> HIDE DEF Raw, Spawn, size
  <2> QED
    BY <1>1, <1>3, <2>1
<1>6. ASSUME NEW T \in SUBSET S, NEW x \in S \ T, Near(T) PROVE Near(T \cup {x})
  <2> DEFINE U == T \cup {x}
  <2>1. Raw(U) = raw[x] + Raw(T) /\ Spawn(U) = spawn[x] + Spawn(T) /\ size(U) = size(T) + 1
    BY <1>1, <1>2, <1>4, SumWith, FS_AddElement
  <2>2. /\ Raw(T) \in Int /\ Spawn(T) \in Int /\ size(T) \in Nat
        /\ raw[x] \in Int /\ spawn[x] \in Int
    BY <1>1, <1>2, <1>4
  <2>3. /\ raw[x] * pop - total <= total * spawn[x]
        /\ total * spawn[x] <= raw[x] * pop + min * total
    BY <1>1
  <2> DEFINE R == Raw(T)  P == Spawn(T)  c == size(T)  r == raw[x]  p == spawn[x]
  <2>4. R * pop - c * total <= total * P /\ total * P <= R * pop + (c * min) * total
    BY <1>6
  <2>5. /\ r * pop - total <= total * p
        /\ total * p <= r * pop + min * total
        /\ R \in Int /\ P \in Int /\ c \in Nat /\ r \in Int /\ p \in Int
    BY <2>2, <2>3
  <2>6. Raw(U) = r + R /\ Spawn(U) = p + P /\ size(U) = c + 1
    BY <2>1
  <2> HIDE DEF Raw, Spawn, size, R, P, c, r, p, U
  <2>7. /\ (r + R) * pop = r * pop + R * pop /\ total * (p + P) = total * p + total * P
        /\ (c + 1) * total = c * total + total /\ ((c + 1) * min) * total = (c * min) * total + min * total
    BY <1>1, <1>3, <2>5
  <2>8. {r * pop, R * pop, total * p, total * P, c * total, (c * min) * total, min * total} \subseteq Int
    BY <1>1, <1>3, <2>5
  <2>9. Near(U)
    BY <1>1, <2>4, <2>5, <2>6, <2>7, <2>8
  <2> QED
    BY <2>9 DEF U
<1> HIDE DEF Near
<1>7. Good = SUBSET S
  <2>1. {} \in Good /\ \A T \in SUBSET S : \A x \in S \ T : T \in Good => T \cup {x} \in Good
    BY <1>5, <1>6
  <2>2. Good \in SUBSET SUBSET S
    OBVIOUS
  <2> HIDE DEF Good
  <2> QED
    BY <1>3, <2>1, <2>2, Induction
<1>8. S \in Good
  BY <1>7
<1>9. Near(S)
  BY <1>8
<1>10. total = Raw(S) /\ SumFunction(spawn) = Spawn(S) /\ size(S) = n
  <2>1. DOMAIN raw = S
    BY RawAmount DEF raw
  <2> QED
    BY <1>1, <2>1 DEF total, SumFunction
<1> DEFINE P == SumFunction(spawn)
<1>11. P \in Int /\ n \in Nat
  BY <1>4, <1>10
<1>12. total * pop - n * total <= total * P /\ total * P <= total * pop + (n * min) * total
  <2> HIDE DEF Raw, Spawn, size, P
  <2> QED
    BY <1>9, <1>10 DEF Near, P
<1> HIDE DEF P
<1>13. total * (pop - n) <= total * P /\ total * P <= total * (pop + n * min)
  BY <1>1, <1>3, <1>11, <1>12
<1>14. pop - n <= P
  <2> DEFINE a == pop - n
  <2>1. a \in Int /\ total * a <= total * P
    BY <1>3, <1>11, <1>13
  <2> HIDE DEF a
  <2> QED
    BY <1>1, <1>11, <2>1, Cancel DEF a
<1>15. P <= pop + n * min
  <2> DEFINE a == pop + n * min
  <2>1. a \in Int /\ total * P <= total * a
    BY <1>3, <1>11, <1>13
  <2> HIDE DEF a
  <2> QED
    BY <1>1, <1>11, <2>1, Cancel DEF a
<1>16. pop - n \in Int /\ pop + n * min \in Int
  BY <1>3, <1>11
<1> QED
  BY <1>11, <1>14, <1>15, <1>16 DEF P

LEMMA SpawnIsMonotone ==
  ASSUME NEW fitness, NEW sizes, NEW pop, NEW min, IsSpawnInput(fitness, sizes, pop, min),
         NEW spawn, spawn = compute_spawn(fitness, sizes, pop, min),
         NEW i \in DOMAIN fitness, NEW j \in DOMAIN fitness,
         sizes[i] = sizes[j], fitness[i] >= fitness[j]
  PROVE  spawn[i] >= spawn[j]
<1> DEFINE raw == raw_amounts(fitness, sizes, pop, min)
           total == SumFunction(raw)
           unit == Unit(fitness)
           share(x) == Share(fitness, x, pop, min)
           scale == IF SumFunction(fitness) > 0 THEN pop ELSE 0
<1>1. /\ fitness[i] \in Int /\ fitness[j] \in Int /\ sizes[i] \in Nat
      /\ scale \in Nat /\ pop \in Nat /\ min \in Nat
  BY DEF IsSpawnInput
<1>2. share(j) <= share(i)
  <2> DEFINE a == min * unit  b == fitness[i] * scale  c == fitness[j] * scale
  <2>1. share(i) = Max({a, b}) /\ share(j) = Max({a, c})
    BY DEF Share
  <2>2. a \in Int /\ b \in Int /\ c \in Int /\ c <= b
    <3> HIDE DEF scale
    <3>1. (fitness[i] - fitness[j]) * scale \in Nat
      <4>1. fitness[i] - fitness[j] \in Nat
        BY <1>1
      <4> QED
        BY <1>1, <4>1, Product
    <3>2. unit \in Int
      BY RawAmount
    <3> HIDE DEF unit
    <3> QED
      BY <1>1, <3>1, <3>2
  <2> HIDE DEF a, b, c, share
  <2> QED
    BY <2>1, <2>2, Larger
<1>3. raw[j] <= raw[i] /\ raw[i] \in Nat /\ raw[j] \in Nat
  <2>1. /\ raw[i] = HalfWay(sizes[i], share(i), unit) /\ raw[j] = HalfWay(sizes[i], share(j), unit)
        /\ share(i) \in Int /\ share(j) \in Int /\ unit \in Nat \ {0}
        /\ raw[i] \in Nat /\ raw[j] \in Nat
    BY RawAmount
  <2> HIDE DEF raw, unit, share
  <2> QED
    BY <1>1, <1>2, <2>1, HalfWayIsMonotone
<1>4. /\ total \in Nat \ {0}
      /\ spawn[i] = AtLeast(RoundHalfEven(raw[i] * pop, total), min)
      /\ spawn[j] = AtLeast(RoundHalfEven(raw[j] * pop, total), min)
  BY SpawnAmount
<1> DEFINE x == raw[j] * pop  z == raw[i] * pop
           a == RoundHalfEven(x, total)  b == RoundHalfEven(z, total)
<1>5. x \in Int /\ z \in Int /\ x <= z
  <2>1. (raw[i] - raw[j]) * pop \in Nat
    <3>1. raw[i] - raw[j] \in Nat
      BY <1>3
    <3> HIDE DEF raw
    <3> QED
      BY <1>1, <3>1, Product
  <2> HIDE DEF raw
  <2> QED
    BY <1>1, <1>3, <2>1
<1>6. spawn[i] = AtLeast(b, min) /\ spawn[j] = AtLeast(a, min)
  BY <1>4
<1> HIDE DEF x, z, total
<1>7. a \in Int /\ b \in Int /\ a <= b
  BY <1>4, <1>5, Rounding, RoundingIsMonotone
<1> HIDE DEF a, b
<1> QED
  BY <1>1, <1>6, <1>7, Larger DEF AtLeast

-----------------------------------------------------------------------------
\* For any species: the sum by which compute_spawn divides is not zero, every
\* species gets its minimum and the population keeps about its size.
THEOREM SpawnSizes ==
  \A fitness, sizes, pop, min : IsSpawnInput(fitness, sizes, pop, min) =>
    LET raw   == raw_amounts(fitness, sizes, pop, min)
        spawn == compute_spawn(fitness, sizes, pop, min)
        n     == Cardinality(DOMAIN fitness)
    IN  /\ SumFunction(raw) > 0
        /\ \A i \in DOMAIN fitness : spawn[i] >= min
        /\ SumFunction(spawn) \in (pop - n) .. (pop + n * min)
<1> SUFFICES ASSUME NEW fitness, NEW sizes, NEW pop, NEW min,
                    IsSpawnInput(fitness, sizes, pop, min)
             PROVE  LET raw   == raw_amounts(fitness, sizes, pop, min)
                        spawn == compute_spawn(fitness, sizes, pop, min)
                        n     == Cardinality(DOMAIN fitness)
                    IN  /\ SumFunction(raw) > 0
                        /\ \A i \in DOMAIN fitness : spawn[i] >= min
                        /\ SumFunction(spawn) \in (pop - n) .. (pop + n * min)
  OBVIOUS
<1> DEFINE raw   == raw_amounts(fitness, sizes, pop, min)
           spawn == compute_spawn(fitness, sizes, pop, min)
           n     == Cardinality(DOMAIN fitness)
<1>1. SumFunction(raw) \in Nat \ {0} /\ \A i \in DOMAIN fitness : spawn[i] >= min
  BY SpawnAmount
<1>2. SumFunction(spawn) \in (pop - n) .. (pop + n * min)
  BY SpawnSum
<1> QED
  BY <1>1, <1>2

LEMMA SpawnInputsAreInputs ==
  ASSUME NEW in \in SpawnInputs
  PROVE  /\ IsSpawnInput(in.fitness, in.sizes, in.pop, in.min)
         /\ \E n \in Nat : DOMAIN in.fitness = 1 .. n
<1>1. PICK n \in 1 .. MaxSpawnSpecies :
        in \in [fitness : [1 .. n -> 0 .. MaxSpawnFitness], sizes : [1 .. n -> 1 .. MaxSpawnSize],
                pop : 1 .. MaxSpawnPop, min : 1 .. MaxSpawnMin]
  BY DEF SpawnInputs
<1>2. n \in Nat \ {0} /\ DOMAIN in.fitness = 1 .. n /\ 1 \in 1 .. n
  BY <1>1
<1>3. \A i \in 1 .. n : in.fitness[i] \in Int /\ in.sizes[i] \in Nat \ {0}
  BY <1>1
<1>4. in.pop \in Nat \ {0} /\ in.min \in Nat \ {0}
  BY <1>1
<1>5. IsFiniteSet(1 .. n)
  BY <1>2, FS_Interval
<1> QED
  BY <1>2, <1>3, <1>4, <1>5 DEF IsSpawnInput

\* So what the runs check of compute_spawn holds for inputs of every size:
\* no division by zero, no species below its minimum, about pop_size genomes.
THEOREM SpawnIsSound == Spec => []SpawnsRoughlyPopSize
<1>1. SpawnsRoughlyPopSize
  <2> SUFFICES ASSUME NEW in \in SpawnInputs
               PROVE  LET raw   == raw_amounts(in.fitness, in.sizes, in.pop, in.min)
                          spawn == compute_spawn(in.fitness, in.sizes, in.pop, in.min)
                          n     == Len(spawn)
                      IN  /\ SumFunction(raw) > 0
                          /\ \A i \in 1 .. n : spawn[i] >= in.min
                          /\ SumFunction(spawn) \in (in.pop - n) .. (in.pop + n * in.min)
    BY DEF SpawnsRoughlyPopSize
  <2> DEFINE raw   == raw_amounts(in.fitness, in.sizes, in.pop, in.min)
             spawn == compute_spawn(in.fitness, in.sizes, in.pop, in.min)
  <2>1. IsSpawnInput(in.fitness, in.sizes, in.pop, in.min)
    BY SpawnInputsAreInputs
  <2>2. PICK n \in Nat : DOMAIN in.fitness = 1 .. n
    BY SpawnInputsAreInputs
  <2>3. /\ SumFunction(raw) > 0 /\ \A i \in 1 .. n : spawn[i] >= in.min
        /\ SumFunction(spawn) \in (in.pop - n) .. (in.pop + n * in.min)
    <3>1. Cardinality(1 .. n) = n
      BY FS_Interval
    <3> QED
      BY <2>1, <2>2, <3>1, SpawnSizes
  <2>4. DOMAIN spawn = 1 .. n
    BY <2>1, <2>2, SpawnAmount
  <2>5. Len(spawn) = n
    <3>1. spawn = [i \in 1 .. n |-> spawn[i]]
      BY <2>4 DEF compute_spawn
    <3> HIDE DEF spawn
    <3> QED
      BY <2>4, <3>1
  <2> HIDE DEF spawn, raw
  <2>6. LET m == Len(spawn)
        IN  /\ SumFunction(raw) > 0 /\ \A i \in 1 .. m : spawn[i] >= in.min
            /\ SumFunction(spawn) \in (in.pop - m) .. (in.pop + m * in.min)
    BY <2>3, <2>5
  <2> QED
    BY <2>6 DEF spawn, raw
<1> QED
  BY <1>1, PTL

\* Of two species of one size the fitter gets no fewer genomes, however the
\* amounts are rounded and normalised.
THEOREM SpawnIsFair == Spec => []FitterGetsMore
<1>1. FitterGetsMore
  <2> SUFFICES ASSUME NEW in \in SpawnInputs
               PROVE  LET spawn == compute_spawn(in.fitness, in.sizes, in.pop, in.min)
                      IN  \A i, j \in DOMAIN spawn :
                            in.sizes[i] = in.sizes[j] /\ in.fitness[i] >= in.fitness[j] => spawn[i] >= spawn[j]
    BY DEF FitterGetsMore
  <2> DEFINE spawn == compute_spawn(in.fitness, in.sizes, in.pop, in.min)
  <2>1. IsSpawnInput(in.fitness, in.sizes, in.pop, in.min)
    BY SpawnInputsAreInputs
  <2>2. DOMAIN spawn = DOMAIN in.fitness
    BY <2>1, SpawnAmount
  <2>3. ASSUME NEW i \in DOMAIN spawn, NEW j \in DOMAIN spawn,
               in.sizes[i] = in.sizes[j], in.fitness[i] >= in.fitness[j]
        PROVE  spawn[i] >= spawn[j]
    BY <2>1, <2>2, <2>3, SpawnIsMonotone
  <2> QED
    BY <2>3
<1> QED
  BY <1>1, PTL

-----------------------------------------------------------------------------
(* The inductive invariant of a run. *)

IsPopulation(pop) ==
  /\ IsFiniteSet(DOMAIN pop) /\ DOMAIN pop \subseteq Nat \ {0}
  /\ pop \in [DOMAIN pop -> Nat \cup {Unevaluated}]

IsSpecies(s) == s = Species(s.members, s.history, s.improved)

\* Every genome is in one species, and no species is empty.
Speciated(pop, S) ==
  /\ DOMAIN pop # {}
  /\ \A sid \in DOMAIN S : S[sid].members # {} /\ S[sid].members \subseteq DOMAIN pop
  /\ \A sid, other \in DOMAIN S : sid # other => S[sid].members \cap S[other].members = {}
  /\ \A id \in DOMAIN pop : \E sid \in DOMAIN S : id \in S[sid].members

IsRun(pop, S) == IsPopulation(pop) /\ IsFiniteSet(DOMAIN S) /\ \A sid \in DOMAIN S : IsSpecies(S[sid])

TypeOK ==
  /\ config \in ConfigType
  /\ pc \in {"found", "evaluate", "reproduce", "speciate", "stopped", "extinct"}
  /\ IsRun(population, species)
  /\ saved # NoCheckpoint => IsRun(saved.population, saved.species)
  /\ genome_indexer \in Nat \ {0} /\ restores \in Nat /\ best \in Nat \cup {Unevaluated}

Steps ==
  /\ pc \in {"evaluate", "reproduce"} => Speciated(population, species)
  /\ pc = "found" => Ids # {}
  /\ pc = "speciate" => Ids # {} /\ Cardinality(Ids) >= Cardinality(Sids)
  /\ pc = "reproduce" => population \in [Ids -> Nat]
  /\ saved # NoCheckpoint => Speciated(saved.population, saved.species)

\* Without a restart no key is given twice.
FreshKeys == restores = 0 => \A id \in Ids : id < genome_indexer

\* When the best species and its best member are always kept, the best
\* fitness is that of a genome of the population.
Keeps     == Elitism > 0 /\ config.species_elitism > 0 /\ config.species_fitness_func = "max" /\ restores = 0
BestHolds ==
  Keeps /\ pc \in {"found", "evaluate", "reproduce", "speciate"} =>
    /\ \A id \in Ids : population[id] <= best
    /\ \E id \in Ids : population[id] = best

Inv == TypeOK /\ Steps /\ FreshKeys /\ BestHolds

-----------------------------------------------------------------------------
LEMMA Constants ==
  /\ PopSize \in Nat \ {0} /\ Elitism \in Nat /\ MaxStagnation \in Nat
  /\ EffectiveMin \in Nat \ {0}
<1>1. /\ PopSize \in Nat \ {0} /\ Elitism \in Nat /\ MinSpeciesSize \in Nat /\ MaxStagnation \in Nat
      /\ AtLeast(Elitism, MinSpeciesSize) > 0
  BY EvolutionAssumption
<1> QED
  BY <1>1, Larger DEF EffectiveMin, AtLeast

LEMMA ImageSize ==
  ASSUME NEW f, NEW T, IsFiniteSet(T), \A x, y \in T : f[x] = f[y] => x = y
  PROVE  IsFiniteSet({f[x] : x \in T}) /\ Cardinality({f[x] : x \in T}) = Cardinality(T)
<1> DEFINE g == [x \in T |-> f[x]]
           U == {f[x] : x \in T}
<1>1. g \in Bijection(T, U)
  BY DEF Bijection, Injection, Surjection, IsInjective
<1> HIDE DEF g, U
<1>2. ExistsBijection(T, U)
  BY <1>1 DEF ExistsBijection
<1>3. IsFiniteSet(U) /\ Cardinality(U) = Cardinality(T)
  BY <1>2, FS_Bijection
<1> QED
  BY <1>3 DEF U

\* A set from which every element of T has one of its own is as large.
LEMMA OneForEach ==
  ASSUME NEW f, NEW T, IsFiniteSet(T), \A x, y \in T : f[x] = f[y] => x = y,
         NEW S, IsFiniteSet(S), \A x \in T : f[x] \in S
  PROVE  Cardinality(S) >= Cardinality(T)
<1>1. {f[x] : x \in T} \subseteq S /\ Cardinality({f[x] : x \in T}) = Cardinality(T)
  BY ImageSize
<1> DEFINE U == {f[x] : x \in T}
<1> HIDE DEF U
<1>2. Cardinality(U) <= Cardinality(S)
  BY <1>1, FS_Subset DEF U
<1>3. Cardinality(U) \in Nat /\ Cardinality(S) \in Nat
  BY <1>1, FS_CardinalityType, FS_Subset DEF U
<1> QED
  BY <1>1, <1>2, <1>3 DEF U

LEMMA NewIsPopulation ==
  ASSUME NEW first \in Nat \ {0}, NEW n \in Nat \ {0}
  PROVE  /\ IsPopulation(New(first, n)) /\ DOMAIN New(first, n) # {}
         /\ DOMAIN New(first, n) = first .. (first + n - 1)
         /\ \A id \in DOMAIN New(first, n) : New(first, n)[id] = Unevaluated
<1> DEFINE D == first .. (first + n - 1)
<1>1. IsFiniteSet(D)
  BY FS_Interval
<1>2. D \subseteq Nat \ {0} /\ first \in D
  OBVIOUS
<1>3. New(first, n) = [id \in D |-> Unevaluated]
  BY DEF New
<1> HIDE DEF D
<1>4. DOMAIN New(first, n) = D /\ \A id \in D : New(first, n)[id] = Unevaluated
  BY <1>3
<1>5. New(first, n) \in [D -> Nat \cup {Unevaluated}]
  BY <1>3
<1> QED
  BY <1>1, <1>2, <1>4, <1>5 DEF IsPopulation, D

\* Every species that speciate leaves has a member, and every genome is in
\* one species.
LEMMA SpeciateStep ==
  ASSUME IsRun(population, species), Ids # {}, speciate
  PROVE  IsRun(population, species') /\ Speciated(population, species')
<1>1. PICK assigned : /\ assigned \in [Ids -> Range(assigned)] /\ Sids \subseteq Range(assigned)
                      /\ Partition(assigned)
  BY DEF speciate, Range
<1> DEFINE members(sid) == {id \in Ids : assigned[id] = sid}
           R == Range(assigned)
           value(sid) == IF sid \in Sids THEN WithMembers(species[sid], members(sid))
                         ELSE Species(members(sid), -1, generation)
<1>2. species' = [sid \in R |-> value(sid)]
  BY <1>1 DEF Partition
<1>3. IsFiniteSet(R)
  <2>1. assigned \in Surjection(Ids, R)
    BY <1>1 DEF Surjection, Range
  <2>2. IsFiniteSet(Ids)
    BY DEF IsRun, IsPopulation, Ids
  <2> HIDE DEF R
  <2> QED
    BY <2>1, <2>2, FS_Surjection DEF ExistsSurjection
<1>4. ASSUME NEW sid \in R
      PROVE  value(sid).members = members(sid) /\ IsSpecies(value(sid))
  <2>1. \A m, h, p : Species(m, h, p).members = m /\ IsSpecies(Species(m, h, p))
    BY DEF IsSpecies, Species
  <2> QED
    BY <2>1 DEF WithMembers
<1>5. \A sid \in R : species'[sid].members = members(sid) /\ IsSpecies(species'[sid])
  <2> HIDE DEF value, members
  <2> QED
    BY <1>2, <1>4
<1>6. DOMAIN species' = R
  BY <1>2
<1>7. \A sid \in R : members(sid) # {} /\ members(sid) \subseteq Ids
  BY <1>1 DEF Range
<1>8. \A sid, other \in R : sid # other => members(sid) \cap members(other) = {}
  OBVIOUS
<1>9. \A id \in Ids : assigned[id] \in R /\ id \in members(assigned[id])
  BY <1>1
<1> HIDE DEF members, R
<1>10. IsRun(population, species')
  BY <1>3, <1>5, <1>6 DEF IsRun
<1> QED
  BY <1>5, <1>6, <1>7, <1>8, <1>9, <1>10 DEF Speciated, Ids

-----------------------------------------------------------------------------
(* The sort of the species and their stagnation. *)

LEMMA Sorted ==
  ASSUME IsFiniteSet(Sids), NEW order \in Ascending, NEW n, n = Cardinality(Sids)
  PROVE  /\ n \in Nat /\ DOMAIN order = 1 .. n /\ IsFiniteSet(1 .. n)
         /\ \A i \in 1 .. n : order[i] \in Sids
         /\ \A i, j \in 1 .. n : order[i] = order[j] => i = j
         /\ \A sid \in Sids : \E i \in 1 .. n : order[i] = sid
         /\ \A i, j \in 1 .. n :
              i < j => FitnessOf(species[order[i]].members) <= FitnessOf(species[order[j]].members)
<1>1. n \in Nat
  BY FS_CardinalityType
<1>2. order \in Bijection(1 .. n, Sids)
  BY DEF Ascending
<1>3. IsFiniteSet(1 .. n)
  BY <1>1, FS_Interval
<1>4. DOMAIN order = 1 .. n
  BY <1>2 DEF Bijection, Injection
<1>5. \A i, j \in 1 .. n :
        i < j => FitnessOf(species[order[i]].members) <= FitnessOf(species[order[j]].members)
  BY <1>4 DEF Ascending
<1>6. \A i \in 1 .. n : order[i] \in Sids
  BY <1>2 DEF Bijection, Injection
<1>7. \A i, j \in 1 .. n : order[i] = order[j] => i = j
  BY <1>2 DEF Bijection, Injection, IsInjective
<1>8. \A sid \in Sids : \E i \in 1 .. n : order[i] = sid
  BY <1>2 DEF Bijection, Surjection
<1> QED
  BY <1>1, <1>3, <1>4, <1>5, <1>6, <1>7, <1>8

\* The last species_elitism places are never stagnant, however many species
\* are left.
LEMMA LastPlacesStay ==
  ASSUME NEW order, NEW i \in Stagnant(order)
  PROVE  i \in 1 .. Cardinality(Sids) /\ Cardinality(Sids) - i >= config.species_elitism
BY DEF Stagnant, IsStagnant

-----------------------------------------------------------------------------
(* The elites and the keys of the children. *)

LEMMA ElitesOf ==
  ASSUME NEW members, IsFiniteSet(members), members # {}, NEW E \in Elites(members)
  PROVE  /\ E \in SUBSET members /\ IsFiniteSet(E) /\ Cardinality(E) \in 0 .. Elitism
         /\ Elitism > 0 => E # {}
         /\ \A e \in E, m \in members \ E : population[m] <= population[e]
         /\ Cardinality(E) < Elitism => E = members
<1>1. /\ E \in SUBSET members /\ Cardinality(E) = Min({Elitism, Cardinality(members)})
      /\ \A e \in E, m \in members \ E : population[m] <= population[e]
  BY DEF Elites
<1>2. IsFiniteSet(E) /\ Cardinality(E) \in Nat
  BY <1>1, FS_Subset, FS_CardinalityType
<1>3. Cardinality(members) \in Nat \ {0} /\ Elitism \in Nat
  BY FS_EmptySet, FS_CardinalityType, Constants
<1>4. Cardinality(E) = IF Elitism <= Cardinality(members) THEN Elitism ELSE Cardinality(members)
  BY <1>1, <1>3, Smaller
<1>5. Elitism > 0 => E # {}
  BY <1>3, <1>4, FS_EmptySet
<1>6. Cardinality(E) < Elitism => Cardinality(members) = Cardinality(E)
  BY <1>3, <1>4
<1>7. Cardinality(members) = Cardinality(E) => members = E
  BY <1>1, FS_Subset
<1> QED
  BY <1>1, <1>2, <1>3, <1>4, <1>5, <1>6, <1>7

\* The keys of the children of one species follow those of the last, and none
\* is reached by the next call.
LEMMA ChildKeys ==
  ASSUME NEW n \in Nat, NEW stages \in SUBSET (1 .. n), NEW count \in [stages -> Nat],
         NEW start \in Nat \ {0}, NEW first,
         first = [i \in stages |-> start + SumFunctionOnSet(count, {j \in stages : j < i})]
  PROVE  /\ start + SumFunction(count) \in Nat \ {0} /\ start + SumFunction(count) >= start
         /\ \A i \in stages : /\ first[i] \in Nat /\ first[i] >= start
                              /\ first[i] + count[i] <= start + SumFunction(count)
         /\ \A i, j \in stages : i < j => first[i] + count[i] <= first[j]
<1> DEFINE Before(i) == {j \in stages : j < i}
           Sum(T) == SumFunctionOnSet(count, T)
<1>1. IsFiniteSet(stages)
  <2>1. IsFiniteSet(1 .. n)
    BY FS_Interval
  <2> QED
    BY <2>1, FS_Subset
<1>2. \A i \in stages : i \in Int /\ count[i] \in Nat
  OBVIOUS
<1>3. ASSUME NEW T \in SUBSET stages PROVE Sum(T) \in Nat /\ Sum(T) <= Sum(stages)
  BY <1>1, <1>2, <1>3, SumAtLeast, FS_Subset
<1>4. ASSUME NEW i \in stages, NEW T \in SUBSET stages, Before(i) \cup {i} \subseteq T
      PROVE  Sum(Before(i)) + count[i] <= Sum(T)
  <2> DEFINE B == Before(i)
  <2>1. B \in SUBSET stages /\ i \notin B
    BY <1>2
  <2> HIDE DEF B
  <2>2. IsFiniteSet(B) /\ IsFiniteSet(T) /\ B \cup {i} \in SUBSET T
    BY <1>1, <1>4, <2>1, FS_Subset DEF B
  <2>3. Sum(B \cup {i}) = count[i] + Sum(B)
    <3>1. \A x \in B \cup {i} : count[x] \in Int
      BY <1>2, <2>1
    <3> QED
      BY <2>1, <2>2, <3>1, SumWith
  <2>4. Sum(B \cup {i}) <= Sum(T)
    <3>1. \A x \in T : count[x] \in Nat
      BY <1>2
    <3> QED
      BY <2>2, <3>1, SumAtLeast
  <2>5. Sum(B) \in Nat /\ count[i] \in Nat
    BY <1>2, <1>3, <2>1
  <2> HIDE DEF Sum
  <2> QED
    BY <2>3, <2>4, <2>5 DEF B
<1>5. DOMAIN count = stages
  OBVIOUS
<1>6. Sum(stages) = SumFunction(count)
  BY <1>5 DEF SumFunction
<1>7. \A i \in stages : first[i] = start + Sum(Before(i))
  OBVIOUS
<1>8. \A i \in stages : Sum(Before(i)) \in Nat /\ Sum(Before(i)) + count[i] <= Sum(stages)
  <2> SUFFICES ASSUME NEW i \in stages
               PROVE  Sum(Before(i)) \in Nat /\ Sum(Before(i)) + count[i] <= Sum(stages)
    OBVIOUS
  <2>1. Before(i) \in SUBSET stages /\ Before(i) \cup {i} \subseteq stages /\ stages \in SUBSET stages
    OBVIOUS
  <2> QED
    BY <1>3, <1>4, <2>1
<1>9. ASSUME NEW i \in stages, NEW j \in stages, i < j
      PROVE  Sum(Before(i)) + count[i] <= Sum(Before(j))
  <2>1. ASSUME NEW x \in Before(i) \cup {i} PROVE x \in Before(j)
    <3>1. x \in stages /\ x \in Int /\ x <= i
      BY <1>2
    <3> QED
      BY <1>2, <1>9, <3>1
  <2>2. Before(i) \cup {i} \subseteq Before(j) /\ Before(j) \in SUBSET stages
    BY <2>1
  <2> QED
    BY <1>4, <2>2
<1>10. Sum(stages) \in Nat
  BY <1>3
<1> HIDE DEF Sum, Before
<1> QED
  BY <1>2, <1>6, <1>7, <1>8, <1>9, <1>10

\* At the head of reproduce every genome is evaluated and in one species.
Evaluated == IsRun(population, species) /\ Speciated(population, species) /\ population \in [Ids -> Nat]

LEMMA MembersOf ==
  ASSUME Evaluated, NEW sid \in Sids, NEW members, members = species[sid].members
  PROVE  /\ members # {} /\ members \in SUBSET Ids /\ IsFiniteSet(members)
         /\ Cardinality(members) \in Nat \ {0} /\ \A id \in members : population[id] \in Nat
<1>1. members # {} /\ members \in SUBSET Ids
  BY DEF Evaluated, Speciated, Ids, Sids
<1>2. IsFiniteSet(members)
  <2>1. IsFiniteSet(Ids)
    BY DEF Evaluated, IsRun, IsPopulation, Ids
  <2> QED
    BY <1>1, <2>1, FS_Subset
<1>3. Cardinality(members) \in Nat \ {0}
  BY <1>1, <1>2, FS_EmptySet, FS_CardinalityType
<1>4. \A id \in members : population[id] \in Nat
  BY <1>1 DEF Evaluated
<1> QED
  BY <1>1, <1>2, <1>3, <1>4

\* `assert spawn > 0' in reproduce holds.
LEMMA SpawnsArePositive ==
  ASSUME Evaluated, NEW order \in Ascending, NEW stages \in SUBSET DOMAIN order, stages # {}
  PROVE  IsFiniteSet(stages) /\ \A i \in stages : Spawns(order, stages)[i] \in Nat \ {0}
<1> DEFINE members(i) == species[order[i]].members
           all == UNION {members(i) : i \in stages}
           worst == Min({population[id] : id \in all})
           sum(i) == SumFunction([id \in members(i) |-> population[id]])
           above(i) == (Scale * sum(i)) \div Cardinality(members(i)) - Scale * worst
           fitness == [i \in stages |-> above(i)]
           sizes == [i \in stages |-> Cardinality(members(i))]
<1>1. IsFiniteSet(Sids) /\ IsFiniteSet(Ids)
  BY DEF Evaluated, IsRun, IsPopulation, Sids, Ids
<1>2. IsFiniteSet(stages) /\ \A i \in stages : order[i] \in Sids
  <2> DEFINE n == Cardinality(Sids)
  <2>1. DOMAIN order = 1 .. n /\ IsFiniteSet(1 .. n) /\ \A i \in 1 .. n : order[i] \in Sids
    BY <1>1, Sorted
  <2> QED
    BY <2>1, FS_Subset
<1>3. \A i \in stages : /\ members(i) # {} /\ members(i) \in SUBSET Ids /\ IsFiniteSet(members(i))
                        /\ Cardinality(members(i)) \in Nat \ {0}
                        /\ \A id \in members(i) : population[id] \in Nat
  BY <1>2, MembersOf
<1> HIDE DEF members
<1>4. worst \in Int
  <2> DEFINE V == {population[id] : id \in all}
             values == [id \in all |-> population[id]]
  <2>1. all \in SUBSET Ids /\ all # {}
    BY <1>3
  <2> HIDE DEF all
  <2>2. V # {} /\ V \in SUBSET Int
    BY <2>1 DEF Evaluated
  <2>3. IsFiniteSet(V)
    <3>1. values \in Surjection(all, V)
      BY DEF Surjection
    <3>2. IsFiniteSet(all)
      BY <1>1, <2>1, FS_Subset
    <3> HIDE DEF values, V
    <3> QED
      BY <3>1, <3>2, FS_Surjection DEF ExistsSurjection
  <2> HIDE DEF V
  <2>4. Min(V) \in V
    BY <2>2, <2>3, MinOf
  <2> QED
    BY <2>2, <2>4 DEF V
<1> HIDE DEF worst
<1>5. ASSUME NEW i \in stages PROVE above(i) \in Int
  <2> DEFINE values == [id \in members(i) |-> population[id]]
  <2>1. DOMAIN values = members(i) /\ \A id \in members(i) : values[id] \in Int
    BY <1>3
  <2> HIDE DEF values
  <2>2. SumFunction(values) \in Int
    BY <1>3, <2>1, SumIsInt DEF SumFunction
  <2>3. sum(i) \in Int
    BY <2>2 DEF values
  <2> DEFINE s == sum(i)  c == Cardinality(members(i))
  <2>4. s \in Int /\ c \in Nat \ {0}
    BY <1>3, <2>3
  <2> HIDE DEF s, c
  <2>5. (Scale * s) \div c - Scale * worst \in Int
    BY <1>4, <2>4 DEF Scale
  <2> QED
    BY <2>5 DEF s, c
<1>6. Spawns(order, stages) = compute_spawn(fitness, sizes, PopSize, EffectiveMin)
  BY DEF Spawns, worst, members
<1> HIDE DEF above
<1>7. IsSpawnInput(fitness, sizes, PopSize, EffectiveMin)
  BY <1>2, <1>3, <1>5, Constants DEF IsSpawnInput
<1>8. DOMAIN fitness = stages
  OBVIOUS
<1> HIDE DEF fitness, sizes
<1> QED
  BY <1>2, <1>6, <1>7, <1>8, SpawnAmount

-----------------------------------------------------------------------------
(* One reproduction. *)

\* What NextGeneration chose and computed.
IsGeneration(order, stages, elites, first, count) ==
  /\ elites \in [stages -> SUBSET Ids]
  /\ \A i \in stages : elites[i] \in Elites(species[order[i]].members)
  /\ count \in [stages -> Nat] /\ (Elitism = 0 => \A i \in stages : count[i] > 0)
  /\ \A i \in stages : first[i] \in Nat /\ first[i] >= genome_indexer /\ first[i] + count[i] <= genome_indexer'
  /\ \A i, j \in stages : i < j => first[i] + count[i] <= first[j]
  /\ genome_indexer' \in Nat \ {0} /\ genome_indexer' >= genome_indexer
  /\ population' = NewPopulation(elites, first, count)
  /\ species' = [sid \in {order[i] : i \in stages} |-> WithMembers(Updated(species[sid]), {})]
  /\ pc' = "speciate"

LEMMA NextGenerationStep ==
  ASSUME Evaluated, genome_indexer \in Nat \ {0},
         NEW order \in Ascending, NEW stages \in SUBSET DOMAIN order, stages # {},
         NextGeneration(order, stages)
  PROVE  \E elites, first, count : IsGeneration(order, stages, elites, first, count)
<1> DEFINE spawn == Spawns(order, stages)
           size(elites, i) == Cardinality(elites[i])
           counts(elites) == [i \in stages |-> AtLeast(spawn[i], Elitism) - Cardinality(elites[i])]
           firsts(count) == [i \in stages |-> genome_indexer + SumFunctionOnSet(count, {j \in stages : j < i})]
<1>1. PICK elites \in [stages -> SUBSET Ids] :
        /\ \A i \in stages : elites[i] \in Elites(species[order[i]].members)
        /\ population' = NewPopulation(elites, firsts(counts(elites)), counts(elites))
        /\ genome_indexer' = genome_indexer + SumFunction(counts(elites))
        /\ species' = [sid \in {order[i] : i \in stages} |-> WithMembers(Updated(species[sid]), {})]
        /\ pc' = "speciate"
  BY DEF NextGeneration
<1> DEFINE count == counts(elites)
           first == firsts(count)
           n == Cardinality(Sids)
<1>2. n \in Nat /\ DOMAIN order = 1 .. n /\ \A i \in 1 .. n : order[i] \in Sids
  <2>1. IsFiniteSet(Sids)
    BY DEF Evaluated, IsRun, Sids
  <2> QED
    BY <2>1, Sorted
<1>3. ASSUME NEW i \in stages
      PROVE  /\ spawn[i] \in Nat \ {0} /\ Cardinality(elites[i]) \in 0 .. Elitism
             /\ AtLeast(spawn[i], Elitism) - Cardinality(elites[i]) \in Nat
             /\ Elitism = 0 => AtLeast(spawn[i], Elitism) - Cardinality(elites[i]) > 0
  <2>1. spawn[i] \in Nat \ {0}
    BY SpawnsArePositive
  <2>2. Cardinality(elites[i]) \in 0 .. Elitism
    <3> DEFINE members == species[order[i]].members
    <3>1. members # {} /\ IsFiniteSet(members)
      BY <1>2, MembersOf
    <3> QED
      BY <1>1, <3>1, ElitesOf
  <2> DEFINE s == spawn[i]  c == Cardinality(elites[i])
  <2>3. s \in Nat \ {0} /\ c \in 0 .. Elitism /\ Elitism \in Nat
    BY <2>1, <2>2, Constants
  <2> HIDE DEF s, c
  <2>4. AtLeast(s, Elitism) = IF s >= Elitism THEN s ELSE Elitism
    BY <2>3, Larger DEF AtLeast
  <2>5. AtLeast(s, Elitism) - c \in Nat /\ (Elitism = 0 => AtLeast(s, Elitism) - c > 0)
    BY <2>3, <2>4
  <2> QED
    BY <2>1, <2>2, <2>5 DEF s, c
<1>4. count \in [stages -> Nat] /\ (Elitism = 0 => \A i \in stages : count[i] > 0)
  BY <1>3
<1>5. first = firsts(count)
  OBVIOUS
<1>6. /\ population' = NewPopulation(elites, first, count)
      /\ genome_indexer' = genome_indexer + SumFunction(count)
  BY <1>1
<1> HIDE DEF count, first, spawn
<1>7. /\ genome_indexer' \in Nat \ {0} /\ genome_indexer' >= genome_indexer
      /\ \A i \in stages : first[i] \in Nat /\ first[i] >= genome_indexer /\ first[i] + count[i] <= genome_indexer'
      /\ \A i, j \in stages : i < j => first[i] + count[i] <= first[j]
  <2>1. stages \in SUBSET (1 .. n)
    BY <1>2
  <2> HIDE DEF n
  <2> QED
    BY <1>2, <1>4, <1>5, <1>6, <2>1, ChildKeys
<1>8. IsGeneration(order, stages, elites, first, count)
  BY <1>1, <1>4, <1>6, <1>7 DEF IsGeneration
<1> QED
  BY <1>8

Carried(stages, elites)     == UNION {elites[i] : i \in stages}
Children(i, first, count)   == first[i] .. (first[i] + count[i] - 1)
Bred(stages, first, count)  == UNION {Children(i, first, count) : i \in stages}

LEMMA NewPopulationOf ==
  ASSUME Evaluated, genome_indexer \in Nat \ {0},
         NEW order \in Ascending, NEW stages \in SUBSET DOMAIN order,
         NEW elites, NEW first, NEW count, IsGeneration(order, stages, elites, first, count)
  PROVE  /\ DOMAIN population' = Carried(stages, elites) \cup Bred(stages, first, count)
         /\ Carried(stages, elites) \in SUBSET Ids
         /\ Bred(stages, first, count) \in SUBSET (genome_indexer .. genome_indexer' - 1)
         /\ IsPopulation(population')
         /\ \A id \in DOMAIN population' :
              /\ id \notin Bred(stages, first, count) => population'[id] = population[id]
              /\ population'[id] # population[id] => population'[id] = Unevaluated
              /\ population'[id] = Unevaluated \/ id \in Carried(stages, elites)
<1> DEFINE carried == Carried(stages, elites)
           bred == Bred(stages, first, count)
           child(id) == \E i \in stages : id \in Children(i, first, count)
                                          /\ \A j \in stages : id \in elites[j] => j <= i
           value(id) == IF child(id) THEN Unevaluated ELSE population[id]
<1>1. population' = [id \in carried \cup bred |-> value(id)]
  BY DEF IsGeneration, NewPopulation, Carried, Bred, Children
<1>2. carried \in SUBSET Ids
  BY DEF IsGeneration, Carried
<1>3. bred \in SUBSET (genome_indexer .. genome_indexer' - 1)
  <2>1. ASSUME NEW i \in stages, NEW id \in Children(i, first, count)
        PROVE  id \in genome_indexer .. genome_indexer' - 1
    <3>1. /\ count[i] \in Nat /\ first[i] \in Nat /\ first[i] >= genome_indexer
          /\ first[i] + count[i] <= genome_indexer' /\ genome_indexer' \in Nat
      BY DEF IsGeneration
    <3>2. id \in Int /\ first[i] <= id /\ id <= first[i] + count[i] - 1
      BY <3>1 DEF Children
    <3> QED
      BY <3>1, <3>2
  <2> QED
    BY <2>1 DEF Bred
<1>4. \A id : child(id) => id \in bred
  BY DEF Bred
<1>5. \A i \in stages : i \in Int
  <2>1. IsFiniteSet(Sids)
    BY DEF Evaluated, IsRun, Sids
  <2>2. Cardinality(Sids) \in Nat /\ DOMAIN order = 1 .. Cardinality(Sids)
    BY <2>1, Sorted
  <2> QED
    BY <2>2
<1>6. \A id \in carried \cup bred : ~child(id) => id \in carried
  <2> SUFFICES ASSUME NEW id \in bred, id \notin carried PROVE child(id)
    OBVIOUS
  <2>1. PICK i \in stages : id \in Children(i, first, count)
    BY DEF Bred
  <2>2. \A j \in stages : id \notin elites[j]
    BY DEF Carried
  <2> QED
    BY <2>1, <2>2
<1>7. \A id \in Ids : population[id] \in Nat
  BY DEF Evaluated
<1> HIDE DEF child
<1>8. \A id \in carried \cup bred : value(id) \in Nat \cup {Unevaluated}
  BY <1>2, <1>6, <1>7
<1>9. IsFiniteSet(carried \cup bred) /\ carried \cup bred \subseteq Nat \ {0}
  <2>1. IsFiniteSet(Ids) /\ Ids \subseteq Nat \ {0}
    BY DEF Evaluated, IsRun, IsPopulation, Ids
  <2>2. IsFiniteSet(genome_indexer .. genome_indexer' - 1)
    BY FS_Interval DEF IsGeneration
  <2>3. IsFiniteSet(carried) /\ IsFiniteSet(bred)
    BY <1>2, <1>3, <2>1, <2>2, FS_Subset
  <2>4. bred \subseteq Nat \ {0}
    BY <1>3 DEF IsGeneration
  <2> HIDE DEF carried, bred
  <2> QED
    BY <1>2, <2>1, <2>3, <2>4, FS_Union
<1> HIDE DEF carried, bred
<1>10. DOMAIN population' = carried \cup bred /\ \A id \in carried \cup bred : population'[id] = value(id)
  BY <1>1
<1>11. IsPopulation(population')
  <2>1. population' \in [carried \cup bred -> Nat \cup {Unevaluated}]
    BY <1>1, <1>8
  <2> HIDE DEF value
  <2> QED
    BY <1>9, <1>10, <2>1 DEF IsPopulation
<1>12. \A id \in carried \cup bred :
         /\ id \notin bred => population'[id] = population[id]
         /\ population'[id] # population[id] => population'[id] = Unevaluated
         /\ population'[id] = Unevaluated \/ id \in carried
  BY <1>4, <1>6, <1>10
<1> QED
  BY <1>2, <1>3, <1>10, <1>11, <1>12 DEF carried, bred

\* In a process that did not restore a checkpoint no child overwrites an elite.
LEMMA ElitesStay ==
  ASSUME Evaluated, genome_indexer \in Nat \ {0}, FreshKeys, restores = 0,
         NEW order \in Ascending, NEW stages \in SUBSET DOMAIN order,
         NEW elites, NEW first, NEW count, IsGeneration(order, stages, elites, first, count),
         NEW i \in stages, NEW e \in elites[i]
  PROVE  e \in DOMAIN population' /\ population'[e] = population[e]
<1>1. e \in Carried(stages, elites)
  BY DEF Carried
<1>2. e \in Ids /\ e < genome_indexer
  BY <1>1, NewPopulationOf DEF FreshKeys
<1>3. e \notin Bred(stages, first, count)
  <2>1. e \in Nat
    BY <1>2 DEF Evaluated, IsRun, IsPopulation, Ids
  <2>2. Bred(stages, first, count) \subseteq genome_indexer .. genome_indexer' - 1
    BY NewPopulationOf
  <2>3. genome_indexer' \in Nat
    BY DEF IsGeneration
  <2> QED
    BY <1>2, <2>1, <2>2, <2>3
<1>4. /\ DOMAIN population' = Carried(stages, elites) \cup Bred(stages, first, count)
      /\ \A id \in DOMAIN population' : id \notin Bred(stages, first, count) => population'[id] = population[id]
  BY NewPopulationOf
<1> QED
  BY <1>1, <1>3, <1>4

\* Every species has a genome of its own in the new population: one of its
\* elites or, without elitism, its first child.
LEMMA EnoughGenomes ==
  ASSUME Evaluated, genome_indexer \in Nat \ {0},
         NEW order \in Ascending, NEW stages \in SUBSET DOMAIN order, stages # {},
         NEW elites, NEW first, NEW count, IsGeneration(order, stages, elites, first, count)
  PROVE  /\ DOMAIN population' # {} /\ IsFiniteSet(DOMAIN species')
         /\ Cardinality(DOMAIN population') >= Cardinality(DOMAIN species')
<1> DEFINE n == Cardinality(Sids)
           S == {order[i] : i \in stages}
           members(i) == species[order[i]].members
<1>0. DOMAIN population' = Carried(stages, elites) \cup Bred(stages, first, count)
  BY NewPopulationOf
<1>1. IsFiniteSet(Sids)
  BY DEF Evaluated, IsRun, Sids
<1>2. /\ n \in Nat /\ DOMAIN order = 1 .. n /\ IsFiniteSet(1 .. n) /\ \A i \in 1 .. n : order[i] \in Sids
      /\ \A i, j \in 1 .. n : order[i] = order[j] => i = j
  BY <1>1, Sorted
<1>3. IsFiniteSet(stages) /\ \A i, j \in stages : order[i] = order[j] => i = j
  BY <1>2, FS_Subset
<1>4. DOMAIN species' = S
  BY DEF IsGeneration
<1>5. IsFiniteSet(S) /\ Cardinality(S) = Cardinality(stages)
  BY <1>3, ImageSize
<1>6. \E own : /\ \A i \in stages : own[i] \in DOMAIN population'
               /\ \A i, j \in stages : own[i] = own[j] => i = j
  <2>1. CASE Elitism > 0
    <3> DEFINE own == [i \in stages |-> CHOOSE e \in elites[i] : TRUE]
    <3>1. \A i \in stages : elites[i] # {} /\ elites[i] \subseteq members(i)
      <4> SUFFICES ASSUME NEW i \in stages PROVE elites[i] # {} /\ elites[i] \subseteq members(i)
        OBVIOUS
      <4>1. members(i) # {} /\ IsFiniteSet(members(i))
        BY <1>2, MembersOf
      <4>2. elites[i] \in Elites(members(i))
        BY DEF IsGeneration
      <4> QED
        BY <2>1, <4>1, <4>2, ElitesOf
    <3>2. \A i \in stages : own[i] \in elites[i]
      BY <3>1
    <3> HIDE DEF own
    <3>3. \A i \in stages : own[i] \in DOMAIN population'
      BY <1>0, <3>2 DEF Carried
    <3>4. \A i, j \in stages : i # j => members(i) \cap members(j) = {}
      BY <1>2, <1>3 DEF Evaluated, Speciated, Sids
    <3> QED
      BY <3>1, <3>2, <3>3, <3>4
  <2>2. CASE Elitism = 0
    <3>1. \A i \in stages : first[i] \in Children(i, first, count)
      BY <2>2 DEF IsGeneration, Children
    <3>2. \A i \in stages : first[i] \in DOMAIN population'
      BY <1>0, <3>1 DEF Bred
    <3>3. \A i, j \in stages : i < j => first[i] < first[j]
      <4>1. \A i \in stages : first[i] \in Nat /\ count[i] \in Nat /\ count[i] > 0
        BY <2>2 DEF IsGeneration
      <4>2. \A i, j \in stages : i < j => first[i] + count[i] <= first[j]
        BY DEF IsGeneration
      <4> QED
        BY <4>1, <4>2
    <3>4. \A i \in stages : i \in Int /\ first[i] \in Nat
      BY <1>2 DEF IsGeneration
    <3>5. \A i, j \in stages : first[i] = first[j] => i = j
      BY <3>3, <3>4
    <3> QED
      BY <3>2, <3>5
  <2> QED
    BY <2>1, <2>2, Constants
<1>7. IsFiniteSet(DOMAIN population')
  BY NewPopulationOf DEF IsPopulation
<1>8. Cardinality(DOMAIN population') >= Cardinality(stages)
  BY <1>3, <1>6, <1>7, OneForEach
<1> QED
  BY <1>4, <1>5, <1>6, <1>7, <1>8

-----------------------------------------------------------------------------
(* The best genome survives. *)

Stages(order) == DOMAIN order \ Stagnant(order)

LEMMA FitnessOfTheBest ==
  ASSUME Evaluated, config.species_fitness_func = "max",
         NEW sid \in Sids, NEW members, members = species[sid].members
  PROVE  /\ FitnessOf(members) \in Int
         /\ \E m \in members : Scale * population[m] = FitnessOf(members)
         /\ \A m \in members : Scale * population[m] <= FitnessOf(members)
<1> DEFINE values == [id \in members |-> population[id]]
           R == Range(values)
<1>1. members # {} /\ IsFiniteSet(members) /\ \A id \in members : population[id] \in Nat
  BY MembersOf
<1>2. R = {population[id] : id \in members}
  BY DEF Range
<1>3. R \in SUBSET Int /\ R # {}
  BY <1>1, <1>2
<1>4. IsFiniteSet(R)
  <2>1. values \in Surjection(members, R)
    BY <1>2 DEF Surjection
  <2> HIDE DEF values, R
  <2> QED
    BY <1>1, <2>1, FS_Surjection DEF ExistsSurjection
<1>5. FitnessOf(members) = Scale * Max(R)
  BY DEF FitnessOf
<1> HIDE DEF values, R
<1>6. Max(R) \in R /\ \A y \in R : Max(R) >= y
  BY <1>3, <1>4, MaxOf
<1> DEFINE top == Max(R)
<1> HIDE DEF top
<1>7. top \in Int /\ FitnessOf(members) = Scale * top
  BY <1>3, <1>5, <1>6 DEF top
<1>8. PICK m \in members : population[m] = top
  BY <1>2, <1>6 DEF top
<1>9. \A y \in members : population[y] <= top /\ population[y] \in Int
  BY <1>1, <1>2, <1>6 DEF top
<1> QED
  BY <1>7, <1>8, <1>9 DEF Scale

\* The fittest species is never stagnant under species elitism.
LEMMA FittestStays ==
  ASSUME Evaluated, config.species_elitism > 0, config \in ConfigType,
         NEW order \in Ascending, NEW n, n = Cardinality(Sids)
  PROVE  n \in Nat \ {0} /\ n \in Stages(order)
<1>1. IsFiniteSet(Sids) /\ Sids # {}
  BY DEF Evaluated, IsRun, Speciated, Sids
<1>2. n \in Nat \ {0} /\ DOMAIN order = 1 .. n
  BY <1>1, Sorted, FS_EmptySet
<1>3. n \notin Stagnant(order)
  <2>1. SUFFICES ASSUME n \in Stagnant(order) PROVE FALSE
    OBVIOUS
  <2>2. n - n >= config.species_elitism
    BY <2>1, LastPlacesStay
  <2>3. config.species_elitism \in Nat
    BY DEF ConfigType
  <2> QED
    BY <1>2, <2>2, <2>3
<1> QED
  BY <1>2, <1>3 DEF Stages

LEMMA BestSurvives ==
  ASSUME TypeOK, Evaluated, FreshKeys, Keeps,
         \A id \in Ids : population[id] <= best, \E id \in Ids : population[id] = best,
         NEW order \in Ascending, NEW stages, stages = Stages(order),
         NEW elites, NEW first, NEW count, IsGeneration(order, stages, elites, first, count)
  PROVE  /\ \A id \in DOMAIN population' : population'[id] <= best
         /\ \E id \in DOMAIN population' : population'[id] = best
<1> DEFINE n == Cardinality(Sids)
           members(i) == species[order[i]].members
           F(i) == FitnessOf(members(i))
<1>1. genome_indexer \in Nat \ {0} /\ config \in ConfigType /\ stages \in SUBSET DOMAIN order
  BY DEF TypeOK, Stages
<1>2. Elitism > 0 /\ config.species_elitism > 0 /\ config.species_fitness_func = "max" /\ restores = 0
  BY DEF Keeps
<1>3. \A id \in Ids : population[id] \in Nat
  BY DEF Evaluated
<1>4. PICK id \in Ids : population[id] = best
  OBVIOUS
<1>5. best \in Nat
  BY <1>3, <1>4
<1>6. \A x \in DOMAIN population' : population'[x] <= best
  <2>1. /\ \A x \in DOMAIN population' :
             /\ population'[x] # population[x] => population'[x] = Unevaluated
             /\ population'[x] = Unevaluated \/ x \in Carried(stages, elites)
        /\ Carried(stages, elites) \in SUBSET Ids
    BY <1>1, NewPopulationOf
  <2> QED
    BY <1>5, <2>1 DEF Unevaluated
<1>7. IsFiniteSet(Sids)
  BY DEF Evaluated, IsRun, Sids
<1>8. /\ n \in Nat \ {0} /\ n \in stages /\ \A i \in 1 .. n : order[i] \in Sids
      /\ \A sid \in Sids : \E i \in 1 .. n : order[i] = sid
      /\ \A i, j \in 1 .. n : i < j => F(i) <= F(j)
  BY <1>1, <1>2, <1>7, FittestStays, Sorted
<1>9. PICK j \in 1 .. n : id \in members(j)
  <2>1. \E sid \in Sids : id \in species[sid].members
    BY DEF Evaluated, Speciated, Ids, Sids
  <2> QED
    BY <1>8, <2>1
<1>10. PICK m \in members(n) : population[m] = best
  <2> HIDE DEF n, F, members
  <2>1. n \in 1 .. n
    BY <1>8
  <2>2. /\ \A i \in 1 .. n : F(i) \in Int
        /\ \A i \in 1 .. n : \A x \in members(i) : Scale * population[x] <= F(i)
        /\ \A i \in 1 .. n : \E x \in members(i) : Scale * population[x] = F(i)
    BY <1>2, <1>8, FitnessOfTheBest DEF F, members
  <2>3. Scale * best <= F(j) /\ F(j) <= F(n) /\ F(j) \in Int /\ F(n) \in Int
    BY <1>4, <1>8, <1>9, <2>1, <2>2
  <2>4. PICK x \in members(n) : Scale * population[x] = F(n)
    BY <2>1, <2>2
  <2>5. x \in Ids
    <3>1. members(n) \in SUBSET Ids
      BY <1>8, <2>1, MembersOf DEF members
    <3> QED
      BY <3>1
  <2>6. population[x] <= best /\ population[x] \in Nat
    BY <1>3, <2>5
  <2>7. population[x] = best
    BY <1>5, <2>3, <2>4, <2>6 DEF Scale
  <2> QED
    BY <2>7
<1>11. PICK e \in elites[n] : population[e] = best
  <2>1. members(n) # {} /\ IsFiniteSet(members(n)) /\ members(n) \in SUBSET Ids
    BY <1>8, MembersOf
  <2>2. elites[n] \in Elites(members(n))
    BY <1>8 DEF IsGeneration
  <2>3. /\ elites[n] # {} /\ elites[n] \in SUBSET members(n)
        /\ \A e \in elites[n], x \in members(n) \ elites[n] : population[x] <= population[e]
    BY <1>2, <2>1, <2>2, ElitesOf
  <2> HIDE DEF members, n
  <2>4. PICK e \in elites[n] : TRUE
    BY <2>3
  <2>5. CASE m \in elites[n]
    BY <1>10, <2>5
  <2>6. CASE m \notin elites[n]
    <3>1. best <= population[e] /\ population[e] <= best /\ population[e] \in Nat
      BY <1>3, <1>10, <2>1, <2>3, <2>4, <2>6
    <3> QED
      BY <1>5, <2>4, <3>1
  <2> QED
    BY <2>5, <2>6
<1>12. e \in DOMAIN population' /\ population'[e] = best
  BY <1>1, <1>2, <1>8, <1>11, ElitesStay
<1> QED
  BY <1>6, <1>12

-----------------------------------------------------------------------------
(* Every step keeps the invariant. *)

LEMMA InitInv == Init => Inv
<1> SUFFICES ASSUME Init PROVE Inv
  OBVIOUS
<1>1. /\ config \in ConfigType /\ pc = "found" /\ population = New(1, PopSize) /\ genome_indexer = PopSize + 1
      /\ species = <<>> /\ best = Unevaluated /\ saved = NoCheckpoint /\ restores = 0
  BY EvolutionAssumption DEF Init
<1>2. /\ IsPopulation(population) /\ Ids # {} /\ Ids = 1 .. (1 + PopSize - 1)
      /\ \A id \in Ids : population[id] = Unevaluated
  <2>1. 1 \in Nat \ {0} /\ PopSize \in Nat \ {0}
    BY Constants
  <2> DEFINE N == New(1, PopSize)
  <2>2. /\ IsPopulation(N) /\ DOMAIN N # {} /\ DOMAIN N = 1 .. (1 + PopSize - 1)
        /\ \A id \in DOMAIN N : N[id] = Unevaluated
    BY <2>1, NewIsPopulation
  <2> HIDE DEF N
  <2>3. population = N
    BY <1>1 DEF N
  <2> QED
    BY <2>2, <2>3 DEF Ids
<1>3. Sids = {}
  BY <1>1 DEF Sids
<1>4. IsRun(population, species)
  BY <1>2, <1>3, FS_EmptySet DEF IsRun, Sids
<1>5. TypeOK
  BY <1>1, <1>4, Constants DEF TypeOK
<1>6. Steps
  BY <1>1, <1>2 DEF Steps
<1>7. FreshKeys
  BY <1>1, <1>2, Constants DEF FreshKeys
<1>8. BestHolds
  BY <1>1, <1>2 DEF BestHolds, Unevaluated
<1> QED
  BY <1>5, <1>6, <1>7, <1>8 DEF Inv

LEMMA EvaluateInv ==
  ASSUME Inv, Evaluate
  PROVE  Inv'
<1>1. PICK f \in [Ids -> Fitnesses] :
        /\ \A id \in Ids : population[id] # Unevaluated => f[id] = population[id]
        /\ population' = f
        /\ best' = Max({best} \cup {f[id] : id \in Ids})
        /\ pc' = IF MeanReached(f) THEN "stopped" ELSE "reproduce"
  BY DEF Evaluate
<1>2. pc = "evaluate" /\ UNCHANGED <<config, species, genome_indexer, saved, restores>>
  BY DEF Evaluate
<1>3. /\ config \in ConfigType /\ IsRun(population, species) /\ Speciated(population, species)
      /\ best \in Nat \cup {Unevaluated}
  BY <1>2 DEF Inv, TypeOK, Steps
<1>4. Fitnesses \subseteq Nat /\ IsFiniteSet(Fitnesses)
  <2>1. config.max_fitness \in Nat
    BY <1>3 DEF ConfigType
  <2> QED
    BY <2>1, FS_Interval DEF Fitnesses
<1>5. DOMAIN population' = Ids /\ population' \in [Ids -> Nat]
  BY <1>1, <1>4
<1>6. IsRun(population', species') /\ Speciated(population', species')
  BY <1>2, <1>3, <1>5 DEF IsRun, IsPopulation, Speciated, Ids
<1> DEFINE V == {best} \cup {f[id] : id \in Ids}
<1>7. V \in SUBSET Int /\ IsFiniteSet(V) /\ V # {} /\ best \in V /\ \A id \in Ids : f[id] \in V
  <2>1. {f[id] : id \in Ids} \in SUBSET Fitnesses
    BY <1>1
  <2>2. IsFiniteSet({f[id] : id \in Ids})
    BY <1>4, <2>1, FS_Subset
  <2>3. IsFiniteSet(V)
    BY <2>2, FS_Singleton, FS_Union
  <2>4. V \in SUBSET Int
    <3>1. best \in Int
      BY <1>3 DEF Unevaluated
    <3>2. \A x \in Fitnesses : x \in Int
      BY <1>4
    <3>3. \A id \in Ids : f[id] \in Int
      BY <3>2
    <3> QED
      BY <3>1, <3>3
  <2> QED
    BY <2>3, <2>4
<1>8. best' = Max(V)
  BY <1>1
<1>9. best' \in V /\ \A v \in V : best' >= v
  <2> HIDE DEF V
  <2> QED
    BY <1>7, <1>8, MaxOf
<1>10. TypeOK'
  <2>1. best' \in Nat \cup {Unevaluated}
    BY <1>3, <1>4, <1>9
  <2>2. pc' \in {"reproduce", "stopped"}
    BY <1>1
  <2> QED
    BY <1>2, <1>6, <2>1, <2>2 DEF Inv, TypeOK
<1>11. Steps'
  <2>1. pc' \in {"reproduce", "stopped"}
    BY <1>1
  <2> QED
    BY <1>2, <1>5, <1>6, <2>1 DEF Inv, Steps, Ids
<1>12. FreshKeys'
  BY <1>2, <1>5 DEF Inv, FreshKeys, Ids
<1>13. BestHolds'
  <2> SUFFICES ASSUME Keeps'
               PROVE  /\ \A id \in Ids : population'[id] <= best'
                      /\ \E id \in Ids : population'[id] = best'
    BY <1>5 DEF BestHolds, Ids
  <2>1. Keeps
    BY <1>2 DEF Keeps
  <2>2. (\A id \in Ids : population[id] <= best) /\ \E id \in Ids : population[id] = best
    BY <1>2, <2>1 DEF Inv, BestHolds
  <2>3. \A id \in Ids : f[id] \in Nat
    BY <1>4
  <2>4. \A id \in Ids : f[id] <= best'
    BY <1>7, <1>9
  <2>5. \E id \in Ids : f[id] = best'
    <3>1. CASE best' = best
      <4>1. PICK id \in Ids : population[id] = best
        BY <2>2
      <4>2. f[id] \in Nat /\ f[id] <= best'
        BY <2>3, <2>4
      <4>3. population[id] # Unevaluated
        BY <3>1, <4>1, <4>2 DEF Unevaluated
      <4> QED
        BY <1>1, <3>1, <4>1, <4>3
    <3>2. CASE best' # best
      BY <1>9, <3>2
    <3> QED
      BY <3>1, <3>2
  <2> QED
    BY <1>1, <2>4, <2>5
<1> QED
  BY <1>10, <1>11, <1>12, <1>13 DEF Inv

LEMMA LastGenerationInv ==
  ASSUME Inv, LastGeneration
  PROVE  Inv'
<1>1. pc' = "stopped" /\ UNCHANGED <<config, population, species, genome_indexer, best, saved, restores>>
  BY DEF LastGeneration
<1>2. TypeOK'
  BY <1>1 DEF Inv, TypeOK
<1>3. Steps'
  BY <1>1 DEF Inv, Steps
<1>4. FreshKeys' /\ BestHolds'
  BY <1>1 DEF Inv, FreshKeys, BestHolds, Ids
<1> QED
  BY <1>2, <1>3, <1>4 DEF Inv

LEMMA FoundInv ==
  ASSUME Inv, Found
  PROVE  Inv'
<1>1. /\ pc = "found" /\ pc' = "evaluate" /\ speciate
      /\ UNCHANGED <<config, population, genome_indexer, best, saved, restores>>
  BY DEF Found
<1>2. IsRun(population, species) /\ Ids # {}
  BY <1>1 DEF Inv, TypeOK, Steps
<1>3. IsRun(population, species') /\ Speciated(population, species')
  BY <1>1, <1>2, SpeciateStep
<1>4. TypeOK'
  BY <1>1, <1>3 DEF Inv, TypeOK
<1>5. Steps'
  BY <1>1, <1>3 DEF Inv, Steps
<1>6. FreshKeys'
  BY <1>1 DEF Inv, FreshKeys, Ids
<1>7. BestHolds'
  BY <1>1 DEF Inv, BestHolds, Keeps, Ids
<1> QED
  BY <1>4, <1>5, <1>6, <1>7 DEF Inv

LEMMA SpeciateInv ==
  ASSUME Inv, Speciate
  PROVE  Inv'
<1>1. /\ pc = "speciate" /\ pc' = "evaluate" /\ speciate
      /\ UNCHANGED <<config, population, genome_indexer, best, restores>>
  BY DEF Speciate, EndGeneration
<1>2. IsRun(population, species) /\ Ids # {}
  BY <1>1 DEF Inv, TypeOK, Steps
<1>3. IsRun(population, species') /\ Speciated(population, species')
  BY <1>1, <1>2, SpeciateStep
<1>4. saved' # NoCheckpoint =>
        IsRun(saved'.population, saved'.species) /\ Speciated(saved'.population, saved'.species)
  <2>1. CASE UNCHANGED saved
    BY <2>1 DEF Inv, TypeOK, Steps
  <2>2. CASE saved' = [generation |-> generation, population |-> population,
                       species |-> species', indexer |-> indexer']
    <3>1. saved'.population = population /\ saved'.species = species'
      BY <2>2
    <3> QED
      BY <1>3, <3>1
  <2> QED
    BY <2>1, <2>2 DEF Speciate, EndGeneration
<1>5. TypeOK'
  BY <1>1, <1>3, <1>4 DEF Inv, TypeOK
<1>6. Steps'
  BY <1>1, <1>3, <1>4 DEF Inv, Steps
<1>7. FreshKeys'
  BY <1>1 DEF Inv, FreshKeys, Ids
<1>8. BestHolds'
  BY <1>1 DEF Inv, BestHolds, Keeps, Ids
<1> QED
  BY <1>5, <1>6, <1>7, <1>8 DEF Inv

LEMMA RestoreInv ==
  ASSUME Inv, Restore
  PROVE  Inv'
<1>1. /\ saved # NoCheckpoint /\ restores' = restores + 1 /\ pc' = "evaluate"
      /\ population' = saved.population /\ species' = saved.species
      /\ genome_indexer' = 1 /\ best' = Unevaluated /\ UNCHANGED <<config, saved>>
  BY DEF Restore
<1>2. IsRun(population', species') /\ Speciated(population', species')
  BY <1>1 DEF Inv, TypeOK, Steps
<1>3. restores' \in Nat \ {0}
  BY <1>1 DEF Inv, TypeOK
<1>4. TypeOK'
  BY <1>1, <1>2, <1>3 DEF Inv, TypeOK
<1>5. Steps'
  BY <1>1, <1>2 DEF Inv, Steps
<1>6. FreshKeys' /\ BestHolds'
  BY <1>3 DEF FreshKeys, BestHolds, Keeps
<1> QED
  BY <1>4, <1>5, <1>6 DEF Inv

LEMMA ExtinctionInv ==
  ASSUME Inv, Reproduce, NEW order \in Ascending, Stages(order) = {}, Extinction
  PROVE  Inv'
<1>1. /\ pc = "reproduce" /\ UNCHANGED <<config, best, saved, restores>> /\ species' = <<>>
      /\ \/ /\ population' = New(genome_indexer, PopSize) /\ genome_indexer' = genome_indexer + PopSize
            /\ pc' = "speciate"
         \/ population' = <<>> /\ pc' = "extinct" /\ UNCHANGED genome_indexer
  BY DEF Reproduce, Extinction
<1>2. Evaluated
  BY <1>1 DEF Inv, TypeOK, Steps, Evaluated
<1>3. genome_indexer \in Nat \ {0} /\ PopSize \in Nat \ {0}
  BY Constants DEF Inv, TypeOK
<1>4. /\ IsPopulation(population') /\ (pc' = "speciate" => DOMAIN population' # {})
      /\ \A id \in DOMAIN population' : id < genome_indexer'
      /\ genome_indexer' \in Nat \ {0}
  <2>1. CASE population' = <<>> /\ pc' = "extinct" /\ UNCHANGED genome_indexer
    <3>1. DOMAIN population' = {} /\ population' \in [{} -> Nat \cup {Unevaluated}]
      BY <2>1
    <3> QED
      BY <1>3, <2>1, <3>1, FS_EmptySet DEF IsPopulation
  <2>2. CASE /\ population' = New(genome_indexer, PopSize) /\ genome_indexer' = genome_indexer + PopSize
             /\ pc' = "speciate"
    <3> DEFINE N == New(genome_indexer, PopSize)
    <3>1. /\ IsPopulation(N) /\ DOMAIN N # {} /\ DOMAIN N = genome_indexer .. (genome_indexer + PopSize - 1)
      BY <1>3, NewIsPopulation
    <3> HIDE DEF N
    <3>2. population' = N
      BY <2>2 DEF N
    <3>3. \A id \in DOMAIN N : id < genome_indexer'
      BY <1>3, <2>2, <3>1
    <3> QED
      BY <1>3, <2>2, <3>1, <3>2, <3>3
  <2> QED
    BY <1>1, <2>1, <2>2
<1>5. DOMAIN species' = {} /\ IsFiniteSet(DOMAIN species') /\ Cardinality(DOMAIN species') = 0
  BY <1>1, FS_EmptySet
<1>6. TypeOK'
  BY <1>1, <1>4, <1>5 DEF Inv, TypeOK, IsRun
<1>7. Steps'
  <2>1. Cardinality(DOMAIN population') \in Nat
    BY <1>4, FS_CardinalityType DEF IsPopulation
  <2> QED
    BY <1>1, <1>4, <1>5, <2>1 DEF Inv, Steps, Ids, Sids
<1>8. FreshKeys'
  BY <1>4 DEF FreshKeys, Ids
<1>9. BestHolds'
  <2>1. ~Keeps
    <3>1. config \in ConfigType
      BY DEF Inv, TypeOK
    <3> QED
      BY <1>2, <3>1, FittestStays DEF Keeps
  <2> QED
    BY <1>1, <2>1 DEF BestHolds, Keeps
<1> QED
  BY <1>6, <1>7, <1>8, <1>9 DEF Inv

LEMMA NextGenerationInv ==
  ASSUME Inv, Reproduce, NEW order \in Ascending, Stages(order) # {},
         NextGeneration(order, Stages(order))
  PROVE  Inv'
<1> DEFINE stages == Stages(order)
<1>1. pc = "reproduce" /\ UNCHANGED <<config, best, saved, restores>>
  BY DEF Reproduce
<1>2. Evaluated /\ TypeOK /\ FreshKeys /\ genome_indexer \in Nat \ {0}
  BY <1>1 DEF Inv, TypeOK, Steps, Evaluated
<1>3. stages \in SUBSET DOMAIN order
  BY DEF Stages
<1>4. PICK elites, first, count : IsGeneration(order, stages, elites, first, count)
  BY <1>2, <1>3, NextGenerationStep
<1>5. pc' = "speciate" /\ genome_indexer' \in Nat \ {0} /\ genome_indexer' >= genome_indexer
  BY <1>4 DEF IsGeneration
<1>6. /\ IsPopulation(population')
      /\ DOMAIN population' = Carried(stages, elites) \cup Bred(stages, first, count)
      /\ Carried(stages, elites) \in SUBSET Ids
      /\ Bred(stages, first, count) \in SUBSET (genome_indexer .. genome_indexer' - 1)
  BY <1>2, <1>3, <1>4, NewPopulationOf
<1>7. /\ DOMAIN population' # {} /\ IsFiniteSet(DOMAIN species')
      /\ Cardinality(DOMAIN population') >= Cardinality(DOMAIN species')
  BY <1>2, <1>3, <1>4, EnoughGenomes
<1>8. \A sid \in DOMAIN species' : IsSpecies(species'[sid])
  <2>1. species' = [sid \in {order[i] : i \in stages} |-> WithMembers(Updated(species[sid]), {})]
    BY <1>4 DEF IsGeneration
  <2>2. \A m, h, p : IsSpecies(Species(m, h, p))
    BY DEF IsSpecies, Species
  <2> QED
    BY <2>1, <2>2 DEF WithMembers
<1>9. TypeOK'
  BY <1>1, <1>2, <1>5, <1>6, <1>7, <1>8 DEF TypeOK, IsRun
<1>10. Steps'
  BY <1>1, <1>5, <1>7 DEF Inv, Steps, Ids, Sids
<1>11. FreshKeys'
  <2> SUFFICES ASSUME restores = 0, NEW id \in DOMAIN population' PROVE id < genome_indexer'
    BY <1>1 DEF FreshKeys, Ids
  <2>1. CASE id \in Carried(stages, elites)
    <3>1. id < genome_indexer /\ id \in Nat
      <4>1. id \in Ids
        BY <1>6, <2>1
      <4> QED
        BY <1>2, <4>1 DEF FreshKeys, Evaluated, IsRun, IsPopulation, Ids
    <3> QED
      BY <1>2, <1>5, <3>1
  <2>2. CASE id \in Bred(stages, first, count)
    <3>1. id \in genome_indexer .. genome_indexer' - 1
      BY <1>6, <2>2
    <3> QED
      BY <1>2, <1>5, <3>1
  <2> QED
    BY <1>6, <2>1, <2>2
<1>12. BestHolds'
  <2> SUFFICES ASSUME Keeps
               PROVE  /\ \A id \in DOMAIN population' : population'[id] <= best
                      /\ \E id \in DOMAIN population' : population'[id] = best
    BY <1>1 DEF BestHolds, Keeps, Ids
  <2>1. (\A id \in Ids : population[id] <= best) /\ \E id \in Ids : population[id] = best
    BY <1>1 DEF Inv, BestHolds
  <2> QED
    BY <1>2, <1>4, <2>1, BestSurvives
<1> QED
  BY <1>9, <1>10, <1>11, <1>12 DEF Inv

LEMMA ReproduceCases ==
  ASSUME Reproduce
  PROVE  \E order \in Ascending :
           \/ Stages(order) = {} /\ Extinction
           \/ Stages(order) # {} /\ NextGeneration(order, Stages(order))
BY DEF Reproduce, Stages

LEMMA ReproduceInv ==
  ASSUME Inv, Reproduce
  PROVE  Inv'
BY ReproduceCases, ExtinctionInv, NextGenerationInv

LEMMA NextInv ==
  ASSUME Inv, [Next]_vars
  PROVE  Inv'
<1>1. CASE Next
  BY <1>1, FoundInv, EvaluateInv, LastGenerationInv, ReproduceInv, SpeciateInv, RestoreInv DEF Next
<1>2. CASE UNCHANGED vars
  <2>1. /\ UNCHANGED <<config, pc, population, species, genome_indexer, best, saved, restores>>
        /\ Ids' = Ids /\ Sids' = Sids
    BY <1>2 DEF vars, Ids, Sids
  <2>2. TypeOK'
    BY <2>1 DEF Inv, TypeOK
  <2>3. Steps'
    BY <2>1 DEF Inv, Steps
  <2>4. FreshKeys' /\ BestHolds'
    BY <2>1 DEF Inv, FreshKeys, BestHolds, Keeps
  <2> QED
    BY <2>2, <2>3, <2>4 DEF Inv
<1> QED
  BY <1>1, <1>2

LEMMA Invariance == Spec => []Inv
<1> QED
  BY InitInv, NextInv, PTL DEF Spec

\* No generation evaluates an empty population, and speciate finds a
\* representative for every species, whatever died out, was bred with or
\* without elitism, or was restored from a checkpoint.
THEOREM NeverStarvesHolds == Spec => []NeverStarves
<1>1. Inv => NeverStarves
  BY DEF Inv, Steps, Speciated, NeverStarves, Ids, Sids
<1> QED
  BY <1>1, Invariance, PTL

\* With elitism, species elitism and species ranked by their best member, a
\* process that was not restarted never loses the best genome it has seen.
THEOREM BestIsKeptHolds == Spec => []BestIsKept
<1>1. ASSUME Inv PROVE BestIsKept
  <2> SUFFICES ASSUME Keeps, pc = "reproduce" PROVE best = Max(Range(population))
    BY DEF BestIsKept, Keeps
  <2> DEFINE V == Range(population)
  <2>1. (\A id \in Ids : population[id] <= best) /\ \E id \in Ids : population[id] = best
    BY <1>1 DEF Inv, BestHolds
  <2>2. V = {population[id] : id \in Ids} /\ population \in [Ids -> Nat]
    BY <1>1 DEF Range, Ids, Inv, Steps
  <2>3. best \in V /\ (\A v \in V : best >= v) /\ \A v \in V : v \in Nat
    BY <2>1, <2>2
  <2> HIDE DEF V
  <2>4. Max(V) \in V /\ \A v \in V : Max(V) >= v
    BY <2>3 DEF Max
  <2>5. best >= Max(V) /\ Max(V) >= best /\ best \in Nat /\ Max(V) \in Nat
    BY <2>3, <2>4
  <2>6. best = Max(V)
    BY <2>5
  <2> QED
    BY <2>6 DEF V
<1> QED
  BY <1>1, Invariance, PTL

-----------------------------------------------------------------------------
(* What a reproduction may not lose. *)

\* A member that has fewer than Elitism others as fit as itself is among the
\* elites of its species.
LEMMA RetainedAreElites ==
  ASSUME NEW members, IsFiniteSet(members), NEW E \in Elites(members), NEW m \in members,
         Cardinality({o \in members \ {m} : population[o] >= population[m]}) < Elitism
  PROVE  m \in E
<1> DEFINE O == {o \in members \ {m} : population[o] >= population[m]}
<1>1. /\ E \in SUBSET members /\ IsFiniteSet(E) /\ Cardinality(E) \in 0 .. Elitism
      /\ \A e \in E, x \in members \ E : population[x] <= population[e]
      /\ Cardinality(E) < Elitism => E = members
  BY ElitesOf
<1>2. SUFFICES ASSUME m \notin E PROVE FALSE
  OBVIOUS
<1>3. Cardinality(E) = Elitism
  BY <1>1, <1>2, Constants
<1>4. E \in SUBSET O /\ O \in SUBSET members
  BY <1>1, <1>2
<1> HIDE DEF O
<1>5. IsFiniteSet(O)
  BY <1>4, FS_Subset
<1>6. Cardinality(E) <= Cardinality(O) /\ Cardinality(O) \in Nat
  BY <1>4, <1>5, FS_Subset, FS_CardinalityType
<1>7. Cardinality(O) < Elitism
  BY DEF O
<1> QED
  BY <1>3, <1>6, <1>7, Constants

\* The members of a surviving species that can be elites are in the next
\* generation unchanged: no child gets the key of an elite.
THEOREM ElitesRetainedHolds == Spec => ElitesRetainedUnrestored
<1>1. ASSUME Inv, [Next]_vars, pc = "reproduce", pc' = "speciate", restores = 0
      PROVE  Retained
  <2>1. Reproduce
    BY <1>1 DEF Next, vars, Found, Evaluate, LastGeneration, Speciate, EndGeneration, Restore
  <2>2. PICK order \in Ascending :
          \/ Stages(order) = {} /\ Extinction
          \/ Stages(order) # {} /\ NextGeneration(order, Stages(order))
    BY <2>1, ReproduceCases
  <2>3. CASE Extinction
    <3>1. DOMAIN species' = {}
      BY <2>3 DEF Extinction
    <3> QED
      BY <3>1 DEF Retained
  <2>4. CASE Stages(order) # {} /\ NextGeneration(order, Stages(order))
    <3> DEFINE stages == Stages(order)
    <3>1. /\ Evaluated /\ FreshKeys /\ genome_indexer \in Nat \ {0} /\ restores = 0
          /\ stages \in SUBSET DOMAIN order
      BY <1>1 DEF Inv, TypeOK, Steps, Evaluated, Stages
    <3>2. PICK elites, first, count : IsGeneration(order, stages, elites, first, count)
      BY <2>4, <3>1, NextGenerationStep
    <3>3. ASSUME NEW i \in stages, NEW e \in elites[i]
          PROVE  e \in DOMAIN population' /\ population'[e] = population[e]
      <4> HIDE DEF stages
      <4> QED
        BY <3>1, <3>2, <3>3, ElitesStay
    <3> SUFFICES ASSUME NEW sid \in DOMAIN species', NEW m \in species[sid].members,
                        Cardinality({o \in species[sid].members \ {m} : population[o] >= population[m]}) < Elitism
                 PROVE  m \in DOMAIN population' /\ population'[m] = population[m]
      BY DEF Retained
    <3>4. PICK i \in stages : order[i] = sid
      BY <3>2 DEF IsGeneration
    <3> DEFINE members == species[sid].members
    <3>5. IsFiniteSet(members)
      <4>1. sid \in Sids
        <5>1. IsFiniteSet(Sids)
          BY <3>1 DEF Evaluated, IsRun, Sids
        <5> QED
          BY <3>1, <3>4, <5>1, Sorted
      <4> QED
        BY <3>1, <4>1, MembersOf
    <3>6. elites[i] \in Elites(members)
      BY <3>2, <3>4 DEF IsGeneration
    <3>7. m \in elites[i]
      BY <3>5, <3>6, RetainedAreElites
    <3> QED
      BY <3>3, <3>4, <3>7
  <2> QED
    BY <2>2, <2>3, <2>4
<1>2. Inv /\ [Next]_vars => [pc = "reproduce" /\ pc' = "speciate" /\ restores = 0 => Retained]_vars
  BY <1>1
<1> QED
  BY <1>2, Invariance, PTL DEF Spec, ElitesRetainedUnrestored

\* The last places of the order, at most species_elitism of them, survive.
LEMMA LastPlaces ==
  ASSUME Evaluated, config \in ConfigType, NEW order \in Ascending,
         NEW n, n = Cardinality(Sids), NEW c, c = config.species_elitism,
         NEW low \in 1 .. n + 1, n - low < c
  PROVE  /\ low .. n \in SUBSET Stages(order) /\ IsFiniteSet(low .. n)
         /\ Cardinality(low .. n) = n + 1 - low
<1>1. IsFiniteSet(Sids) /\ c \in Nat
  BY DEF Evaluated, IsRun, Sids, ConfigType
<1>2. n \in Nat /\ DOMAIN order = 1 .. n
  BY <1>1, Sorted
<1>3. ASSUME NEW i \in low .. n PROVE i \in Stages(order)
  <2>1. i \in 1 .. n /\ n - i < c
    BY <1>1, <1>2
  <2>2. i \notin Stagnant(order)
    <3>1. SUFFICES ASSUME i \in Stagnant(order) PROVE FALSE
      OBVIOUS
    <3>2. n - i >= c
      BY <3>1, LastPlacesStay
    <3> QED
      BY <1>1, <1>2, <2>1, <3>2
  <2> QED
    BY <1>2, <2>1, <2>2 DEF Stages
<1>4. IsFiniteSet(low .. n) /\ Cardinality(low .. n) = n + 1 - low
  <2>1. low \in Int /\ n \in Int /\ low <= n + 1
    BY <1>2
  <2>2. IsFiniteSet(low .. n) /\ Cardinality(low .. n) = IF low > n THEN 0 ELSE n - low + 1
    BY <2>1, FS_Interval
  <2> QED
    BY <2>1, <2>2
<1> QED
  BY <1>3, <1>4

\* After a reproduction the species left are those at Stages(order).
LEMMA SpeciesLeft ==
  ASSUME Inv, Reproduce
  PROVE  \E order \in Ascending : DOMAIN species' = {order[i] : i \in Stages(order)}
<1>1. PICK order \in Ascending :
        \/ Stages(order) = {} /\ Extinction
        \/ Stages(order) # {} /\ NextGeneration(order, Stages(order))
  BY ReproduceCases
<1>2. CASE Stages(order) = {} /\ Extinction
  <2>1. DOMAIN species' = {} /\ {order[i] : i \in Stages(order)} = {}
    BY <1>2 DEF Extinction
  <2> QED
    BY <2>1
<1>3. CASE NextGeneration(order, Stages(order))
  BY <1>3 DEF NextGeneration
<1> QED
  BY <1>1, <1>2, <1>3

\* Stagnation leaves species_elitism species, and for every species it removes
\* at least so many that are no less fit.
THEOREM SpeciesElitesHold == Spec => SpeciesElitesKept
<1> DEFINE c == config.species_elitism
           n == Cardinality(Sids)
           F(sid) == FitnessOf(species[sid].members)
           Better(gone) == {sid \in DOMAIN species' : F(sid) >= F(gone)}
<1>1. ASSUME Inv, [Next]_vars, pc = "reproduce", pc' \in {"speciate", "extinct"}
      PROVE  /\ Cardinality(DOMAIN species') >= Min({c, n})
             /\ \A gone \in Sids \ DOMAIN species' : Cardinality(Better(gone)) >= c
  <2>1. Reproduce
    BY <1>1 DEF Next, vars, Found, Evaluate, LastGeneration, Speciate, EndGeneration, Restore
  <2>2. PICK order \in Ascending : DOMAIN species' = {order[i] : i \in Stages(order)}
    BY <1>1, <2>1, SpeciesLeft
  <2>3. Evaluated /\ config \in ConfigType /\ c \in Nat
    BY <1>1 DEF Inv, TypeOK, Steps, Evaluated, ConfigType
  <2>4. IsFiniteSet(Sids)
    BY <2>3 DEF Evaluated, IsRun, Sids
  <2>5. /\ n \in Nat /\ DOMAIN order = 1 .. n /\ IsFiniteSet(1 .. n)
        /\ \A i, j \in 1 .. n : order[i] = order[j] => i = j
        /\ \A sid \in Sids : \E i \in 1 .. n : order[i] = sid
        /\ \A i, j \in 1 .. n : i < j => F(order[i]) <= F(order[j])
    BY <2>4, Sorted
  <2>6. Stages(order) \in SUBSET (1 .. n) /\ IsFiniteSet(Stages(order))
    BY <2>5, FS_Subset DEF Stages
  <2>7. IsFiniteSet(DOMAIN species')
    <3>1. \A i, j \in Stages(order) : order[i] = order[j] => i = j
      BY <2>5, <2>6
    <3> QED
      BY <2>2, <2>6, <3>1, ImageSize
  <2>8. ASSUME NEW low \in 1 .. n + 1, n - low < c
        PROVE  /\ IsFiniteSet(low .. n) /\ Cardinality(low .. n) = n + 1 - low
               /\ \A i \in low .. n : order[i] \in DOMAIN species'
               /\ \A i, j \in low .. n : order[i] = order[j] => i = j
    <3>1. /\ low .. n \in SUBSET Stages(order) /\ IsFiniteSet(low .. n)
          /\ Cardinality(low .. n) = n + 1 - low
      BY <2>3, <2>8, LastPlaces
    <3> QED
      BY <2>2, <2>5, <2>6, <3>1
  <2>9. Min({c, n}) = IF c <= n THEN c ELSE n
    BY <2>3, <2>5, Smaller
  <2>10. Cardinality(DOMAIN species') >= Min({c, n})
    <3> DEFINE low == n + 1 - Min({c, n})
    <3>1. low \in 1 .. n + 1 /\ n - low < c /\ n + 1 - low = Min({c, n})
      BY <2>3, <2>5, <2>9
    <3> HIDE DEF low, n, c
    <3> DEFINE I == low .. n
    <3>2. /\ IsFiniteSet(I) /\ Cardinality(I) = Min({c, n}) /\ \A i \in I : order[i] \in DOMAIN species'
          /\ \A i, j \in I : order[i] = order[j] => i = j
      BY <2>8, <3>1
    <3> HIDE DEF I
    <3>3. Cardinality(DOMAIN species') >= Cardinality(I)
      BY <2>7, <3>2, OneForEach
    <3> QED
      BY <3>2, <3>3
  <2>11. ASSUME NEW gone \in Sids \ DOMAIN species'
         PROVE  Cardinality(Better(gone)) >= c
    <3>1. PICK g \in 1 .. n : order[g] = gone
      BY <2>5
    <3>2. g \in Stagnant(order)
      BY <2>2, <2>5, <2>11, <3>1 DEF Stages
    <3>3. n - g >= c
      BY <3>2, LastPlacesStay
    <3> DEFINE low == n + 1 - c
    <3>4. low \in 1 .. n + 1 /\ n - low < c /\ n + 1 - low = c /\ g < low
      BY <2>3, <2>5, <3>1, <3>3
    <3> DEFINE I == low .. n  B == Better(gone)
    <3>5. /\ IsFiniteSet(I) /\ Cardinality(I) = c /\ \A i \in I : order[i] \in DOMAIN species'
          /\ \A i, j \in I : order[i] = order[j] => i = j
      <4> HIDE DEF low, n, c
      <4> QED
        BY <2>8, <3>4
    <3>6. \A i \in I : order[i] \in B
      <4> SUFFICES ASSUME NEW i \in I PROVE F(order[i]) >= F(gone)
        BY <3>5
      <4>1. i \in 1 .. n /\ g < i
        <5> HIDE DEF n, c
        <5> QED
          BY <2>3, <2>5, <3>1, <3>4
      <4>2. F(order[g]) <= F(order[i])
        <5> HIDE DEF F, n
        <5> QED
          BY <2>5, <3>1, <4>1
      <4> QED
        BY <3>1, <4>2
    <3>7. IsFiniteSet(B)
      BY <2>7, FS_Subset
    <3> HIDE DEF I, B
    <3>8. Cardinality(B) >= Cardinality(I)
      BY <3>5, <3>6, <3>7, OneForEach
    <3> QED
      BY <3>5, <3>8 DEF B
  <2> QED
    BY <2>10, <2>11
<1>2. Inv /\ [Next]_vars =>
        [pc = "reproduce" /\ pc' \in {"speciate", "extinct"} =>
           /\ Cardinality(DOMAIN species') >= Min({config.species_elitism, Cardinality(Sids)})
           /\ \A gone \in Sids \ DOMAIN species' :
                Cardinality({sid \in DOMAIN species' :
                  FitnessOf(species[sid].members) >= FitnessOf(species[gone].members)}) >= config.species_elitism]_vars
  BY <1>1
<1> QED
  BY <1>2, Invariance, PTL DEF Spec, SpeciesElitesKept
=============================================================================

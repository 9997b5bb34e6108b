------------------------------ MODULE FoldFacts ------------------------------
(***************************************************************************)
(* What the proofs need of the data the models are made of: induction over *)
(* finite sets and over the naturals, the folds and the sums of the        *)
(* community modules, extremes, sequences, sorted sets, recursion and      *)
(* division.  The induction theorems of the library take a predicate; here *)
(* the induction is over the set of the good ones, which every prover can  *)
(* be given.                                                               *)
(***************************************************************************)
EXTENDS SortedSets, SequencesExt, FiniteSetsExt, Functions, FiniteSetTheorems, SequenceTheorems, TLAPS

\* A set of sets that holds a finite set of which every smaller one is good is
\* good for the whole: the minimal set that is not good cannot be.
LEMMA FiniteInduction ==
  ASSUME NEW S, IsFiniteSet(S), NEW Good,
         \A T \in SUBSET S : (\A x \in T : T \ {x} \in Good) => T \in Good
  PROVE  \A T \in SUBSET S : T \in Good
<1> DEFINE Bad == {T \in SUBSET S : T \notin Good}
           Less == StrictSubsetOrdering(S)
<1>1. SUFFICES ASSUME Bad # {} PROVE FALSE
  OBVIOUS
<1>2. FiniteSubsetsOf(S) = SUBSET S
  BY FS_FiniteSubsetsOfFinite
<1>3. IsWellFoundedOn(Less, SUBSET S)
  BY <1>2, FS_StrictSubsetOrderingWellFounded
<1>4. PICK T \in Bad : \A U \in Bad : <<U, T>> \notin Less
  <2>1. Bad \subseteq SUBSET S
    OBVIOUS
  <2> HIDE DEF Bad, Less
  <2> QED BY <1>1, <1>3, <2>1, WFMin
<1>5. ASSUME NEW x \in T PROVE T \ {x} \in Good
  <2>1. <<T \ {x}, T>> \in Less
    <3>1. T \in SUBSET S /\ T \ {x} \in SUBSET S /\ T \ {x} # T
      BY <1>5
    <3> QED BY <3>1 DEF StrictSubsetOrdering
  <2>2. T \ {x} \in SUBSET S
    OBVIOUS
  <2> HIDE DEF Less
  <2> QED BY <2>1, <2>2, <1>4
<1> QED BY <1>4, <1>5

\* The same over the naturals.
LEMMA NatInductionOnSets ==
  ASSUME NEW Good, 0 \in Good, \A n \in Nat : n \in Good => n + 1 \in Good
  PROVE  \A n \in Nat : n \in Good
<1> DEFINE Bad == {n \in Nat : n \notin Good}
           Less == OpToRel(<, Nat)
<1>1. SUFFICES ASSUME Bad # {} PROVE FALSE
  OBVIOUS
<1>2. IsWellFoundedOn(Less, Nat)
  BY NatLessThanWellFounded
<1>3. PICK n \in Bad : \A m \in Bad : <<m, n>> \notin Less
  <2>1. Bad \subseteq Nat
    OBVIOUS
  <2> HIDE DEF Bad, Less
  <2> QED BY <1>1, <1>2, <2>1, WFMin
<1>4. n # 0 /\ n \in Nat
  OBVIOUS
<1>5. n - 1 \in Nat /\ n - 1 \notin Good
  BY <1>4
<1>6. <<n - 1, n>> \in Less
  BY <1>4, <1>5 DEF OpToRel
<1> QED BY <1>3, <1>5, <1>6

-----------------------------------------------------------------------------
(* Folds                                                                   *)

\* What the recursion of a fold asks of its function, step by step: next[x, v]
\* is the value with x on top of v, pick[T] the element taken from T first.
IsFold(g, S, base, next, pick) ==
  \A T \in SUBSET S : g[T] = IF T = {} THEN base ELSE next[<<pick[T], g[T \ {pick[T]}]>>]

\* Over a finite set there is such a function, and its values are where next
\* stays.
LEMMA FoldExists ==
  ASSUME NEW S, IsFiniteSet(S), NEW V, NEW base \in V, NEW next \in [S \X V -> V],
         NEW pick, \A T \in SUBSET S : T # {} => pick[T] \in T
  PROVE  \E g \in [SUBSET S -> V] : IsFold(g, S, base, next, pick)
<1> DEFINE Size(T) == Cardinality(T)
           Upto(n) == {T \in SUBSET S : Size(T) <= n}
           Solves(g, n) == \A T \in Upto(n) :
             g[T] = IF T = {} THEN base ELSE next[<<pick[T], g[T \ {pick[T]}]>>]
           Good == {n \in Nat : \E g \in [Upto(n) -> V] : Solves(g, n)}
<1>1. ASSUME NEW T \in SUBSET S
      PROVE  /\ Size(T) \in Nat /\ Size(T) <= Size(S)
             /\ Size(T) = 0 <=> T = {}
             /\ T # {} => /\ pick[T] \in S /\ T \ {pick[T]} \in SUBSET S
                          /\ Size(T \ {pick[T]}) = Size(T) - 1
  <2>1. IsFiniteSet(T) /\ Size(T) <= Size(S)
    BY FS_Subset
  <2>2. Size(T) \in Nat /\ (Size(T) = 0 <=> T = {})
    BY <2>1, FS_CardinalityType, FS_EmptySet
  <2>3. T # {} => Size(T \ {pick[T]}) = Size(T) - 1
    BY <2>1, FS_RemoveElement
  <2> QED BY <2>1, <2>2, <2>3
<1> HIDE DEF Size
<1>2. 0 \in Good
  <2> DEFINE g == [T \in Upto(0) |-> base]
  <2>1. \A T \in Upto(0) : T = {} 
    <3> SUFFICES ASSUME NEW T \in Upto(0) PROVE T = {}
      OBVIOUS
    <3>1. T \in SUBSET S /\ Size(T) <= 0
      OBVIOUS
    <3>2. Size(T) \in Nat /\ (Size(T) = 0 <=> T = {})
      BY <3>1, <1>1
    <3> QED BY <3>1, <3>2
  <2>2. g \in [Upto(0) -> V] /\ Solves(g, 0)
    BY <2>1
  <2> HIDE DEF g
  <2> QED BY <2>2
<1>3. ASSUME NEW n \in Nat, n \in Good PROVE n + 1 \in Good
  <2>1. PICK g \in [Upto(n) -> V] : Solves(g, n)
    BY <1>3
  <2> DEFINE h == [T \in Upto(n + 1) |-> IF T = {} THEN base ELSE next[<<pick[T], g[T \ {pick[T]}]>>]]
  <2>2. ASSUME NEW T \in Upto(n + 1), T # {}
        PROVE  T \ {pick[T]} \in Upto(n) /\ pick[T] \in S
    BY <1>1, <2>2
  <2>3. h \in [Upto(n + 1) -> V]
    BY <2>2
  <2>4. ASSUME NEW T \in Upto(n)
        PROVE  T \in Upto(n + 1) /\ h[T] = g[T]
    BY <2>1, <1>1
  <2>5. Solves(h, n + 1)
    <3> SUFFICES ASSUME NEW T \in Upto(n + 1)
                 PROVE  h[T] = IF T = {} THEN base ELSE next[<<pick[T], h[T \ {pick[T]}]>>]
      OBVIOUS
    <3>1. h[T] = IF T = {} THEN base ELSE next[<<pick[T], g[T \ {pick[T]}]>>]
      OBVIOUS
    <3>2. T # {} => h[T \ {pick[T]}] = g[T \ {pick[T]}]
      BY <2>2, <2>4
    <3> HIDE DEF h
    <3> QED BY <3>1, <3>2
  <2> HIDE DEF h
  <2>6. n + 1 \in Nat
    OBVIOUS
  <2>7. \E f \in [Upto(n + 1) -> V] : Solves(f, n + 1)
    BY <2>3, <2>5
  <2> QED BY <2>6, <2>7
<1>4. Size(S) \in Good
  <2> HIDE DEF Good
  <2> QED BY <1>1, <1>2, <1>3, NatInductionOnSets
<1>5. PICK g \in [Upto(Size(S)) -> V] : Solves(g, Size(S))
  BY <1>4
<1>6. Upto(Size(S)) = SUBSET S
  BY <1>1
<1> QED BY <1>5, <1>6 DEF IsFold
\* A value that every step of a recursion over a finite set keeps in V is in V.
LEMMA FoldStays ==
  ASSUME NEW S, IsFiniteSet(S), NEW V, NEW pick, NEW g,
         \A T \in SUBSET S : T # {} => pick[T] \in T,
         g[{}] \in V,
         \A T \in SUBSET S : T # {} /\ g[T \ {pick[T]}] \in V => g[T] \in V
  PROVE  \A T \in SUBSET S : g[T] \in V
<1> DEFINE Good == {T \in SUBSET S : g[T] \in V}
<1>1. ASSUME NEW T \in SUBSET S, \A x \in T : T \ {x} \in Good
      PROVE  T \in Good
  <2>1. CASE T = {}
    BY <2>1
  <2>2. CASE T # {}
    <3>1. T \ {pick[T]} \in Good
      BY <1>1, <2>2
    <3> QED BY <2>2, <3>1
  <2> QED BY <2>1, <2>2
<1>2. \A T \in SUBSET S : T \in Good
  <2> HIDE DEF Good
  <2> QED BY <1>1, FiniteInduction
<1> QED BY <1>2

\* What a function makes of a finite set is finite.
LEMMA FiniteImage ==
  ASSUME NEW S, IsFiniteSet(S), NEW f
  PROVE  IsFiniteSet({f[x] : x \in S})
<1> DEFINE T == {f[x] : x \in S}
           g == [x \in S |-> f[x]]
<1>1. g \in Surjection(S, T)
  BY DEF Surjection
<1> HIDE DEF T, g
<1>2. IsFiniteSet(T)
  BY <1>1, FS_Surjection
<1> QED BY <1>2 DEF T

\* A finite set of integers that is not empty has a greatest and a least one.
LEMMA Extremes ==
  ASSUME NEW S \in SUBSET Int, IsFiniteSet(S)
  PROVE  \A T \in SUBSET S : T # {} => /\ \E m \in T : \A x \in T : m >= x
                                       /\ \E m \in T : \A x \in T : m <= x
<1> DEFINE Good == {T \in SUBSET S : T # {} => /\ \E m \in T : \A x \in T : m >= x
                                              /\ \E m \in T : \A x \in T : m <= x}
<1>1. ASSUME NEW T \in SUBSET S, \A x \in T : T \ {x} \in Good
      PROVE  T \in Good
  <2> SUFFICES ASSUME T # {} PROVE /\ \E m \in T : \A x \in T : m >= x
                                   /\ \E m \in T : \A x \in T : m <= x
    OBVIOUS
  <2>1. PICK y \in T : TRUE
    OBVIOUS
  <2>2. CASE T \ {y} = {}
    BY <2>2
  <2>3. CASE T \ {y} # {}
    <3>1. PICK m \in T \ {y} : \A x \in T \ {y} : m >= x
      BY <1>1, <2>1, <2>3
    <3>2. PICK l \in T \ {y} : \A x \in T \ {y} : l <= x
      BY <1>1, <2>1, <2>3
    <3>3. \A x \in T : (IF m >= y THEN m ELSE y) >= x
      BY <3>1
    <3>4. \A x \in T : (IF l <= y THEN l ELSE y) <= x
      BY <3>2
    <3> QED BY <3>3, <3>4
  <2> QED BY <2>2, <2>3
<1>2. \A T \in SUBSET S : T \in Good
  <2> HIDE DEF Good
  <2> QED BY <1>1, FiniteInduction
<1> QED BY <1>2
\* The next element of a fold from the left, which is taken off last.
LEMMA GreatestIndex ==
  ASSUME NEW n \in Nat
  PROVE  IsFiniteSet(1..n) /\ \A T \in SUBSET (1..n) : T # {} => Max(T) \in T
<1>1. IsFiniteSet(1..n)
  BY FS_Interval
<1>2. \A T \in SUBSET (1..n) : T # {} => \E m \in T : \A x \in T : m >= x
  BY <1>1, Extremes
<1> QED BY <1>1, <1>2 DEF Max

\* The extremes of two numbers.
LEMMA LesserAndGreater ==
  ASSUME NEW a \in Int, NEW b \in Int
  PROVE  /\ Max({a, b}) = IF a >= b THEN a ELSE b
         /\ Min({a, b}) = IF a <= b THEN a ELSE b
BY DEF Max, Min

-----------------------------------------------------------------------------
(* Sums                                                                    *)

\* The sums of h over the subsets of its domain, as the fold takes them.
AreSums(g, h) ==
  /\ IsFiniteSet(DOMAIN h) /\ h \in [DOMAIN h -> Int] /\ g \in [SUBSET DOMAIN h -> Int]
  /\ \A T \in SUBSET DOMAIN h :
       g[T] = IF T = {} THEN 0
              ELSE h[CHOOSE x \in T : TRUE] + g[T \ {CHOOSE x \in T : TRUE}]

\* There are such sums, and the fold over all of h is one of them.
LEMMA SumsExist ==
  ASSUME NEW h, IsFiniteSet(DOMAIN h), h \in [DOMAIN h -> Int]
  PROVE  \E g : AreSums(g, h) /\ FoldFunction(+, 0, h) = g[DOMAIN h]
<1> DEFINE S == DOMAIN h
           pick == [T \in SUBSET S |-> CHOOSE x \in T : TRUE]
           next == [p \in S \X Int |-> h[p[1]] + p[2]]
           Step(f) == [s \in SUBSET S |->
             IF s = {} THEN 0
             ELSE h[CHOOSE x \in s : TRUE] + f[s \ {CHOOSE x \in s : TRUE}]]
           iter == CHOOSE iter : iter = Step(iter)
<1>1. IsFiniteSet(S) /\ \A T \in SUBSET S : T # {} => pick[T] \in T
  OBVIOUS
<1>2. next \in [S \X Int -> Int] /\ 0 \in Int
  OBVIOUS
<1>3. PICK g \in [SUBSET S -> Int] : IsFold(g, S, 0, next, pick)
  <2> HIDE DEF S, pick, next
  <2> QED BY <1>1, <1>2, FoldExists
<1>4. ASSUME NEW T \in SUBSET S, T # {}
      PROVE  g[T] = h[CHOOSE x \in T : TRUE] + g[T \ {CHOOSE x \in T : TRUE}]
  <2> DEFINE x == CHOOSE x \in T : TRUE
  <2>1. pick[T] = x /\ x \in S
    BY <1>4
  <2>2. T \ {x} \in SUBSET S
    OBVIOUS
  <2> HIDE DEF x
  <2>3. g[T] = next[<<x, g[T \ {x}]>>]
    <3> HIDE DEF S, pick, next
    <3> QED BY <1>3, <1>4, <2>1, Zenon DEF IsFold
  <2>4. next[<<x, g[T \ {x}]>>] = h[x] + g[T \ {x}]
    BY <2>1, <2>2
  <2> HIDE DEF next
  <2> QED BY <2>3, <2>4 DEF x
<1>5. g[{}] = 0
  <2> HIDE DEF S, pick, next
  <2> QED BY <1>3, Zenon DEF IsFold
<1>6. g = Step(g)
  <2>1. \A T \in SUBSET S : g[T] = IF T = {} THEN 0
          ELSE h[CHOOSE x \in T : TRUE] + g[T \ {CHOOSE x \in T : TRUE}]
    <3> HIDE DEF S
    <3> QED BY <1>4, <1>5, Zenon
  <2>2. g = [T \in SUBSET S |-> g[T]]
    OBVIOUS
  <2> QED BY <2>1, <2>2, Zenon
<1>7. iter = Step(iter)
  <2> HIDE DEF Step
  <2> QED BY <1>6, Zenon
<1>8. FoldFunction(+, 0, h) = iter[S]
  BY Zenon DEF FoldFunction, FoldFunctionOnSet, MapThenFoldSet
<1> HIDE DEF iter
<1>9. \A T \in SUBSET S : iter[T] = IF T = {} THEN 0
          ELSE h[CHOOSE x \in T : TRUE] + iter[T \ {CHOOSE x \in T : TRUE}]
  BY <1>7, Zenon
<1>10. \A T \in SUBSET S : iter[T] \in Int
  <2>1. iter[{}] \in Int
    <3>1. {} \in SUBSET S /\ 0 \in Int
      OBVIOUS
    <3> QED BY <1>9, <3>1
  <2>2. ASSUME NEW T \in SUBSET S, T # {}, iter[T \ {pick[T]}] \in Int
        PROVE  iter[T] \in Int
    <3>1. pick[T] = (CHOOSE x \in T : TRUE) /\ pick[T] \in S /\ h[pick[T]] \in Int
      BY <1>1, <2>2
    <3> HIDE DEF pick, S
    <3>2. iter[T] = h[pick[T]] + iter[T \ {pick[T]}]
      BY <1>9, <2>2, <3>1, Zenon
    <3> QED BY <2>2, <3>1, <3>2
  <2> HIDE DEF S, pick
  <2> QED BY <1>1, <2>1, <2>2, FoldStays
<1>11. iter \in [SUBSET S -> Int]
  <2>1. iter = [T \in SUBSET S |-> iter[T]]
    BY <1>7
  <2> HIDE DEF S, Step
  <2> QED BY <1>10, <2>1
<1> QED BY <1>8, <1>9, <1>11, Zenon DEF AreSums

\* A sum does not depend on which element is taken first.
LEMMA SumTakesAny ==
  ASSUME NEW g, NEW h, AreSums(g, h)
  PROVE  \A T \in SUBSET DOMAIN h : \A x \in T : g[T] = h[x] + g[T \ {x}]
<1> DEFINE S == DOMAIN h
           Good == {T \in SUBSET S : \A x \in T : g[T] = h[x] + g[T \ {x}]}
<1>1. /\ IsFiniteSet(S) /\ \A x \in S : h[x] \in Int
      /\ \A T \in SUBSET S : g[T] \in Int
      /\ \A T \in SUBSET S : T # {} => g[T] = h[CHOOSE x \in T : TRUE] + g[T \ {CHOOSE x \in T : TRUE}]
  BY DEF AreSums
<1> HIDE DEF S
<1>2. ASSUME NEW T \in SUBSET S, \A y \in T : T \ {y} \in Good
      PROVE  T \in Good
  <2> SUFFICES ASSUME NEW x \in T PROVE g[T] = h[x] + g[T \ {x}]
    OBVIOUS
  <2> DEFINE p == CHOOSE y \in T : TRUE
  <2>1. p \in T /\ g[T] = h[p] + g[T \ {p}]
    BY <1>1
  <2> HIDE DEF p
  <2>2. CASE x = p
    BY <2>1, <2>2
  <2>3. CASE x # p
    <3>1. g[T \ {p}] = h[x] + g[(T \ {p}) \ {x}]
      BY <1>2, <2>1, <2>3
    <3>2. g[T \ {x}] = h[p] + g[(T \ {x}) \ {p}]
      BY <1>2, <2>1, <2>3
    <3>3. (T \ {p}) \ {x} = (T \ {x}) \ {p}
      OBVIOUS
    <3>4. PICK rest \in Int : rest = g[(T \ {x}) \ {p}]
      BY <1>1
    <3>5. PICK a \in Int, b \in Int : a = h[p] /\ b = h[x]
      BY <1>1, <2>1
    <3>6. g[T \ {p}] = b + rest /\ g[T \ {x}] = a + rest
      BY <3>1, <3>2, <3>3, <3>4, <3>5, Zenon
    <3>7. g[T] = a + (b + rest) /\ h[x] + g[T \ {x}] = b + (a + rest)
      BY <2>1, <3>5, <3>6, Zenon
    <3> QED BY <3>7
  <2> QED BY <2>2, <2>3
<1>3. \A T \in SUBSET S : T \in Good
  <2> HIDE DEF Good
  <2> QED BY <1>1, <1>2, FiniteInduction
<1> QED BY <1>3 DEF S

\* Functions that agree have the same sums.
LEMMA SumsAgree ==
  ASSUME NEW g, NEW h, AreSums(g, h), NEW f, NEW k, AreSums(f, k),
         NEW S, S \subseteq DOMAIN h, S \subseteq DOMAIN k, \A x \in S : h[x] = k[x]
  PROVE  g[S] = f[S]
<1> DEFINE Good == {T \in SUBSET S : g[T] = f[T]}
<1>1. IsFiniteSet(S)
  BY FS_Subset DEF AreSums
<1>2. ASSUME NEW T \in SUBSET S, \A x \in T : T \ {x} \in Good
      PROVE  T \in Good
  <2>1. CASE T = {}
    BY <2>1 DEF AreSums
  <2>2. CASE T # {}
    <3> DEFINE p == CHOOSE x \in T : TRUE
    <3>1. p \in T
      BY <2>2
    <3>2. g[T] = h[p] + g[T \ {p}] /\ f[T] = k[p] + f[T \ {p}]
      BY <2>2 DEF AreSums
    <3> HIDE DEF p
    <3>3. g[T \ {p}] = f[T \ {p}] /\ h[p] = k[p]
      BY <1>2, <3>1
    <3> QED BY <3>2, <3>3
  <2> QED BY <2>1, <2>2
<1>3. \A T \in SUBSET S : T \in Good
  <2> HIDE DEF Good
  <2> QED BY <1>1, <1>2, FiniteInduction
<1> QED BY <1>3

\* What one entry more, or another in its place, does to a sum.
LEMMA SumWithEntry ==
  ASSUME NEW h, IsFiniteSet(DOMAIN h), h \in [DOMAIN h -> Int], NEW x,
         NEW k, DOMAIN k = DOMAIN h \cup {x}, k \in [DOMAIN k -> Int],
         \A y \in DOMAIN h \ {x} : k[y] = h[y]
  PROVE  /\ FoldFunction(+, 0, h) \in Int
         /\ FoldFunction(+, 0, k) =
              FoldFunction(+, 0, h) + k[x] - (IF x \in DOMAIN h THEN h[x] ELSE 0)
<1> DEFINE S == DOMAIN h
           rest == S \ {x}
           before == FoldFunction(+, 0, h)
           after == FoldFunction(+, 0, k)
<1>1. PICK g : AreSums(g, h) /\ before = g[S]
  BY SumsExist, Zenon
<1>2. IsFiniteSet(DOMAIN k)
  BY FS_AddElement
<1>3. PICK f : AreSums(f, k) /\ after = f[S \cup {x}]
  BY <1>2, SumsExist, Zenon
<1> HIDE DEF before, after
<1>4. f[S \cup {x}] = k[x] + f[rest]
  <2>1. (S \cup {x}) \ {x} = rest /\ S \cup {x} \in SUBSET DOMAIN k /\ x \in S \cup {x}
    OBVIOUS
  <2> HIDE DEF S, rest
  <2> QED BY <1>3, <2>1, SumTakesAny
<1>5. f[rest] = g[rest]
  <2>1. rest \subseteq DOMAIN h /\ rest \subseteq DOMAIN k /\ \A y \in rest : k[y] = h[y]
    OBVIOUS
  <2> HIDE DEF rest
  <2> QED BY <1>1, <1>3, <2>1, SumsAgree
<1>6. g[rest] \in Int /\ g[S] \in Int /\ k[x] \in Int /\ (x \in S => h[x] \in Int)
  BY <1>1 DEF AreSums
<1>7. g[S] = IF x \in S THEN h[x] + g[rest] ELSE g[rest]
  <2>1. CASE x \in S
    <3>1. S \in SUBSET DOMAIN h
      OBVIOUS
    <3> HIDE DEF S
    <3> QED BY <1>1, <2>1, <3>1, SumTakesAny
  <2>2. CASE x \notin S
    <3>1. rest = S
      BY <2>2
    <3> QED BY <2>2, <3>1
  <2> QED BY <2>1, <2>2
<1> HIDE DEF rest, S
<1>8. before = g[S] /\ after = k[x] + g[rest]
  BY <1>1, <1>3, <1>4, <1>5
<1>9. before \in Int /\ after = before + k[x] - (IF x \in S THEN h[x] ELSE 0)
  <2>1. CASE x \in S
    BY <1>6, <1>7, <1>8, <2>1
  <2>2. CASE x \notin S
    BY <1>6, <1>7, <1>8, <2>2
  <2> QED BY <2>1, <2>2
<1> QED BY <1>9, Zenon DEF S, before, after

\* Nothing sums to nothing.
LEMMA EmptySum ==
  ASSUME NEW h, DOMAIN h = {}, h \in [{} -> Int]
  PROVE  FoldFunction(+, 0, h) = 0
<1>1. PICK g : AreSums(g, h) /\ FoldFunction(+, 0, h) = g[DOMAIN h]
  BY FS_EmptySet, SumsExist
<1> QED BY <1>1 DEF AreSums

\* A sum takes any of its elements, element by element.
LEMMA SumTakes ==
  ASSUME NEW g, NEW h, AreSums(g, h), NEW T \in SUBSET DOMAIN h, NEW x \in T
  PROVE  g[T] = h[x] + g[T \ {x}]
BY SumTakesAny

\* The sum of a constant is as many times the constant.
LEMMA SumOfConstant ==
  ASSUME NEW h, IsFiniteSet(DOMAIN h), h \in [DOMAIN h -> Int], NEW c \in Int, \A x \in DOMAIN h : h[x] = c
  PROVE  FoldFunction(+, 0, h) = c * Cardinality(DOMAIN h)
<1>1. PICK g : AreSums(g, h) /\ FoldFunction(+, 0, h) = g[DOMAIN h]
  BY SumsExist
<1> DEFINE S == DOMAIN h
           Good == {T \in SUBSET S : g[T] = c * Cardinality(T)}
<1>2. ASSUME NEW T \in SUBSET S, \A x \in T : T \ {x} \in Good
      PROVE  T \in Good
  <2>1. CASE T = {}
    <3>1. g[T] = 0
      BY <1>1, <2>1 DEF AreSums
    <3>2. Cardinality(T) = 0
      BY <2>1, FS_EmptySet
    <3> QED BY <3>1, <3>2
  <2>2. CASE T # {}
    <3>1. PICK x \in T : TRUE
      BY <2>2
    <3>2. g[T] = h[x] + g[T \ {x}]
      <4>1. AreSums(g, h) /\ T \in SUBSET DOMAIN h /\ x \in T
        BY <1>1, <3>1
      <4> QED BY <4>1, SumTakes
    <3>3. g[T \ {x}] = c * Cardinality(T \ {x}) /\ h[x] = c
      BY <1>2
    <3>4. IsFiniteSet(T) /\ Cardinality(T \ {x}) = Cardinality(T) - 1
      BY FS_Subset, FS_RemoveElement
    <3>5. PICK k \in Int, r \in Int : k = Cardinality(T) /\ r = Cardinality(T \ {x})
      BY <3>4, FS_CardinalityType, FS_Subset
    <3>6. r = k - 1
      BY <3>4, <3>5
    <3>7. c + c * r = c * k
      BY <3>6
    <3>8. g[T] = c * k
      BY <3>2, <3>3, <3>5, <3>7
    <3> QED BY <3>5, <3>8
  <2> QED BY <2>1, <2>2
<1>3. S \in Good
  <2> HIDE DEF S, Good
  <2>1. IsFiniteSet(S)
    BY DEF S
  <2>2. \A T \in SUBSET S : (\A x \in T : T \ {x} \in Good) => T \in Good
    BY <1>2
  <2>3. \A T \in SUBSET S : T \in Good
    BY <2>1, <2>2, FiniteInduction, Zenon
  <2> QED BY <2>3
<1> QED BY <1>1, <1>3

-----------------------------------------------------------------------------
(* Sequences                                                               *)

\* A sequence of whatever it holds.
IsSeq(s) == s \in Seq(Range(s))

\* What has the indices of a sequence is one.
LEMMA SequenceFromDomain ==
  ASSUME NEW n \in Nat, NEW s, s = [i \in 1..n |-> s[i]]
  PROVE  IsSeq(s) /\ Len(s) = n /\ DOMAIN s = 1..n
<1>1. s \in Seq(Range(s))
  <2>1. \A i \in 1..n : s[i] \in Range(s)
    BY DEF Range
  <2>2. s \in [1..n -> Range(s)]
    BY <2>1
  <2> QED BY <2>2, SeqDef
<1> QED BY <1>1, LenProperties DEF IsSeq

\* A sequence of some set is one.
LEMMA SequencesAreSeqs ==
  ASSUME NEW S, NEW s \in Seq(S)
  PROVE  IsSeq(s)
<1>1. Len(s) \in Nat /\ s \in [1..Len(s) -> S]
  BY LenProperties
<1> QED BY <1>1, SequenceFromDomain

\* Elements of what sequences are put together from, and taken apart into.
LEMMA ConcatSeqs ==
  ASSUME NEW s, IsSeq(s), NEW t, IsSeq(t)
  PROVE  /\ IsSeq(s \o t) /\ Len(s) \in Nat /\ Len(t) \in Nat
         /\ DOMAIN s = 1..Len(s) /\ DOMAIN t = 1..Len(t)
         /\ DOMAIN (s \o t) = 1..(Len(s) + Len(t))
         /\ \A i \in 1..(Len(s) + Len(t)) :
              (s \o t)[i] = IF i <= Len(s) THEN s[i] ELSE t[i - Len(s)]
<1> DEFINE S == Range(s) \cup Range(t)
<1>1. s \in Seq(S) /\ t \in Seq(S)
  BY SeqMonotonic DEF IsSeq
<1> HIDE DEF S
<1>2. /\ s \o t \in Seq(S) /\ Len(s \o t) = Len(s) + Len(t)
      /\ \A i \in 1..(Len(s) + Len(t)) :
           (s \o t)[i] = IF i <= Len(s) THEN s[i] ELSE t[i - Len(s)]
  BY <1>1, ConcatProperties
<1> QED BY <1>1, <1>2, LenProperties, SequencesAreSeqs

LEMMA AppendSeqs ==
  ASSUME NEW s, IsSeq(s), NEW e
  PROVE  /\ IsSeq(Append(s, e)) /\ Len(s) \in Nat /\ DOMAIN s = 1..Len(s)
         /\ Len(Append(s, e)) = Len(s) + 1 /\ DOMAIN Append(s, e) = 1..(Len(s) + 1)
         /\ \A i \in 1..Len(s) : Append(s, e)[i] = s[i]
         /\ Append(s, e)[Len(s) + 1] = e
<1> DEFINE S == Range(s) \cup {e}
<1>1. s \in Seq(S) /\ e \in S
  BY SeqMonotonic DEF IsSeq
<1> HIDE DEF S
<1>2. /\ Append(s, e) \in Seq(S) /\ Len(Append(s, e)) = Len(s) + 1
      /\ \A i \in 1..Len(s) : Append(s, e)[i] = s[i]
      /\ Append(s, e)[Len(s) + 1] = e
  BY <1>1, AppendProperties
<1> QED BY <1>1, <1>2, LenProperties, SequencesAreSeqs

LEMMA HeadTailSeqs ==
  ASSUME NEW s, IsSeq(s), s # <<>>
  PROVE  /\ IsSeq(Tail(s)) /\ Len(s) \in Nat \ {0} /\ DOMAIN s = 1..Len(s)
         /\ Head(s) = s[1] /\ DOMAIN Tail(s) = 1..(Len(s) - 1)
         /\ \A i \in 1..(Len(s) - 1) : Tail(s)[i] = s[i + 1]
<1>1. s \in Seq(Range(s)) /\ Len(s) \in Nat /\ DOMAIN s = 1..Len(s)
  BY LenProperties DEF IsSeq
<1>2. Len(s) # 0
  BY <1>1, EmptySeq
<1>3. Tail(s) \in Seq(Range(s)) /\ Head(s) = s[1] /\ Len(Tail(s)) = Len(s) - 1
      /\ \A i \in 1..(Len(s) - 1) : Tail(s)[i] = s[i + 1]
  BY <1>1, HeadTailProperties
<1> QED BY <1>1, <1>2, <1>3, LenProperties, SequencesAreSeqs

\* The sequences of a sequence put together, one after another.
LEMMA FlattenGrows ==
  ASSUME NEW n \in Nat, NEW seqs, DOMAIN seqs = 1..n, seqs = [i \in 1..n |-> seqs[i]],
         NEW V, \A i \in 1..n : seqs[i] \in Seq(V)
  PROVE  \E run : /\ run[0] = <<>> /\ \A i \in 1..n : run[i] = run[i - 1] \o seqs[i]
                  /\ \A i \in 0..n : run[i] \in Seq(V)
                  /\ FlattenSeq(seqs) = run[n]
<1> DEFINE Step(f) == [i \in 1..Len(seqs) |-> IF i = 1 THEN seqs[i] ELSE f[i-1] \o seqs[i]]
           flatten == CHOOSE f : f = Step(f)
           Solves(f, j) == f = [i \in 1..j |-> IF i = 1 THEN seqs[i] ELSE f[i-1] \o seqs[i]]
           Good == {j \in Nat : \E f : Solves(f, j)}
           run == [i \in 0..n |-> IF i = 0 THEN <<>> ELSE flatten[i]]
<1>1. Len(seqs) = n /\ IsSeq(seqs)
  BY SequenceFromDomain
<1>2. FlattenSeq(seqs) = run[n]
  <2>1. CASE n = 0
    BY <1>1, <2>1 DEF FlattenSeq
  <2>2. CASE n # 0
    <3>1. FlattenSeq(seqs) = flatten[n]
      BY <1>1, <2>2, Zenon DEF FlattenSeq
    <3> HIDE DEF flatten
    <3> QED BY <2>2, <3>1
  <2> QED BY <2>1, <2>2
<1>3. 0 \in Good
  <2> DEFINE g == [i \in 1..0 |-> <<>>]
  <2>1. Solves(g, 0)
    OBVIOUS
  <2> HIDE DEF g
  <2> QED BY <2>1
<1>4. ASSUME NEW j \in Nat, j \in Good PROVE j + 1 \in Good
  <2>1. PICK f : Solves(f, j)
    BY <1>4
  <2> DEFINE h == [i \in 1..(j + 1) |-> IF i = 1 THEN seqs[i] ELSE f[i-1] \o seqs[i]]
  <2> DEFINE next(i) == IF i = 1 THEN seqs[i] ELSE f[i-1] \o seqs[i]
  <2>2. f = [i \in 1..j |-> next(i)] /\ h = [i \in 1..(j + 1) |-> next(i)]
    BY <2>1
  <2>3. \A i \in 1..j : h[i] = f[i]
    <3> HIDE DEF next, h
    <3> QED BY <2>2
  <2>4. \A i \in 1..(j + 1) : i # 1 => i - 1 \in 1..j
    OBVIOUS
  <2> HIDE DEF h
  <2>5. \A i \in 1..(j + 1) : next(i) = IF i = 1 THEN seqs[i] ELSE h[i-1] \o seqs[i]
    BY <2>3, <2>4
  <2>6. Solves(h, j + 1)
    <3> HIDE DEF next
    <3> QED BY <2>2, <2>5
  <2> HIDE DEF Solves
  <2> QED BY <2>6
<1>5. \A j \in Nat : j \in Good
  <2> HIDE DEF Good
  <2> QED BY <1>3, <1>4, NatInductionOnSets
<1>6. PICK f : f = Step(f)
  BY <1>1, <1>5
<1>7. flatten = Step(flatten)
  <2> HIDE DEF Step
  <2> QED BY <1>6, Zenon
<1> HIDE DEF flatten
<1>8. run[0] = <<>> /\ \A i \in 1..n : run[i] = flatten[i]
  OBVIOUS
<1>9. ASSUME NEW i \in 1..n PROVE run[i] = run[i - 1] \o seqs[i]
  <2>1. flatten[i] = IF i = 1 THEN seqs[i] ELSE flatten[i - 1] \o seqs[i]
    BY <1>1, <1>7
  <2>2. CASE i = 1
    <3>1. run[i - 1] = <<>> /\ seqs[i] \in Seq(V)
      BY <1>8, <2>2
    <3> QED BY <1>8, <2>1, <2>2, <3>1, ConcatEmptySeq
  <2>3. CASE i # 1
    <3>1. i - 1 \in 1..n
      BY <2>3
    <3> QED BY <1>8, <2>1, <2>3, <3>1
  <2> QED BY <2>2, <2>3
<1> HIDE DEF run
<1> DEFINE Typed == {i \in Nat : i <= n => run[i] \in Seq(V)}
<1>10. 0 \in Typed
  <2>1. <<>> \in Seq(V)
    OBVIOUS
  <2> QED BY <1>8, <2>1
<1>11. ASSUME NEW i \in Nat, i \in Typed PROVE i + 1 \in Typed
  <2> SUFFICES ASSUME i + 1 <= n PROVE run[i + 1] \in Seq(V)
    OBVIOUS
  <2>1. i + 1 \in 1..n /\ (i + 1) - 1 = i /\ run[i] \in Seq(V)
    BY <1>11
  <2>2. run[i + 1] = run[i] \o seqs[i + 1] /\ seqs[i + 1] \in Seq(V)
    BY <1>9, <2>1
  <2> QED BY <2>1, <2>2
<1>12. \A i \in Nat : i \in Typed
  <2> HIDE DEF Typed
  <2> QED BY <1>10, <1>11, NatInductionOnSets
<1>13. \A i \in 0..n : run[i] \in Seq(V)
  BY <1>12
<1> QED BY <1>2, <1>8, <1>9, <1>13

\* They are a sequence.
LEMMA FlattenIsSeq ==
  ASSUME NEW n \in Nat, NEW seqs, DOMAIN seqs = 1..n, seqs = [i \in 1..n |-> seqs[i]],
         NEW V, \A i \in 1..n : seqs[i] \in Seq(V)
  PROVE  IsSeq(FlattenSeq(seqs))
<1>1. PICK run : /\ run[0] = <<>> /\ \A i \in 1..n : run[i] = run[i - 1] \o seqs[i]
                 /\ \A i \in 0..n : run[i] \in Seq(V)
                 /\ FlattenSeq(seqs) = run[n]
  BY FlattenGrows, Zenon
<1>2. FlattenSeq(seqs) \in Seq(V)
  BY <1>1
<1> QED BY <1>2, SequencesAreSeqs

\* A finite set has an enumeration.
LEMMA EnumerationIsSeq ==
  ASSUME NEW S, IsFiniteSet(S)
  PROVE  SetToSeq(S) \in Seq(S)
<1>1. Cardinality(S) \in Nat /\ ExistsBijection(1..Cardinality(S), S)
  BY FS_CardinalityType
<1>2. \E f \in [1..Cardinality(S) -> S] : IsInjective(f)
  BY <1>1 DEF ExistsBijection, Bijection, Injection, IsInjective
<1>3. SetToSeq(S) \in [1..Cardinality(S) -> S]
  BY <1>2 DEF SetToSeq
<1> QED BY <1>1, <1>3

\* A relation that orders a set.
Orders(R, S) ==
  /\ \A x \in S : <<x, x>> \notin R
  /\ \A x, y \in S : x # y => <<x, y>> \in R \/ <<y, x>> \in R
  /\ \A x, y, z \in S : <<x, y>> \in R /\ <<y, z>> \in R => <<x, z>> \in R

\* Every place is taken by the element that has so many before it.
LEMMA PlacesAreTaken ==
  ASSUME NEW S, IsFiniteSet(S), NEW R, Orders(R, S)
  PROVE  /\ Cardinality(S) \in Nat /\ DOMAIN InOrder(S, R) = 1..Cardinality(S)
         /\ \A k \in 1..Cardinality(S) :
              /\ InOrder(S, R)[k] \in S
              /\ IsFiniteSet(AheadOf(S, R, InOrder(S, R)[k]))
              /\ Cardinality(AheadOf(S, R, InOrder(S, R)[k])) = k - 1
<1> DEFINE n == Cardinality(S)
           Ahead(x) == AheadOf(S, R, x)
           f == [x \in S |-> Cardinality(Ahead(x)) + 1]
<1>1. n \in Nat
  BY FS_CardinalityType
<1>2. \A x \in S : /\ IsFiniteSet(Ahead(x)) /\ Cardinality(Ahead(x)) \in Nat
                   /\ IsFiniteSet(Ahead(x) \cup {x}) /\ Cardinality(Ahead(x) \cup {x}) = Cardinality(Ahead(x)) + 1
                   /\ Ahead(x) \cup {x} \subseteq S
  <2> TAKE x \in S
  <2>1. IsFiniteSet(Ahead(x)) /\ x \notin Ahead(x)
    BY FS_Subset DEF Orders, AheadOf
  <2> HIDE DEF Ahead
  <2>2. Cardinality(Ahead(x)) \in Nat
    BY <2>1, FS_CardinalityType
  <2>3. IsFiniteSet(Ahead(x) \cup {x}) /\ Cardinality(Ahead(x) \cup {x}) = Cardinality(Ahead(x)) + 1
    BY <2>1, FS_AddElement
  <2> QED BY <2>1, <2>2, <2>3 DEF Ahead, AheadOf
<1>a. \A x \in S : f[x] = Cardinality(Ahead(x)) + 1
  OBVIOUS
<1> HIDE DEF f
<1>3. \A x \in S : f[x] \in 1..n
  <2> TAKE x \in S
  <2>1. Cardinality(Ahead(x) \cup {x}) <= n
    BY <1>2, FS_Subset, Zenon
  <2> HIDE DEF n, Ahead
  <2>2. Cardinality(Ahead(x)) \in Nat /\ Cardinality(Ahead(x)) + 1 <= n
    BY <1>2, <2>1
  <2> QED BY <1>1, <1>a, <2>2
<1>4. ASSUME NEW x \in S, NEW y \in S, <<x, y>> \in R PROVE f[x] < f[y]
  <2>1. Ahead(x) \cup {x} \subseteq Ahead(y)
    BY <1>4 DEF Orders, AheadOf
  <2>2. Cardinality(Ahead(x) \cup {x}) <= Cardinality(Ahead(y))
    BY <1>2, <2>1, FS_Subset, Zenon
  <2> HIDE DEF Ahead
  <2>3. /\ Cardinality(Ahead(x)) \in Nat /\ Cardinality(Ahead(y)) \in Nat
        /\ Cardinality(Ahead(x)) + 1 <= Cardinality(Ahead(y))
    BY <1>2, <2>2
  <2> QED BY <1>a, <2>3
<1>5. f \in Injection(S, 1..n)
  <2>1. f \in [S -> 1..n]
    BY <1>3 DEF f
  <2>2. \A x, y \in S : f[x] = f[y] => x = y
    <3> SUFFICES ASSUME NEW x \in S, NEW y \in S, x # y PROVE f[x] # f[y]
      OBVIOUS
    <3>1. f[x] \in Int /\ f[y] \in Int
      BY <1>1, <1>3
    <3>2. <<x, y>> \in R \/ <<y, x>> \in R
      BY DEF Orders
    <3> QED BY <1>4, <3>1, <3>2
  <2> HIDE DEF n
  <2> QED BY <2>1, <2>2 DEF Injection, IsInjective
<1>6. IsFiniteSet(1..n) /\ Cardinality(1..n) = n
  BY <1>1, FS_Interval
<1>7. f \in Surjection(S, 1..n)
  <2> QED BY <1>5, <1>6, FS_Injection, Zenon DEF n
<1>8. ASSUME NEW k \in 1..n
      PROVE  \E x \in S : Cardinality(Ahead(x)) = k - 1
  <2>1. PICK x \in S : f[x] = k
    <3> QED BY <1>7 DEF Surjection
  <2> HIDE DEF Ahead, n
  <2>2. Cardinality(Ahead(x)) \in Nat /\ Cardinality(Ahead(x)) + 1 = k
    BY <1>2, <1>a, <2>1
  <2> QED BY <1>1, <2>2
<1>9. \A k \in 1..n : InOrder(S, R)[k] = CHOOSE x \in S : Cardinality(Ahead(x)) = k - 1
  BY DEF InOrder
<1>10. DOMAIN InOrder(S, R) = 1..n
  BY DEF InOrder
<1>11. ASSUME NEW k \in 1..n
       PROVE  InOrder(S, R)[k] \in S /\ Cardinality(Ahead(InOrder(S, R)[k])) = k - 1
  BY <1>8, <1>9, <1>11, Zenon
<1>12. \A k \in 1..n : IsFiniteSet(Ahead(InOrder(S, R)[k]))
  BY <1>2, <1>11, Zenon
<1> HIDE DEF n
<1>13. QED BY <1>1, <1>10, <1>11, <1>12, Zenon DEF n

\* Every element has its place.
LEMMA AllArePlaced ==
  ASSUME NEW S, IsFiniteSet(S), NEW R, Orders(R, S), NEW x \in S
  PROVE  \E k \in 1..Cardinality(S) : InOrder(S, R)[k] = x
<1> DEFINE n == Cardinality(S)
           order == InOrder(S, R)
           A(y) == AheadOf(S, R, y)
           k == Cardinality(A(x)) + 1
<1>1. \A y \in S : IsFiniteSet(A(y)) /\ y \notin A(y) /\ A(y) \subseteq S
  <2> SUFFICES ASSUME NEW y \in S PROVE IsFiniteSet(A(y)) /\ y \notin A(y) /\ A(y) \subseteq S
    OBVIOUS
  <2>1. A(y) \subseteq S
    BY DEF AheadOf
  <2>2. IsFiniteSet(A(y))
    BY <2>1, FS_Subset
  <2> QED BY <2>1, <2>2 DEF AheadOf, Orders
<1>2. \A y \in S : Cardinality(A(y)) \in Nat
  <2> HIDE DEF A
  <2> QED BY <1>1, FS_CardinalityType
<1>3. \A y, z \in S : <<y, z>> \in R => Cardinality(A(y)) < Cardinality(A(z))
  <2> SUFFICES ASSUME NEW y \in S, NEW z \in S, <<y, z>> \in R
               PROVE  Cardinality(A(y)) < Cardinality(A(z))
    OBVIOUS
  <2>1. A(y) \cup {y} \subseteq A(z)
    BY DEF AheadOf, Orders
  <2> HIDE DEF A
  <2>2. IsFiniteSet(A(y) \cup {y}) /\ Cardinality(A(y) \cup {y}) = Cardinality(A(y)) + 1
    BY <1>1, FS_AddElement
  <2>3. Cardinality(A(y) \cup {y}) <= Cardinality(A(z))
    BY <1>1, <2>1, FS_Subset
  <2> QED BY <1>2, <2>2, <2>3
<1>4. n \in Nat /\ k \in 1..n
  <2>1. n \in Nat
    BY FS_CardinalityType
  <2> HIDE DEF A
  <2>2. A(x) \cup {x} \subseteq S /\ Cardinality(A(x) \cup {x}) = Cardinality(A(x)) + 1
    BY <1>1, FS_AddElement
  <2>3. Cardinality(A(x) \cup {x}) <= n
    BY <2>2, FS_Subset
  <2> HIDE DEF n
  <2> QED BY <1>2, <2>1, <2>2, <2>3
<1>5. order[k] \in S /\ Cardinality(A(order[k])) = k - 1
  BY <1>4, PlacesAreTaken
<1> HIDE DEF A, order
<1>6. Cardinality(A(order[k])) = Cardinality(A(x))
  BY <1>2, <1>5
<1> HIDE DEF k
<1>7. order[k] = x
  <2>1. order[k] # x => <<order[k], x>> \in R \/ <<x, order[k]>> \in R
    BY <1>5 DEF Orders
  <2>2. Cardinality(A(order[k])) \in Int /\ Cardinality(A(x)) \in Int
    BY <1>2, <1>5
  <2>3. Cardinality(A(order[k])) = Cardinality(A(x))
    BY <1>6
  <2> QED BY <1>3, <1>5, <2>1, <2>2, <2>3
<1> QED BY <1>4, <1>7 DEF order

\* What is chosen from a list is what is at the places, all of it.
LEMMA ChosenAreThose ==
  ASSUME NEW places, IsFiniteSet(places), \A i \in places : i \in Int, NEW list
  PROVE  /\ Cardinality(places) \in Nat /\ DOMAIN Chosen(list, places) = 1..Cardinality(places)
         /\ \A k \in 1..Cardinality(places) : \E i \in places : Chosen(list, places)[k] = list[i]
         /\ \A i \in places : \E k \in 1..Cardinality(places) : Chosen(list, places)[k] = list[i]
<1> DEFINE R == {p \in places \X places : p[1] < p[2]}
           order == InOrder(places, R)
<1>1. IsFiniteSet(places)
  OBVIOUS
<1>2. Orders(R, places)
  BY DEF Orders
<1> HIDE DEF R
<1>3. Cardinality(places) \in Nat /\ \A k \in 1..Cardinality(places) : order[k] \in places
  BY <1>1, <1>2, PlacesAreTaken
<1>4. \A i \in places : \E k \in 1..Cardinality(places) : order[k] = i
  BY <1>1, <1>2, AllArePlaced
<1> HIDE DEF order
<1>5. Chosen(list, places) = [k \in 1..Cardinality(places) |-> list[order[k]]]
  BY Zenon DEF Chosen, order, R
<1> QED BY <1>3, <1>4, <1>5

\* A fold over the places of a list, the last one on top: it has a value for every
\* set of places.
IsListFold(g, n, base, next) ==
  \A T \in SUBSET (1..n) :
    g[T] = IF T = {} THEN base ELSE next[<<Max(T), g[T \ {Max(T)}]>>]

LEMMA ListFoldExists ==
  ASSUME NEW n \in Nat, NEW V, NEW base \in V, NEW next \in [(1..n) \X V -> V]
  PROVE  \E g \in [SUBSET (1..n) -> V] : IsListFold(g, n, base, next)
<1> DEFINE pick == [T \in SUBSET (1..n) |-> Max(T)]
<1>1. IsFiniteSet(1..n) /\ \A T \in SUBSET (1..n) : T # {} => pick[T] \in T
  BY GreatestIndex
<1>2. \A T \in SUBSET (1..n) : pick[T] = Max(T)
  OBVIOUS
<1> HIDE DEF pick
<1>3. PICK g \in [SUBSET (1..n) -> V] : IsFold(g, 1..n, base, next, pick)
  BY <1>1, FoldExists
<1>4. ASSUME NEW T \in SUBSET (1..n)
      PROVE  g[T] = IF T = {} THEN base ELSE next[<<Max(T), g[T \ {Max(T)}]>>]
  <2>1. g[T] = IF T = {} THEN base ELSE next[<<pick[T], g[T \ {pick[T]}]>>]
    BY <1>3 DEF IsFold
  <2> QED BY <1>2, <2>1
<1> QED BY <1>4 DEF IsListFold

LEMMA ListInduction ==
  ASSUME NEW n \in Nat, NEW Good, {} \in Good,
         \A T \in SUBSET (1..n) : T # {} /\ T \ {Max(T)} \in Good => T \in Good
  PROVE  \A T \in SUBSET (1..n) : T \in Good
<1>1. IsFiniteSet(1..n) /\ \A T \in SUBSET (1..n) : T # {} => Max(T) \in T
  BY GreatestIndex
<1>2. ASSUME NEW T \in SUBSET (1..n), \A x \in T : T \ {x} \in Good
      PROVE  T \in Good
  <2>1. CASE T = {}
    BY <2>1
  <2>2. CASE T # {}
    <3>1. Max(T) \in T
      BY <1>1, <2>2
    <3> QED BY <1>2, <2>2, <3>1
  <2> QED BY <2>1, <2>2
<1> DEFINE S == 1..n
<1>3. IsFiniteSet(S)
  BY <1>1
<1>4. \A T \in SUBSET S : (\A x \in T : T \ {x} \in Good) => T \in Good
  BY <1>2
<1> HIDE DEF S
<1>5. \A T \in SUBSET S : T \in Good
  BY <1>3, <1>4, FiniteInduction
<1> QED BY <1>5 DEF S

-----------------------------------------------------------------------------
(* Numbers                                                                 *)

\* A function on the naturals given by its first value and by what follows a value.
LEMMA RecursionExists ==
  ASSUME NEW V, NEW base \in V, NEW next \in [V -> V]
  PROVE  \E f \in [Nat -> V] : f[0] = base /\ \A n \in Nat : f[n + 1] = next[f[n]]
<1> DEFINE Solves(f, n) == f[0] = base /\ \A i \in 1..n : f[i] = next[f[i - 1]]
           Good == {n \in Nat : \E f \in [0..n -> V] : Solves(f, n)}
<1>1. 0 \in Good
  <2> DEFINE f == [i \in 0..0 |-> base]
  <2>1. f \in [0..0 -> V] /\ Solves(f, 0)
    OBVIOUS
  <2> HIDE DEF f
  <2> QED BY <2>1
<1>2. ASSUME NEW n \in Nat, n \in Good PROVE n + 1 \in Good
  <2>1. PICK f \in [0..n -> V] : Solves(f, n)
    BY <1>2
  <2> DEFINE h == [i \in 0..(n + 1) |-> IF i <= n THEN f[i] ELSE next[f[n]]]
  <2>2. h \in [0..(n + 1) -> V]
    OBVIOUS
  <2>3. Solves(h, n + 1)
    <3>1. h[0] = base
      BY <2>1
    <3>2. ASSUME NEW i \in 1..(n + 1) PROVE h[i] = next[h[i - 1]]
      <4>1. CASE i <= n
        BY <2>1, <4>1
      <4>2. CASE i = n + 1
        BY <2>1, <4>2
      <4> QED BY <4>1, <4>2
    <3> QED BY <3>1, <3>2
  <2> HIDE DEF h, Solves
  <2> QED BY <2>2, <2>3
<1>3. \A n \in Nat : n \in Good
  <2> HIDE DEF Good
  <2> QED BY <1>1, <1>2, NatInductionOnSets
<1> DEFINE Same == {n \in Nat : \A a, b \in Nat : \A f \in [0..a -> V], g \in [0..b -> V] :
                      n <= a /\ n <= b /\ Solves(f, a) /\ Solves(g, b) => f[n] = g[n]}
<1>4. 0 \in Same
  OBVIOUS
<1>5. ASSUME NEW n \in Nat, n \in Same PROVE n + 1 \in Same
  <2> SUFFICES ASSUME NEW a \in Nat, NEW b \in Nat, NEW f \in [0..a -> V], NEW g \in [0..b -> V],
                      n + 1 <= a, n + 1 <= b, Solves(f, a), Solves(g, b)
               PROVE  f[n + 1] = g[n + 1]
    <3> HIDE DEF Solves
    <3> QED OBVIOUS
  <2>1. f[n] = g[n]
    <3>1. n <= a /\ n <= b
      OBVIOUS
    <3> HIDE DEF Solves
    <3> QED BY <1>5, <3>1
  <2>2. n + 1 \in 1..a /\ n + 1 \in 1..b /\ (n + 1) - 1 = n
    OBVIOUS
  <2> QED BY <2>1, <2>2
<1>6. \A n \in Nat : n \in Same
  <2> HIDE DEF Same
  <2> QED BY <1>4, <1>5, NatInductionOnSets
<1> DEFINE upto(n) == CHOOSE f \in [0..n -> V] : Solves(f, n)
           f == [n \in Nat |-> upto(n)[n]]
<1>7. ASSUME NEW n \in Nat PROVE upto(n) \in [0..n -> V] /\ Solves(upto(n), n)
  <2>1. \E g \in [0..n -> V] : Solves(g, n)
    BY <1>3
  <2> HIDE DEF Solves
  <2> QED BY <2>1
<1> HIDE DEF upto
<1>8. f \in [Nat -> V]
  BY <1>7
<1>9. f[0] = base
  BY <1>7
<1>10. ASSUME NEW n \in Nat PROVE f[n + 1] = next[f[n]]
  <2>1. /\ upto(n) \in [0..n -> V] /\ Solves(upto(n), n)
        /\ upto(n + 1) \in [0..(n + 1) -> V] /\ Solves(upto(n + 1), n + 1)
    BY <1>7
  <2>2. upto(n + 1)[n] = upto(n)[n]
    <3>1. n \in Same
      BY <1>6
    <3> HIDE DEF Solves
    <3> QED BY <2>1, <3>1
  <2>3. n + 1 \in 1..(n + 1) /\ (n + 1) - 1 = n
    OBVIOUS
  <2>4. upto(n + 1)[n + 1] = next[upto(n + 1)[n]]
    BY <2>1, <2>3
  <2> QED BY <2>2, <2>4
<1> HIDE DEF f
<1> QED BY <1>8, <1>9, <1>10

\* A product grows by its other factor.
LEMMA MoreTimes ==
  ASSUME NEW d \in Nat, NEW a \in Nat, NEW b \in Nat, a < b
  PROVE  d * a + d <= d * b
<1>1. PICK c \in Nat : b = a + 1 + c
  <2>1. b - a - 1 \in Nat /\ b = a + 1 + (b - a - 1)
    OBVIOUS
  <2> QED BY <2>1
<1>2. d * b = d * a + d + d * c
  BY <1>1
<1>3. d * c \in Nat /\ d * a \in Nat /\ d * b \in Nat
  OBVIOUS
<1> QED BY <1>2, <1>3

\* Quotient and remainder are the only ones there are.
LEMMA DivIs ==
  ASSUME NEW d \in Nat \ {0}, NEW q \in Nat, NEW r \in 0..(d - 1)
  PROVE  (d * q + r) \div d = q /\ (d * q + r) % d = r
<1> DEFINE x == d * q + r
           p == x \div d
           m == x % d
<1>1. x \in Nat
  OBVIOUS
<1> HIDE DEF x
<1>2. p \in Nat /\ m \in 0..(d - 1) /\ x = d * p + m
  BY <1>1
<1> HIDE DEF p, m
<1>3. d * p \in Nat /\ d * q \in Nat
  BY <1>2
<1>4. ~(p < q)
  <2>1. p < q => d * p + d <= d * q
    BY <1>2, MoreTimes
  <2> DEFINE dp == d * p
             dq == d * q
  <2>2. x = dq + r /\ dp \in Nat /\ dq \in Nat
    BY <1>3 DEF x
  <2> HIDE DEF dp, dq
  <2> QED BY <2>1, <2>2, <1>2 DEF dp, dq
<1>5. ~(q < p)
  <2>1. q < p => d * q + d <= d * p
    BY <1>2, MoreTimes
  <2> DEFINE dp == d * p
             dq == d * q
  <2>2. x = dq + r /\ dp \in Nat /\ dq \in Nat
    BY <1>3 DEF x
  <2> HIDE DEF dp, dq
  <2> QED BY <2>1, <2>2, <1>2 DEF dp, dq
<1>6. p = q
  BY <1>2, <1>4, <1>5
<1>7. m = r
  <2> DEFINE dp == d * p
  <2>1. x = dp + m /\ x = dp + r /\ dp \in Nat
    BY <1>2, <1>3, <1>6 DEF x
  <2> HIDE DEF dp
  <2> QED BY <1>2, <2>1
<1> QED BY <1>6, <1>7 DEF p, m, x

\* Dividing stays among the naturals.
LEMMA DivStays ==
  ASSUME NEW x \in Nat, NEW d \in Nat \ {0}
  PROVE  x \div d \in Nat /\ x % d \in Nat
OBVIOUS

\* Dividing twice divides by the product, and the remainder is in two parts.
LEMMA DivTwice ==
  ASSUME NEW x \in Nat, NEW b \in Nat \ {0}, NEW c \in Nat \ {0}
  PROVE  (x \div b) \div c = x \div (b * c) /\ x % (b * c) = b * ((x \div b) % c) + (x % b)
<1> DEFINE m == x \div b
           e == x % b
           q == m \div c
           r == m % c
<1>1. m \in Nat /\ e \in 0..(b - 1) /\ x = b * m + e
  OBVIOUS
<1> HIDE DEF m, e
<1>2. q \in Nat /\ r \in 0..(c - 1) /\ m = c * q + r
  BY <1>1
<1> HIDE DEF q, r
<1>3. x = (b * c) * q + (b * r + e)
  <2>1. b * (c * q + r) = (b * c) * q + b * r
    BY <1>2
  <2> DEFINE y == (b * c) * q
             z == b * r
  <2>2. b * m = y + z /\ y \in Int /\ z \in Int
    BY <1>2, <2>1
  <2> HIDE DEF y, z
  <2>3. x = y + (z + e)
    BY <1>1, <2>2
  <2> QED BY <2>3 DEF y, z
<1>4. b * c \in Nat \ {0} /\ b * r + e \in 0..(b * c - 1)
  <2>1. b * r + b <= b * c
    BY <1>2, MoreTimes
  <2>2. b * r \in Nat /\ b * c \in Nat
    BY <1>2
  <2> DEFINE y == b * r
             z == b * c
  <2> HIDE DEF y, z
  <2>3. y + b <= z /\ y \in Nat /\ z \in Nat
    BY <2>1, <2>2 DEF y, z
  <2>4. z \in Nat \ {0} /\ y + e \in 0..(z - 1)
    BY <1>1, <2>3
  <2> QED BY <2>4 DEF y, z
<1> DEFINE bc == b * c
           rest == b * r + e
<1>5. bc \in Nat \ {0} /\ rest \in 0..(bc - 1) /\ x = bc * q + rest
  BY <1>3, <1>4
<1> HIDE DEF bc, rest
<1>6. x \div bc = q /\ x % bc = rest
  BY <1>2, <1>5, DivIs
<1>7. (x \div b) \div c = q /\ (x \div b) % c = r /\ x % b = e
  BY DEF q, r, m, e
<1> HIDE DEF q, r, m, e
<1>8. x \div (b * c) = q /\ x % (b * c) = b * r + e
  BY <1>6, Zenon DEF bc, rest
<1>9. (x \div b) \div c = x \div (b * c)
  BY <1>7, <1>8, Zenon
<1>10. b * ((x \div b) % c) + (x % b) = b * r + e
  BY <1>7, Zenon
<1> QED BY <1>8, <1>9, <1>10, Zenon
===============================================================================

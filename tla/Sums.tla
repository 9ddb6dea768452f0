-------------------------------- MODULE Sums --------------------------------
(***************************************************************************)
(* Facts about SumFunction, for the balances of the other modules.         *)
(*                                                                         *)
(* SumFunction folds over a set, element by chosen element, so that facts  *)
(* about it take an induction over the finite subsets of its domain.  The  *)
(* induction theorems of the library have an operator for the property;    *)
(* here the property is a set, of the numbers or of the subsets that have  *)
(* it, which the provers can instantiate.                                  *)
(***************************************************************************)
EXTENDS Integers, Functions, FiniteSetTheorems, WellFoundedInduction, TLAPS

\* A set of natural numbers has a least element.
LEMMA LeastElement ==
    ASSUME NEW T, T \subseteq Nat, T # {}
    PROVE  \E x \in T : \A y \in T : x <= y
<1>. DEFINE R == OpToRel(<, Nat)
<1>1. IsWellFoundedOn(R, Nat)
  BY NatLessThanWellFounded
<1>2. \A x, y \in Nat : y < x => <<y, x>> \in R
  BY DEF OpToRel
<1>. HIDE DEF R
<1>3. PICK x \in T : \A y \in T : ~ (<<y, x>> \in R)
  BY <1>1, WFMin
<1>4. ASSUME NEW y \in T PROVE x <= y
  <2>1. x \in Nat /\ y \in Nat
    OBVIOUS
  <2>2. ~(y < x)
    BY <1>2, <1>3, <2>1, Zenon
  <2>. QED BY <2>1, <2>2
<1>. QED BY <1>4

\* Induction over the natural numbers.  The property is the set F of the
\* numbers that have it.
LEMMA NatSetInduction ==
    ASSUME NEW F, 0 \in F, \A n \in Nat : n \in F => n + 1 \in F
    PROVE  Nat \subseteq F
<1>. SUFFICES ASSUME NEW k \in Nat, k \notin F PROVE FALSE
  OBVIOUS
<1>. DEFINE Bad == {n \in Nat : n \notin F}
<1>1. PICK n \in Bad : \A m \in Bad : n <= m
  <2>1. Bad \subseteq Nat /\ Bad # {}
    OBVIOUS
  <2>. HIDE DEF Bad
  <2>. QED BY <2>1, LeastElement
<1>2. n \in Nat /\ n # 0
  BY <1>1
<1>3. n - 1 \in Nat /\ ~(n <= n - 1) /\ n = (n - 1) + 1
  BY <1>2
<1>4. n - 1 \in F
  BY <1>1, <1>3
<1>. QED BY <1>1, <1>3, <1>4

\* Induction over the subsets of a finite set.  The property is the set F of
\* the subsets that have it.
LEMMA SubsetInduction ==
    ASSUME NEW S, IsFiniteSet(S), NEW F,
           \A T \in SUBSET S : (\A R \in SUBSET T : R # T => R \in F) => T \in F
    PROVE  SUBSET S \subseteq F
<1>. DEFINE Bad == {n \in Nat : \E T \in SUBSET S : T \notin F /\ Cardinality(T) = n}
<1>1. \A T \in SUBSET S : IsFiniteSet(T) /\ Cardinality(T) \in Nat
  BY FS_Subset, FS_CardinalityType
<1>2. SUFFICES ASSUME NEW T0 \in SUBSET S, T0 \notin F PROVE FALSE
  OBVIOUS
<1>3. Cardinality(T0) \in Bad
  BY <1>1, <1>2
<1>4. PICK n \in Bad : \A m \in Bad : n <= m
  <2>1. Bad \subseteq Nat /\ Bad # {}
    BY <1>3
  <2>. HIDE DEF Bad
  <2>. QED BY <2>1, LeastElement
<1>5. PICK T \in SUBSET S : T \notin F /\ Cardinality(T) = n
  BY <1>4
<1>6. ASSUME NEW R \in SUBSET T, R # T PROVE R \in F
  <2>1. Cardinality(R) \in Nat /\ Cardinality(R) < n
    BY <1>1, <1>5, <1>6, FS_Subset
  <2>2. SUFFICES ASSUME R \notin F PROVE FALSE
    OBVIOUS
  <2>3. Cardinality(R) \in Bad
    BY <2>1, <2>2
  <2>. QED BY <1>4, <2>1, <2>3
<1>. QED BY <1>5, <1>6

-----------------------------------------------------------------------------

\* The element that a fold takes first.
Choice(s) == CHOOSE x \in s : TRUE

\* g folds f over the sets of U.
Folds(g, f, U) == g = [s \in U |-> IF s = {} THEN 0 ELSE f[Choice(s)] + g[s \ {Choice(s)}]]

\* It is one of the set.
LEMMA ChoiceIn == \A s : s # {} => Choice(s) \in s
BY DEF Choice

\* There is a fold over the subsets of a finite set: one over the subsets with
\* at most n elements, for every n.
LEMMA FoldExists ==
    ASSUME NEW S, IsFiniteSet(S), NEW f
    PROVE  \E g : Folds(g, f, SUBSET S)
<1>. DEFINE Sub(n) == {s \in SUBSET S : Cardinality(s) <= n}
            Good == {n \in Nat : \E g : Folds(g, f, Sub(n))}
<1>1. \A T \in SUBSET S : IsFiniteSet(T) /\ Cardinality(T) \in Nat
  BY FS_Subset, FS_CardinalityType
<1>a. {} \in SUBSET S /\ Cardinality({}) = 0
  BY FS_EmptySet
<1>2. \A s \in SUBSET S : s # {} => /\ Cardinality(s) >= 1
                                    /\ s \ {Choice(s)} \in SUBSET S
                                    /\ Cardinality(s \ {Choice(s)}) = Cardinality(s) - 1
  BY <1>1, FS_EmptySet, FS_RemoveElement, ChoiceIn
<1>3. 0 \in Good
  <2>. DEFINE g == [s \in Sub(0) |-> 0]
  <2>1. \A s \in Sub(0) : s = {}
    <3>1. \A s \in Sub(0) : Cardinality(s) = 0
      BY <1>1
    <3>. QED BY <1>1, <3>1, FS_EmptySet
  <2>2. Folds(g, f, Sub(0))
    BY <2>1 DEF Folds
  <2>. QED BY <2>2
<1>4. ASSUME NEW n \in Good PROVE n + 1 \in Good
  <2>1. PICK g : Folds(g, f, Sub(n))
    BY <1>4
  <2>. DEFINE h == [s \in Sub(n + 1) |-> IF s = {} THEN 0 ELSE f[Choice(s)] + g[s \ {Choice(s)}]]
  <2>2. \A s \in Sub(n) : h[s] = g[s]
    <3>1. \A s \in Sub(n) : s \in Sub(n + 1)
      BY <1>1
    <3>. QED BY <2>1, <3>1 DEF Folds
  <2>3. \A s \in Sub(n + 1) : s # {} => s \ {Choice(s)} \in Sub(n)
    BY <1>1, <1>2
  <2>4. Folds(h, f, Sub(n + 1))
    BY <2>2, <2>3 DEF Folds
  <2>. QED BY <2>4, n + 1 \in Nat
<1>5. Cardinality(S) \in Good
  BY <1>1, <1>3, <1>4, NatSetInduction
<1>6. Sub(Cardinality(S)) = SUBSET S
  BY <1>1, FS_Subset
<1>. QED BY <1>5, <1>6

\* SumFunction is a fold.
LEMMA SumFolds ==
    ASSUME NEW f, IsFiniteSet(DOMAIN f)
    PROVE  \E g : Folds(g, f, SUBSET DOMAIN f) /\ SumFunction(f) = g[DOMAIN f]
<1>. DEFINE g == CHOOSE it : Folds(it, f, SUBSET DOMAIN f)
<1>1. Folds(g, f, SUBSET DOMAIN f)
  BY FoldExists
<1>2. SumFunction(f) = g[DOMAIN f]
  BY DEF SumFunction, SumFunctionOnSet, FoldFunctionOnSet, MapThenFoldSet, Folds, Choice
<1>. QED BY <1>1, <1>2

\* A fold meets its equation.
LEMMA FoldStep ==
    ASSUME NEW S, NEW f, NEW g, Folds(g, f, SUBSET S), NEW s \in SUBSET S
    PROVE  g[s] = IF s = {} THEN 0 ELSE f[Choice(s)] + g[s \ {Choice(s)}]
BY DEF Folds

\* A fold of integers has integer values.
LEMMA FoldInt ==
    ASSUME NEW S, IsFiniteSet(S), NEW f \in [S -> Int], NEW g, Folds(g, f, SUBSET S)
    PROVE  \A s \in SUBSET S : g[s] \in Int
<1>0. \A s \in SUBSET S : g[s] = IF s = {} THEN 0 ELSE f[Choice(s)] + g[s \ {Choice(s)}]
  BY FoldStep
<1>. DEFINE F == {s \in SUBSET S : g[s] \in Int}
<1>1. ASSUME NEW T \in SUBSET S, \A R \in SUBSET T : R # T => R \in F
      PROVE  T \in F
  <2>1. CASE T = {}
    <3>1. g[T] = 0
      BY <1>0, <2>1
    <3>. QED BY <3>1
  <2>2. CASE T # {}
    <3>1. Choice(T) \in T /\ T \ {Choice(T)} \in F
      BY <1>1, <2>2, ChoiceIn
    <3>2. f[Choice(T)] \in Int /\ g[T \ {Choice(T)}] \in Int
      BY <3>1
    <3>3. g[T] = f[Choice(T)] + g[T \ {Choice(T)}]
      BY <1>0, <2>2
    <3>. QED BY <3>2, <3>3
  <2>. QED BY <2>1, <2>2
<1>. HIDE DEF F
<1>2. SUBSET S \subseteq F
  BY <1>1, SubsetInduction
<1>. QED BY <1>2 DEF F

\* A fold takes the elements in any order.
LEMMA FoldAnyOrder ==
    ASSUME NEW S, IsFiniteSet(S), NEW f \in [S -> Int], NEW g, Folds(g, f, SUBSET S)
    PROVE  \A s \in SUBSET S : \A x \in s : g[s] = f[x] + g[s \ {x}]
<1>0. \A s \in SUBSET S : g[s] = IF s = {} THEN 0 ELSE f[Choice(s)] + g[s \ {Choice(s)}]
  BY FoldStep
<1>. DEFINE F == {s \in SUBSET S : \A x \in s : g[s] = f[x] + g[s \ {x}]}
<1>1. ASSUME NEW T \in SUBSET S, \A R \in SUBSET T : R # T => R \in F
      PROVE  T \in F
  <2>. SUFFICES ASSUME NEW x \in T PROVE g[T] = f[x] + g[T \ {x}]
    OBVIOUS
  <2>. DEFINE c == Choice(T)
  <2>1. c \in T /\ g[T] = f[c] + g[T \ {c}]
    BY <1>0, ChoiceIn
  <2>. HIDE DEF c
  <2>2. CASE x = c
    BY <2>1, <2>2
  <2>3. CASE x # c
    <3>1. T \ {c} \in F /\ x \in T \ {c} /\ T \ {x} \in F /\ c \in T \ {x}
      BY <1>1, <2>1, <2>3
    <3>2. g[T \ {c}] = f[x] + g[(T \ {c}) \ {x}]
      BY <3>1
    <3>3. g[T \ {x}] = f[c] + g[(T \ {x}) \ {c}]
      BY <3>1
    <3>4. (T \ {c}) \ {x} = (T \ {x}) \ {c}
      OBVIOUS
    <3>6. g[(T \ {x}) \ {c}] \in Int
      BY FoldInt
    <3>5. f[x] \in Int /\ f[c] \in Int /\ g[(T \ {x}) \ {c}] \in Int
      BY <2>1, <3>6
    <3>. DEFINE rest == g[(T \ {x}) \ {c}]
    <3>7. g[T] = f[c] + (f[x] + rest) /\ g[T \ {x}] = f[c] + rest
      BY <2>1, <3>2, <3>3, <3>4
    <3>8. f[x] \in Int /\ f[c] \in Int /\ rest \in Int
      BY <3>5
    <3>. HIDE DEF rest
    <3>. QED BY <3>7, <3>8
  <2>. QED BY <2>2, <2>3
<1>. HIDE DEF F
<1>2. SUBSET S \subseteq F
  BY <1>1, SubsetInduction
<1>. QED BY <1>2 DEF F

\* Folds of functions that agree agree.
LEMMA FoldUnique ==
    ASSUME NEW S, IsFiniteSet(S), NEW f \in [S -> Int], NEW g, Folds(g, f, SUBSET S),
           NEW T \in SUBSET S, NEW h, Folds(h, [x \in T |-> f[x]], SUBSET T)
    PROVE  \A s \in SUBSET T : h[s] = g[s]
<1>. DEFINE F == {s \in SUBSET T : h[s] = g[s]}
<1>0. IsFiniteSet(T)
  BY FS_Subset
<1>g. \A s \in SUBSET S : g[s] = IF s = {} THEN 0 ELSE f[Choice(s)] + g[s \ {Choice(s)}]
  BY FoldStep
<1>1. ASSUME NEW R \in SUBSET T, \A Q \in SUBSET R : Q # R => Q \in F
      PROVE  R \in F
  <2>. DEFINE ft == [x \in T |-> f[x]]
  <2>0. ft \in [T -> Int] /\ \A x \in T : ft[x] = f[x]
    OBVIOUS
  <2>. HIDE DEF ft
  <2>h. \A s \in SUBSET T : h[s] = IF s = {} THEN 0 ELSE ft[Choice(s)] + h[s \ {Choice(s)}]
    <3>1. Folds(h, ft, SUBSET T)
      BY DEF ft
    <3>. QED BY <3>1 DEF Folds
  <2>1. CASE R = {}
    BY <1>g, <2>h, <2>1
  <2>2. CASE R # {}
    <3>1. Choice(R) \in R /\ R \ {Choice(R)} \in F
      BY <1>1, <2>2, ChoiceIn
    <3>2. h[R] = ft[Choice(R)] + h[R \ {Choice(R)}]
      BY <2>h, <2>2
    <3>3. g[R] = f[Choice(R)] + g[R \ {Choice(R)}]
      BY <1>g, <2>2
    <3>. QED BY <2>0, <3>1, <3>2, <3>3
  <2>. QED BY <2>1, <2>2
<1>. HIDE DEF F
<1>2. SUBSET T \subseteq F
  BY <1>0, <1>1, SubsetInduction
<1>. QED BY <1>2 DEF F

-----------------------------------------------------------------------------

\* A sum takes out any element first.
LEMMA SumPoint ==
    ASSUME NEW S, IsFiniteSet(S), NEW f \in [S -> Int], NEW x \in S
    PROVE  SumFunction(f) = f[x] + SumFunction(Restrict(f, S \ {x}))
<1>. DEFINE T == S \ {x}
            ft == [y \in T |-> f[y]]
<1>1. PICK g : Folds(g, f, SUBSET S) /\ SumFunction(f) = g[S]
  <2>1. DOMAIN f = S
    OBVIOUS
  <2>. QED BY <2>1, SumFolds
<1>2. PICK h : Folds(h, ft, SUBSET T) /\ SumFunction(ft) = h[T]
  <2>1. DOMAIN ft = T /\ IsFiniteSet(T)
    BY FS_Subset
  <2>. QED BY <2>1, SumFolds
<1>3. h[T] = g[T]
  <2>1. T \in SUBSET S
    OBVIOUS
  <2>. HIDE DEF T
  <2>2. \A s \in SUBSET T : h[s] = g[s]
    BY <1>1, <1>2, <2>1, FoldUnique
  <2>. QED BY <2>2
<1>4. g[S] = f[x] + g[T]
  BY <1>1, FoldAnyOrder
<1>. QED BY <1>1, <1>2, <1>3, <1>4 DEF Restrict

\* A sum of integers is an integer.
LEMMA SumInt ==
    ASSUME NEW S, IsFiniteSet(S), NEW f \in [S -> Int]
    PROVE  SumFunction(f) \in Int
<1>1. DOMAIN f = S
  OBVIOUS
<1>2. PICK g : Folds(g, f, SUBSET S) /\ SumFunction(f) = g[S]
  BY <1>1, SumFolds
<1>. QED BY <1>2, FoldInt

\* The sum of nothing is zero.
LEMMA SumEmpty ==
    ASSUME NEW f, DOMAIN f = {}
    PROVE  SumFunction(f) = 0
<1>1. IsFiniteSet(DOMAIN f)
  BY FS_EmptySet
<1>2. PICK g : Folds(g, f, SUBSET DOMAIN f) /\ SumFunction(f) = g[DOMAIN f]
  BY <1>1, SumFolds
<1>. QED BY <1>2 DEF Folds

\* Sums that differ in one summand differ by it.
LEMMA SumChange ==
    ASSUME NEW S, IsFiniteSet(S), NEW f \in [S -> Int], NEW g \in [S -> Int],
           NEW x \in S, \A y \in S \ {x} : g[y] = f[y]
    PROVE  SumFunction(g) = SumFunction(f) + (g[x] - f[x])
<1>. DEFINE rest == SumFunction(Restrict(f, S \ {x}))
<1>1. SumFunction(f) = f[x] + rest
  BY SumPoint
<1>2. SumFunction(g) = g[x] + rest
  <2>1. SumFunction(g) = g[x] + SumFunction(Restrict(g, S \ {x}))
    BY SumPoint
  <2>2. Restrict(g, S \ {x}) = Restrict(f, S \ {x})
    BY DEF Restrict
  <2>. QED BY <2>1, <2>2
<1>3. rest \in Int
  <2>1. IsFiniteSet(S \ {x})
    BY FS_Subset
  <2>2. Restrict(f, S \ {x}) \in [S \ {x} -> Int]
    BY DEF Restrict
  <2>. QED BY <2>1, <2>2, SumInt
<1>. HIDE DEF rest
<1>. QED BY <1>1, <1>2, <1>3

\* A sum over one element more.
LEMMA SumMore ==
    ASSUME NEW S, IsFiniteSet(S), NEW x, x \notin S, NEW f \in [S \cup {x} -> Int]
    PROVE  SumFunction(f) = SumFunction(Restrict(f, S)) + f[x]
<1>1. IsFiniteSet(S \cup {x}) /\ x \in S \cup {x} /\ (S \cup {x}) \ {x} = S
  BY FS_AddElement
<1>2. SumFunction(f) = f[x] + SumFunction(Restrict(f, S))
  BY <1>1, SumPoint
<1>3. f[x] \in Int /\ Restrict(f, S) \in [S -> Int]
  BY DEF Restrict
<1>4. SumFunction(Restrict(f, S)) \in Int
  BY <1>3, SumInt
<1>. QED BY <1>2, <1>3, <1>4

\* Sums over the subsets of a set.
LEMMA SumOver ==
    ASSUME NEW S, IsFiniteSet(S), NEW f \in [S -> Int], NEW T \in SUBSET S
    PROVE  /\ IsFiniteSet(T)
           /\ Restrict(f, T) \in [T -> Int]
           /\ SumFunction(Restrict(f, T)) \in Int
           /\ \A x \in T : SumFunction(Restrict(f, T)) = f[x] + SumFunction(Restrict(f, T \ {x}))
<1>1. IsFiniteSet(T) /\ Restrict(f, T) \in [T -> Int]
  BY FS_Subset DEF Restrict
<1>2. ASSUME NEW x \in T
      PROVE  SumFunction(Restrict(f, T)) = f[x] + SumFunction(Restrict(f, T \ {x}))
  <2>1. SumFunction(Restrict(f, T)) = Restrict(f, T)[x] + SumFunction(Restrict(Restrict(f, T), T \ {x}))
    BY <1>1, SumPoint
  <2>2. Restrict(f, T)[x] = f[x] /\ Restrict(Restrict(f, T), T \ {x}) = Restrict(f, T \ {x})
    BY DEF Restrict
  <2>. QED BY <2>1, <2>2
<1>. QED BY <1>1, <1>2, SumInt

\* No element, no sum.
LEMMA SumNone == \A f : SumFunction(Restrict(f, {})) = 0
BY SumEmpty DEF Restrict

\* A function restricted to its domain is itself.
LEMMA RestrictAll == \A S : \A f \in [S -> Int] : Restrict(f, S) = f
BY DEF Restrict

\* Sums are added summand by summand.
LEMMA SumPlus ==
    ASSUME NEW S, IsFiniteSet(S), NEW f \in [S -> Int], NEW g \in [S -> Int],
           NEW h \in [S -> Int], \A x \in S : h[x] = f[x] + g[x]
    PROVE  SumFunction(h) = SumFunction(f) + SumFunction(g)
<1>. DEFINE Of(e, T) == SumFunction(Restrict(e, T))
            F == {T \in SUBSET S : Of(h, T) = Of(f, T) + Of(g, T)}
<1>1. ASSUME NEW e \in [S -> Int], NEW T \in SUBSET S
      PROVE  Of(e, T) \in Int /\ \A x \in T : Of(e, T) = e[x] + Of(e, T \ {x}) /\ e[x] \in Int
  BY SumOver
<1>2. \A e : Of(e, {}) = 0
  BY SumNone
<1>. HIDE DEF Of
<1>3. ASSUME NEW T \in SUBSET S, \A R \in SUBSET T : R # T => R \in F
      PROVE  T \in F
  <2>1. CASE T = {}
    BY <1>2, <2>1
  <2>2. CASE T # {}
    <3>1. PICK x \in T : TRUE
      BY <2>2
    <3>2. T \ {x} \in SUBSET S /\ Of(h, T \ {x}) = Of(f, T \ {x}) + Of(g, T \ {x})
      BY <1>3
    <3>. QED BY <1>1, <3>2
  <2>. QED BY <2>1, <2>2
<1>4. SUBSET S \subseteq F
  <2>. HIDE DEF F
  <2>. QED BY <1>3, SubsetInduction
<1>. QED BY <1>4, RestrictAll DEF Of

\* A sum of nothing but zeros.
LEMMA SumZero ==
    ASSUME NEW S, IsFiniteSet(S), NEW f \in [S -> Int], \A x \in S : f[x] = 0
    PROVE  SumFunction(f) = 0
<1>1. \A x \in S : f[x] = f[x] + f[x]
  OBVIOUS
<1>2. SumFunction(f) = SumFunction(f) + SumFunction(f)
  BY <1>1, SumPlus
<1>. QED BY <1>2, SumInt

\* A sum over a set P that has the elements of O and perhaps x.
LEMMA SumNext ==
    ASSUME NEW O, IsFiniteSet(O), NEW x, x \notin O, NEW P, P = O \/ P = O \cup {x},
           NEW f \in [O -> Int], NEW g \in [P -> Int], \A i \in O : g[i] = f[i]
    PROVE  SumFunction(g) = SumFunction(f) + (IF x \in P THEN g[x] ELSE 0)
<1>1. SumFunction(f) \in Int
  BY SumInt
<1>2. CASE P = O
  <2>1. f = [i \in O |-> f[i]] /\ g = [i \in O |-> g[i]]
    BY <1>2
  <2>2. g = f
    BY <2>1
  <2>. QED BY <1>1, <1>2, <2>2
<1>3. CASE P = O \cup {x}
  <2>1. SumFunction(g) = SumFunction(Restrict(g, O)) + g[x]
    BY <1>3, SumMore
  <2>2. Restrict(g, O) = f
    BY DEF Restrict
  <2>. QED BY <1>3, <2>1, <2>2
<1>. QED BY <1>2, <1>3

\* A sum is the sum of the sums over the fibres of a function.
LEMMA SumFibres ==
    ASSUME NEW S, IsFiniteSet(S), NEW f \in [S -> Int],
           NEW K, IsFiniteSet(K), NEW p \in [S -> K]
    PROVE  SumFunction(f) = SumFunction([k \in K |-> SumFunction(Restrict(f, {x \in S : p[x] = k}))])
<1>. DEFINE Of(T) == SumFunction(Restrict(f, T))
            Fibre(T, k) == {x \in T : p[x] = k}
            Of2(T, k) == Of(Fibre(T, k))
            By(T) == [k \in K |-> Of2(T, k)]
            F == {T \in SUBSET S : Of(T) = SumFunction(By(T))}
<1>1. ASSUME NEW T \in SUBSET S
      PROVE  Of(T) \in Int /\ \A x \in T : Of(T) = f[x] + Of(T \ {x}) /\ f[x] \in Int
  BY SumOver
<1>2. Of({}) = 0
  BY SumNone
<1>. HIDE DEF Of
<1>3. ASSUME NEW T \in SUBSET S PROVE By(T) \in [K -> Int]
  BY <1>1
<1>4. ASSUME NEW T \in SUBSET S, NEW x \in T
      PROVE  /\ \A k \in K \ {p[x]} : Of2(T, k) = Of2(T \ {x}, k)
             /\ Of2(T, p[x]) = f[x] + Of2(T \ {x}, p[x])
  <2>1. \A k \in K \ {p[x]} : Fibre(T, k) = Fibre(T \ {x}, k)
    OBVIOUS
  <2>2. x \in Fibre(T, p[x]) /\ Fibre(T \ {x}, p[x]) = Fibre(T, p[x]) \ {x} /\ Fibre(T, p[x]) \in SUBSET S
    OBVIOUS
  <2>. HIDE DEF Fibre
  <2>3. Of(Fibre(T, p[x])) = f[x] + Of(Fibre(T, p[x]) \ {x})
    BY <1>1, <2>2
  <2>. QED BY <2>1, <2>2, <2>3
<1>5. \A T \in SUBSET S : \A k \in K : Of2(T, k) \in Int
  BY <1>1
<1>6. \A k \in K : Of2({}, k) = 0
  <2>1. \A k \in K : Fibre({}, k) = {}
    OBVIOUS
  <2>. QED BY <1>2, <2>1
<1>. HIDE DEF Of2
<1>7. ASSUME NEW T \in SUBSET S, \A R \in SUBSET T : R # T => R \in F
      PROVE  T \in F
  <2>1. CASE T = {}
    <3>1. \A k \in K : By({})[k] = 0
      BY <1>6
    <3>2. SumFunction(By({})) = 0
      BY <1>3, <3>1, SumZero
    <3>. QED BY <1>2, <2>1, <3>2
  <2>2. CASE T # {}
    <3>1. PICK x \in T : TRUE
      BY <2>2
    <3>. DEFINE R == T \ {x}
    <3>2. R \in SUBSET S /\ R \in F
      BY <1>7
    <3>3. /\ \A k \in K \ {p[x]} : By(T)[k] = By(R)[k]
          /\ By(T)[p[x]] = f[x] + By(R)[p[x]]
          /\ p[x] \in K
      BY <1>4
    <3>4. By(T) \in [K -> Int] /\ By(R) \in [K -> Int]
      BY <1>3, <3>2
    <3>5. Of(T) = f[x] + Of(R) /\ f[x] \in Int /\ Of(R) \in Int
      BY <1>1, <3>2
    <3>6. Of(R) = SumFunction(By(R))
      BY <3>2
    <3>. HIDE DEF By, R
    <3>7. SumFunction(By(T)) = SumFunction(By(R)) + (By(T)[p[x]] - By(R)[p[x]])
      BY <3>3, <3>4, SumChange
    <3>8. By(R)[p[x]] \in Int
      BY <3>3, <3>4
    <3>. QED BY <3>3, <3>5, <3>6, <3>7, <3>8
  <2>. QED BY <2>1, <2>2
<1>8. SUBSET S \subseteq F
  <2>. HIDE DEF F
  <2>. QED BY <1>7, SubsetInduction
<1>9. Of(S) = SumFunction(By(S))
  BY <1>8
<1>. QED BY <1>9, RestrictAll DEF Of, Of2, By

\* A sum is that over a part of the set and that over the rest.
LEMMA SumSplit ==
    ASSUME NEW S, IsFiniteSet(S), NEW f \in [S -> Int], NEW T \in SUBSET S
    PROVE  /\ SumFunction(f) = SumFunction(Restrict(f, T)) + SumFunction(Restrict(f, S \ T))
           /\ SumFunction(Restrict(f, T)) \in Int /\ SumFunction(Restrict(f, S \ T)) \in Int
<1> DEFINE p == [x \in S |-> IF x \in T THEN 1 ELSE 2]
           v == [k \in {1, 2} |-> SumFunction(Restrict(f, {x \in S : p[x] = k}))]
<1>1. p \in [S -> {1, 2}] /\ IsFiniteSet({1, 2})
  <2>1. IsFiniteSet({1} \cup {2})
    BY FS_Singleton, FS_Union
  <2>2. {1, 2} = {1} \cup {2}
    OBVIOUS
  <2> QED
    BY <2>1, <2>2
<1>2. SumFunction(f) = SumFunction(v)
  <2> DEFINE K == {1, 2}
  <2>1. p \in [S -> K] /\ IsFiniteSet(K)
    BY <1>1
  <2> HIDE DEF p, K
  <2>2. SumFunction(f) = SumFunction([k \in K |-> SumFunction(Restrict(f, {x \in S : p[x] = k}))])
    BY <2>1, SumFibres
  <2> QED
    BY <2>2 DEF K
<1>3. {x \in S : p[x] = 1} = T /\ {x \in S : p[x] = 2} = S \ T
  OBVIOUS
<1>4. v[1] = SumFunction(Restrict(f, T)) /\ v[2] = SumFunction(Restrict(f, S \ T))
  BY <1>3
<1>5. SumFunction(Restrict(f, T)) \in Int /\ SumFunction(Restrict(f, S \ T)) \in Int
  BY SumOver
<1>6. v \in [{1, 2} -> Int]
  BY <1>3, <1>5
<1> HIDE DEF v, p
<1>7. /\ SumFunction(v) = v[1] + SumFunction(Restrict(v, {2}))
      /\ SumFunction(Restrict(v, {2})) = v[2] + SumFunction(Restrict(v, {}))
      /\ SumFunction(Restrict(v, {})) = 0
  <2>1. SumFunction(v) = v[1] + SumFunction(Restrict(v, {1, 2} \ {1}))
    BY <1>1, <1>6, SumPoint
  <2>2. SumFunction(Restrict(v, {2})) = v[2] + SumFunction(Restrict(v, {2} \ {2}))
    BY <1>1, <1>6, SumOver
  <2>3. {1, 2} \ {1} = {2} /\ {2} \ {2} = {}
    OBVIOUS
  <2> QED
    BY <2>1, <2>2, <2>3, SumNone
<1> QED
  BY <1>2, <1>4, <1>5, <1>7

\* What is zero beyond a part of the set adds nothing to the sum over it.
LEMMA SumBeyond ==
    ASSUME NEW S, IsFiniteSet(S), NEW f \in [S -> Int], NEW T \in SUBSET S,
           \A x \in S \ T : f[x] = 0
    PROVE  SumFunction(f) = SumFunction(Restrict(f, T))
<1> DEFINE r == Restrict(f, S \ T)
<1>1. IsFiniteSet(S \ T) /\ r \in [S \ T -> Int] /\ \A x \in S \ T : r[x] = 0
  BY FS_Subset DEF Restrict
<1>2. SumFunction(r) = 0
  <2> HIDE DEF r
  <2> QED
    BY <1>1, SumZero
<1> QED
  BY <1>2, SumSplit

\* The sum of one summand and zeros.
LEMMA SumOnly ==
    ASSUME NEW S, IsFiniteSet(S), NEW f \in [S -> Int], NEW x \in S, \A y \in S \ {x} : f[y] = 0
    PROVE  SumFunction(f) = f[x]
<1> DEFINE r == Restrict(f, S \ {x})
<1>1. IsFiniteSet(S \ {x}) /\ r \in [S \ {x} -> Int] /\ \A y \in S \ {x} : r[y] = 0
  BY FS_Subset DEF Restrict
<1>2. SumFunction(r) = 0
  <2> HIDE DEF r
  <2> QED
    BY <1>1, SumZero
<1>3. SumFunction(f) = f[x] + SumFunction(r)
  BY SumPoint
<1> QED
  BY <1>2, <1>3

\* The sum of amounts is an amount.
LEMMA SumNat ==
    ASSUME NEW S, IsFiniteSet(S), NEW f \in [S -> Nat]
    PROVE  SumFunction(f) \in Nat
<1> DEFINE Of(T) == SumFunction(Restrict(f, T))
           F == {T \in SUBSET S : Of(T) \in Nat}
<1>1. f \in [S -> Int]
  OBVIOUS
<1>2. ASSUME NEW T \in SUBSET S
      PROVE  Of(T) \in Int /\ \A x \in T : Of(T) = f[x] + Of(T \ {x}) /\ f[x] \in Nat
  BY <1>1, SumOver
<1>3. Of({}) = 0
  BY SumNone
<1> HIDE DEF Of
<1>4. ASSUME NEW T \in SUBSET S, \A R \in SUBSET T : R # T => R \in F PROVE T \in F
  <2>1. CASE T = {}
    BY <1>3, <2>1
  <2>2. CASE T # {}
    <3>1. PICK x \in T : TRUE
      BY <2>2
    <3>2. T \ {x} \in SUBSET T /\ T \ {x} # T
      OBVIOUS
    <3>3. Of(T \ {x}) \in Nat
      BY <1>4, <3>2
    <3> QED
      BY <1>2, <3>3
  <2> QED
    BY <2>1, <2>2
<1>5. SUBSET S \subseteq F
  <2> HIDE DEF F
  <2> QED
    BY <1>4, SubsetInduction
<1>6. Of(S) \in Nat
  BY <1>5
<1> QED
  BY <1>1, <1>6, RestrictAll DEF Of

=============================================================================

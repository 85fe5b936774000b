----------------------------- MODULE Sums_proofs -----------------------------
(***************************************************************************)
(* Facts the proofs of this project share: induction over the naturals and *)
(* over the subsets of a finite set, each stated of a set (the elements a  *)
(* fact holds of) rather than of an operator, and what follows from it of  *)
(* the sums of the community modules: of MapThenSumSet, whose recursive    *)
(* function exists on a finite set, is unique and takes its elements in    *)
(* any order.  A fold over a sequence is given as a walk, the results      *)
(* after each element, so that what each element keeps is kept to the end. *)
(***************************************************************************)
EXTENDS Integers, FiniteSets, FiniteSetsExt, FiniteSetTheorems, TLAPS

\* A set that has 0, and with a number the next one, has every number.
LEMMA SetInduction ==
    ASSUME NEW S, 0 \in S, \A n \in Nat : n \in S => n + 1 \in S
    PROVE  Nat \subseteq S
<1> DEFINE T == {n \in Nat : n \notin S}
<1>1. SUFFICES ASSUME T # {} PROVE FALSE
  OBVIOUS
<1>2. IsWellFoundedOn(OpToRel(<,Nat), Nat)
  BY NatLessThanWellFounded
<1>3. PICK x \in T : \A y \in T : ~ (<<y, x>> \in OpToRel(<,Nat))
  BY <1>1, <1>2, WFMin
<1>4. \A y \in T : ~(y < x)
  BY <1>3 DEF OpToRel
<1>5. x # 0 /\ x - 1 \in Nat
  OBVIOUS
<1>6. x - 1 \in S
  BY <1>4, <1>5
<1> QED BY <1>5, <1>6

\* The element a fold takes first.
Some(s) == CHOOSE x \in s : TRUE

LEMMA SomeIsIn == \A s : s # {} => Some(s) \in s
BY DEF Some

\* A finite set without one of its elements has one less.
LEMMA OneLess ==
    ASSUME NEW S, IsFiniteSet(S)
    PROVE  /\ Cardinality(S) \in Nat
           /\ Cardinality(S) # 0 => Some(S) \in S
           /\ \A x \in S : IsFiniteSet(S \ {x}) /\ Cardinality(S \ {x}) = Cardinality(S) - 1
<1>1. Cardinality(S) \in Nat
  BY FS_CardinalityType
<1>2. Cardinality(S) # 0 => Some(S) \in S
  BY FS_EmptySet, SomeIsIn
<1>3. ASSUME NEW x \in S
      PROVE  IsFiniteSet(S \ {x}) /\ Cardinality(S \ {x}) = Cardinality(S) - 1
  BY FS_RemoveElement
<1> QED BY <1>1, <1>2, <1>3

\* A set of sets that has {}, and with a subset of U each that has one element
\* more, has every subset of U.
LEMMA SubsetInduction ==
    ASSUME NEW U, IsFiniteSet(U), NEW P, {} \in P,
           \A T \in SUBSET U : \A x \in U \ T : T \in P => T \cup {x} \in P
    PROVE  SUBSET U \subseteq P
<1> DEFINE N == {n \in Nat : \A T \in SUBSET U : Cardinality(T) = n => T \in P}
<1>1. \A T \in SUBSET U : IsFiniteSet(T) /\ Cardinality(T) \in Nat
  BY FS_Subset, FS_CardinalityType
<1>2. 0 \in N
  BY <1>1, FS_EmptySet
<1>3. ASSUME NEW n \in Nat, n \in N PROVE n + 1 \in N
  <2> SUFFICES ASSUME NEW T \in SUBSET U, Cardinality(T) = n + 1 PROVE T \in P
    OBVIOUS
  <2>1. IsFiniteSet(T)
    BY <1>1
  <2>2. PICK x \in T : TRUE
    BY <2>1, OneLess
  <2>3. Cardinality(T \ {x}) = n
    BY <2>1, OneLess
  <2>4. T \ {x} \in SUBSET U /\ x \in U \ (T \ {x}) /\ T = (T \ {x}) \cup {x}
    OBVIOUS
  <2>5. T \ {x} \in P
    BY <1>3, <2>3, <2>4
  <2> QED BY <2>4, <2>5
<1> HIDE DEF N
<1>4. Nat \subseteq N
  BY <1>2, <1>3, SetInduction
<1> QED BY <1>1, <1>4 DEF N

-----------------------------------------------------------------------------
\* What f adds up to over S.
Sum(f, S) == MapThenSumSet(LAMBDA m : f[m], S)

\* The recursive function of the fold, on the sets of D.
Adds(it, f, D) ==
    it = [s \in D |-> IF s = {} THEN 0 ELSE f[Some(s)] + it[s \ {Some(s)}]]

\* The recursive function of a fold: it starts from base and takes the elements
\* of a set in the order c chooses them, with the step F.
Folds(it, D, base, F, c) ==
    \A s \in D : it[s] = IF s = {} THEN base ELSE F[<<c[s], it[s \ {c[s]}]>>]

\* A fold over a finite set, of any step F and any choice c of the element to
\* take, has its recursive function: on the subsets of at most n elements, by
\* induction on n.
LEMMA FoldExists ==
    ASSUME NEW S, IsFiniteSet(S), NEW V, NEW base \in V, NEW F \in [S \X V -> V],
           NEW c, \A s \in SUBSET S : s # {} => c[s] \in s
    PROVE  \E it \in [SUBSET S -> V] : Folds(it, SUBSET S, base, F, c)
<1> DEFINE UpTo(n) == {s \in SUBSET S : Cardinality(s) <= n}
           N == {n \in Nat : \E it \in [UpTo(n) -> V] : Folds(it, UpTo(n), base, F, c)}
<1>1. ASSUME NEW T \in SUBSET S
      PROVE  /\ IsFiniteSet(T) /\ Cardinality(T) \in Nat /\ Cardinality(T) <= Cardinality(S)
             /\ Cardinality(T) <= 0 <=> T = {}
             /\ T # {} => T \ {c[T]} \in SUBSET S
                          /\ Cardinality(T \ {c[T]}) = Cardinality(T) - 1
  <2>1. IsFiniteSet(T) /\ Cardinality(T) \in Nat /\ Cardinality(T) <= Cardinality(S)
    BY FS_Subset, FS_CardinalityType
  <2>2. Cardinality(T) <= 0 <=> T = {}
    <3>1. Cardinality(T) <= 0 <=> Cardinality(T) = 0
      BY <2>1
    <3> QED BY <2>1, <3>1, FS_EmptySet
  <2>3. T # {} => T \ {c[T]} \in SUBSET S /\ Cardinality(T \ {c[T]}) = Cardinality(T) - 1
    BY <2>1, OneLess
  <2> QED BY <2>1, <2>2, <2>3
<1>2. 0 \in N
  <2>1. UpTo(0) = {{}}
    BY <1>1
  <2>2. /\ [s \in UpTo(0) |-> base] \in [UpTo(0) -> V]
        /\ Folds([s \in UpTo(0) |-> base], UpTo(0), base, F, c)
    BY <2>1 DEF Folds
  <2> QED BY <2>2
<1>3. ASSUME NEW n \in Nat, n \in N PROVE n + 1 \in N
  <2>1. PICK it \in [UpTo(n) -> V] : Folds(it, UpTo(n), base, F, c)
    BY <1>3
  <2> DEFINE next == [s \in UpTo(n + 1) |->
                          IF s = {} THEN base ELSE F[<<c[s], it[s \ {c[s]}]>>]]
  <2>2. ASSUME NEW s \in UpTo(n + 1), s # {}
        PROVE  /\ c[s] \in S /\ s \ {c[s]} \in UpTo(n)
               /\ next[s \ {c[s]}] = it[s \ {c[s]}]
    <3>1. c[s] \in S /\ s \in SUBSET S /\ Cardinality(s) <= n + 1
      BY <2>2
    <3>2. /\ s \ {c[s]} \in SUBSET S /\ Cardinality(s \ {c[s]}) = Cardinality(s) - 1
          /\ Cardinality(s) \in Nat
      BY <1>1, <2>2, <3>1
    <3>3. Cardinality(s \ {c[s]}) <= n /\ Cardinality(s \ {c[s]}) <= n + 1
      BY <3>1, <3>2
    <3>4. s \ {c[s]} \in UpTo(n) /\ s \ {c[s]} \in UpTo(n + 1)
      BY <3>2, <3>3
    <3>5. next[s \ {c[s]}] = it[s \ {c[s]}]
      BY <2>1, <3>4 DEF Folds
    <3> QED BY <3>1, <3>4, <3>5
  <2>3. next \in [UpTo(n + 1) -> V]
    <3>1. ASSUME NEW s \in UpTo(n + 1), s # {} PROVE F[<<c[s], it[s \ {c[s]}]>>] \in V
      <4>1. c[s] \in S /\ it[s \ {c[s]}] \in V
        BY <2>2, <3>1
      <4> QED BY <4>1
    <3> QED BY <3>1
  <2>4. ASSUME NEW s \in UpTo(n + 1)
        PROVE  next[s] = IF s = {} THEN base ELSE F[<<c[s], next[s \ {c[s]}]>>]
    <3>1. next[s] = IF s = {} THEN base ELSE F[<<c[s], it[s \ {c[s]}]>>]
      OBVIOUS
    <3>2. s # {} => next[s \ {c[s]}] = it[s \ {c[s]}]
      BY <2>2
    <3> HIDE DEF next
    <3> QED BY <3>1, <3>2
  <2> HIDE DEF next, UpTo, N
  <2>5. Folds(next, UpTo(n + 1), base, F, c)
    BY <2>4 DEF Folds
  <2> QED BY <2>3, <2>5 DEF N
<1> HIDE DEF N
<1>4. Cardinality(S) \in N
  BY <1>1, <1>2, <1>3, SetInduction
<1>5. UpTo(Cardinality(S)) = SUBSET S
  BY <1>1
<1> HIDE DEF UpTo
<1>6. \E it \in [UpTo(Cardinality(S)) -> V] : Folds(it, UpTo(Cardinality(S)), base, F, c)
  BY <1>4 DEF N
<1> QED BY <1>5, <1>6, Zenon

LEMMA AddsExists ==
    ASSUME NEW f, NEW S, IsFiniteSet(S), \A m \in S : f[m] \in Int
    PROVE  \E it : Adds(it, f, SUBSET S)
<1> DEFINE F == [p \in S \X Int |-> f[p[1]] + p[2]]
           c == [s \in SUBSET S |-> Some(s)]
<1>1. F \in [S \X Int -> Int] /\ \A s \in SUBSET S : s # {} => c[s] \in s
  BY SomeIsIn
<1>2. PICK it \in [SUBSET S -> Int] : Folds(it, SUBSET S, 0, F, c)
  <2> DEFINE V == Int
  <2>1. F \in [S \X V -> V] /\ 0 \in V
    BY <1>1
  <2> HIDE DEF F, c, V
  <2>2. \E it \in [SUBSET S -> V] : Folds(it, SUBSET S, 0, F, c)
    BY <1>1, <2>1, FoldExists
  <2> QED BY <2>2 DEF V
<1>3. ASSUME NEW s \in SUBSET S
      PROVE  it[s] = IF s = {} THEN 0 ELSE f[Some(s)] + it[s \ {Some(s)}]
  <2>1. CASE s = {}
    BY <1>2, <2>1 DEF Folds
  <2>2. CASE s # {}
    <3>1. c[s] = Some(s) /\ Some(s) \in S /\ s \ {Some(s)} \in SUBSET S
      BY <2>2, SomeIsIn
    <3>2. F[<<Some(s), it[s \ {Some(s)}]>>] = f[Some(s)] + it[s \ {Some(s)}]
      BY <1>2, <3>1
    <3> QED BY <1>2, <2>2, <3>1, <3>2 DEF Folds
  <2> QED BY <2>1, <2>2
<1>4. it = [s \in SUBSET S |-> IF s = {} THEN 0 ELSE f[Some(s)] + it[s \ {Some(s)}]]
  BY <1>2, <1>3
<1> QED BY <1>4 DEF Adds

\* The sum over S is that function of S.
LEMMA SumIsAdds ==
    ASSUME NEW f, NEW S, IsFiniteSet(S), \A m \in S : f[m] \in Int
    PROVE  \E it : Adds(it, f, SUBSET S) /\ Sum(f, S) = it[S]
<1>1. Sum(f, S) = (CHOOSE it : Adds(it, f, SUBSET S))[S]
  BY DEF Sum, MapThenSumSet, MapThenFoldSet, Adds, Some
<1> QED BY <1>1, AddsExists

\* Two such functions agree where both are defined.
LEMMA AddsUnique ==
    ASSUME NEW f, NEW S, IsFiniteSet(S)
    PROVE  \A T \in SUBSET S : \A it, jt :
               Adds(it, f, SUBSET S) /\ Adds(jt, f, SUBSET T) => it[T] = jt[T]
<1> SUFFICES ASSUME NEW T \in SUBSET S,
                    NEW it, Adds(it, f, SUBSET S), NEW jt, Adds(jt, f, SUBSET T)
             PROVE  it[T] = jt[T]
  OBVIOUS
<1> DEFINE N == {n \in Nat : \A s \in SUBSET T : Cardinality(s) = n => it[s] = jt[s]}
<1>1. IsFiniteSet(T) /\ Cardinality(T) \in Nat
  BY FS_Subset, FS_CardinalityType
<1>2. \A s \in SUBSET T : IsFiniteSet(s) /\ Cardinality(s) \in Nat
  BY <1>1, FS_Subset, FS_CardinalityType
<1>3. 0 \in N
  <2>1. it[{}] = 0 /\ jt[{}] = 0
    BY DEF Adds
  <2> QED BY <1>2, <2>1, FS_EmptySet
<1>4. ASSUME NEW n \in Nat, n \in N PROVE n + 1 \in N
  <2> SUFFICES ASSUME NEW s \in SUBSET T, Cardinality(s) = n + 1 PROVE it[s] = jt[s]
    OBVIOUS
  <2>1. IsFiniteSet(s)
    BY <1>2
  <2>2. /\ s # {} /\ Some(s) \in s
        /\ s \ {Some(s)} \in SUBSET T /\ Cardinality(s \ {Some(s)}) = n
    BY <2>1, OneLess
  <2>3. it[s \ {Some(s)}] = jt[s \ {Some(s)}]
    BY <1>4, <2>2
  <2> QED BY <2>2, <2>3 DEF Adds
<1> HIDE DEF N
<1>5. Nat \subseteq N
  BY <1>3, <1>4, SetInduction
<1> QED BY <1>1, <1>5 DEF N

LEMMA SumEmpty == \A f : Sum(f, {}) = 0
<1>1. ASSUME NEW f PROVE Sum(f, {}) = 0
  <2>1. PICK it : Adds(it, f, SUBSET {}) /\ Sum(f, {}) = it[{}]
    BY SumIsAdds, FS_EmptySet
  <2> QED BY <2>1 DEF Adds
<1> QED BY <1>1

LEMMA SumChosen ==
    ASSUME NEW f, NEW S, IsFiniteSet(S), \A m \in S : f[m] \in Int, S # {}
    PROVE  Sum(f, S) = f[Some(S)] + Sum(f, S \ {Some(S)})
<1> DEFINE R == S \ {Some(S)}
<1>1. PICK it : Adds(it, f, SUBSET S) /\ Sum(f, S) = it[S]
  BY SumIsAdds
<1>2. R \in SUBSET S /\ IsFiniteSet(R)
  BY FS_RemoveElement
<1> HIDE DEF R
<1>3. PICK jt : Adds(jt, f, SUBSET R) /\ Sum(f, R) = jt[R]
  BY <1>2, SumIsAdds
<1>4. it[R] = jt[R]
  BY <1>1, <1>2, <1>3, AddsUnique
<1>5. it[S] = f[Some(S)] + it[R]
  BY <1>1 DEF Adds, R
<1> QED BY <1>1, <1>3, <1>4, <1>5 DEF R

LEMMA SumIsInt ==
    ASSUME NEW f, NEW S, IsFiniteSet(S), \A m \in S : f[m] \in Int
    PROVE  Sum(f, S) \in Int
<1> DEFINE N == {n \in Nat : \A T \in SUBSET S : Cardinality(T) = n => Sum(f, T) \in Int}
<1>1. \A T \in SUBSET S : IsFiniteSet(T) /\ Cardinality(T) \in Nat
  BY FS_Subset, FS_CardinalityType
<1>2. 0 \in N
  BY <1>1, FS_EmptySet, SumEmpty
<1>3. ASSUME NEW n \in Nat, n \in N PROVE n + 1 \in N
  <2> SUFFICES ASSUME NEW T \in SUBSET S, Cardinality(T) = n + 1 PROVE Sum(f, T) \in Int
    OBVIOUS
  <2>1. /\ T # {} /\ Some(T) \in T /\ IsFiniteSet(T)
        /\ T \ {Some(T)} \in SUBSET S /\ Cardinality(T \ {Some(T)}) = n
    BY <1>1, OneLess
  <2>3. Sum(f, T \ {Some(T)}) \in Int /\ f[Some(T)] \in Int
    BY <1>3, <2>1
  <2> QED BY <2>1, <2>3, SumChosen
<1> HIDE DEF N
<1>4. Nat \subseteq N
  BY <1>2, <1>3, SetInduction
<1> QED BY <1>1, <1>4 DEF N

\* Any element may be taken first.
LEMMA SumRemove ==
    ASSUME NEW f, NEW S, IsFiniteSet(S), \A m \in S : f[m] \in Int
    PROVE  \A x \in S : Sum(f, S) = f[x] + Sum(f, S \ {x})
<1> DEFINE N == {n \in Nat : \A T \in SUBSET S : \A y \in T :
                     Cardinality(T) = n => Sum(f, T) = f[y] + Sum(f, T \ {y})}
<1>1. ASSUME NEW T \in SUBSET S
      PROVE  IsFiniteSet(T) /\ Cardinality(T) \in Nat /\ Sum(f, T) \in Int
  <2>1. IsFiniteSet(T) /\ Cardinality(T) \in Nat
    BY FS_Subset, FS_CardinalityType
  <2> QED BY <2>1, SumIsInt
<1>2. 0 \in N
  BY <1>1, FS_EmptySet
<1>3. ASSUME NEW n \in Nat, n \in N PROVE n + 1 \in N
  <2> SUFFICES ASSUME NEW T \in SUBSET S, NEW y \in T, Cardinality(T) = n + 1
               PROVE  Sum(f, T) = f[y] + Sum(f, T \ {y})
    OBVIOUS
  <2> DEFINE c == Some(T)
  <2>1. c \in T /\ Sum(f, T) = f[c] + Sum(f, T \ {c})
    BY <1>1, SomeIsIn, SumChosen
  <2>2. SUFFICES ASSUME c # y PROVE Sum(f, T) = f[y] + Sum(f, T \ {y})
    BY <2>1
  <2> HIDE DEF c
  <2>7. Cardinality(T \ {c}) = n /\ Cardinality(T \ {y}) = n
    BY <1>1, <2>1, OneLess
  <2>3. Sum(f, T \ {c}) = f[y] + Sum(f, (T \ {c}) \ {y})
    <3>1. T \ {c} \in SUBSET S /\ y \in T \ {c}
      BY <2>1, <2>2
    <3> QED BY <1>3, <2>7, <3>1
  <2>4. Sum(f, T \ {y}) = f[c] + Sum(f, (T \ {y}) \ {c})
    <3>1. T \ {y} \in SUBSET S /\ c \in T \ {y}
      BY <2>1, <2>2
    <3> QED BY <1>3, <2>7, <3>1
  <2> DEFINE R == (T \ {c}) \ {y}
  <2>5. (T \ {y}) \ {c} = R /\ R \in SUBSET S
    OBVIOUS
  <2>6. Sum(f, T \ {y}) = f[c] + Sum(f, R)
    BY <2>4, <2>5
  <2>8. Sum(f, T \ {c}) = f[y] + Sum(f, R)
    BY <2>3
  <2> HIDE DEF R
  <2>9. f[y] \in Int /\ f[c] \in Int /\ Sum(f, R) \in Int
    BY <1>1, <2>1, <2>5
  <2> QED BY <2>1, <2>6, <2>8, <2>9
<1> HIDE DEF N
<1>4. Nat \subseteq N
  BY <1>2, <1>3, SetInduction
<1> QED BY <1>1, <1>4 DEF N

LEMMA SumGrow ==
    ASSUME NEW f, NEW S, IsFiniteSet(S), \A m \in S : f[m] \in Int,
           NEW T \in SUBSET S, NEW x \in S \ T
    PROVE  /\ Sum(f, T \cup {x}) = f[x] + Sum(f, T)
           /\ f[x] \in Int /\ Sum(f, T) \in Int /\ Sum(f, T \cup {x}) \in Int
<1> DEFINE R == T \cup {x}
<1>1. R \in SUBSET S /\ IsFiniteSet(R) /\ IsFiniteSet(T) /\ x \in R /\ R \ {x} = T
  BY FS_Subset
<1> HIDE DEF R
<1>2. Sum(f, R) = f[x] + Sum(f, R \ {x})
  BY <1>1, SumRemove
<1>3. f[x] \in Int /\ Sum(f, T) \in Int /\ Sum(f, R) \in Int
  BY <1>1, SumIsInt
<1> QED BY <1>1, <1>2, <1>3 DEF R

\* A sum of sums.
LEMMA SumPlus ==
    ASSUME NEW S, IsFiniteSet(S), NEW f, NEW g, NEW h,
           \A m \in S : f[m] \in Int /\ g[m] \in Int /\ h[m] = f[m] + g[m]
    PROVE  Sum(h, S) = Sum(f, S) + Sum(g, S)
<1> DEFINE P == {T \in SUBSET S : Sum(h, T) = Sum(f, T) + Sum(g, T)}
<1>1. {} \in P
  BY SumEmpty
<1>2. ASSUME NEW T \in SUBSET S, NEW x \in S \ T, T \in P PROVE T \cup {x} \in P
  <2>1. Sum(f, T \cup {x}) = f[x] + Sum(f, T) /\ f[x] \in Int /\ Sum(f, T) \in Int
    BY SumGrow
  <2>2. Sum(g, T \cup {x}) = g[x] + Sum(g, T) /\ g[x] \in Int /\ Sum(g, T) \in Int
    BY SumGrow
  <2>3. Sum(h, T \cup {x}) = h[x] + Sum(h, T)
    <3>1. \A m \in S : h[m] \in Int
      OBVIOUS
    <3> QED BY <3>1, SumGrow
  <2>4. h[x] = f[x] + g[x] /\ Sum(h, T) = Sum(f, T) + Sum(g, T)
    BY <1>2
  <2>5. Sum(h, T \cup {x}) = Sum(f, T \cup {x}) + Sum(g, T \cup {x})
    BY <2>1, <2>2, <2>3, <2>4
  <2> QED BY <2>5
<1> HIDE DEF P
<1>3. SUBSET S \subseteq P
  BY <1>1, <1>2, SubsetInduction
<1> QED BY <1>3 DEF P

\* A factor comes out of the sum.
LEMMA SumTimes ==
    ASSUME NEW S, IsFiniteSet(S), NEW f, NEW g, NEW c \in Int,
           \A m \in S : f[m] \in Int /\ g[m] = f[m] * c
    PROVE  Sum(g, S) = Sum(f, S) * c
<1> DEFINE P == {T \in SUBSET S : Sum(g, T) = Sum(f, T) * c}
<1>1. {} \in P
  BY SumEmpty
<1>2. ASSUME NEW T \in SUBSET S, NEW x \in S \ T, T \in P PROVE T \cup {x} \in P
  <2>1. Sum(f, T \cup {x}) = f[x] + Sum(f, T) /\ f[x] \in Int /\ Sum(f, T) \in Int
    BY SumGrow
  <2>2. Sum(g, T \cup {x}) = g[x] + Sum(g, T)
    <3>1. \A m \in S : g[m] \in Int
      OBVIOUS
    <3> QED BY <3>1, SumGrow
  <2>3. g[x] = f[x] * c /\ Sum(g, T) = Sum(f, T) * c
    BY <1>2
  <2>4. \A a, b \in Int : (a + b) * c = a * c + b * c
    OBVIOUS
  <2>5. Sum(g, T \cup {x}) = Sum(f, T \cup {x}) * c
    BY <2>1, <2>2, <2>3, <2>4
  <2> QED BY <2>5
<1> HIDE DEF P
<1>3. SUBSET S \subseteq P
  BY <1>1, <1>2, SubsetInduction
<1> QED BY <1>3 DEF P

\* Sums compare as their terms do.
LEMMA SumLeq ==
    ASSUME NEW S, IsFiniteSet(S), NEW f, NEW g,
           \A m \in S : f[m] \in Int /\ g[m] \in Int /\ f[m] <= g[m]
    PROVE  Sum(f, S) <= Sum(g, S)
<1> DEFINE P == {T \in SUBSET S : Sum(f, T) <= Sum(g, T)}
<1>1. {} \in P
  BY SumEmpty
<1>2. ASSUME NEW T \in SUBSET S, NEW x \in S \ T, T \in P PROVE T \cup {x} \in P
  <2>1. Sum(f, T \cup {x}) = f[x] + Sum(f, T) /\ f[x] \in Int /\ Sum(f, T) \in Int
    BY SumGrow
  <2>2. Sum(g, T \cup {x}) = g[x] + Sum(g, T) /\ g[x] \in Int /\ Sum(g, T) \in Int
    BY SumGrow
  <2>3. f[x] <= g[x] /\ Sum(f, T) <= Sum(g, T)
    BY <1>2
  <2>4. Sum(f, T \cup {x}) <= Sum(g, T \cup {x})
    BY <2>1, <2>2, <2>3
  <2> QED BY <2>4
<1> HIDE DEF P
<1>3. SUBSET S \subseteq P
  BY <1>1, <1>2, SubsetInduction
<1> QED BY <1>3 DEF P

LEMMA SumSame ==
    ASSUME NEW S, IsFiniteSet(S), NEW f, NEW g, \A m \in S : f[m] \in Int /\ g[m] = f[m]
    PROVE  Sum(g, S) = Sum(f, S)
<1>1. Sum(f, S) <= Sum(g, S) /\ Sum(g, S) <= Sum(f, S)
  BY SumLeq
<1>2. Sum(f, S) \in Int /\ Sum(g, S) \in Int
  BY SumIsInt
<1> QED BY <1>1, <1>2

\* What is nothing outside A adds up to its sum over A.
LEMMA SumPart ==
    ASSUME NEW S, IsFiniteSet(S), NEW f, NEW A \in SUBSET S,
           \A m \in S : f[m] \in Int /\ (m \notin A => f[m] = 0)
    PROVE  Sum(f, S) = Sum(f, A)
<1> DEFINE P == {T \in SUBSET S : Sum(f, T) = Sum(f, T \cap A)}
<1>1. {} \in P
  BY SumEmpty
<1>2. ASSUME NEW T \in SUBSET S, NEW x \in S \ T, T \in P PROVE T \cup {x} \in P
  <2>1. Sum(f, T \cup {x}) = f[x] + Sum(f, T) /\ Sum(f, T) \in Int
    BY SumGrow
  <2>2. CASE x \in A
    <3> DEFINE TA == T \cap A
    <3>1. TA \in SUBSET S /\ x \in S \ TA /\ (T \cup {x}) \cap A = TA \cup {x}
      BY <2>2
    <3>2. Sum(f, T) = Sum(f, TA)
      BY <1>2
    <3> HIDE DEF TA, P
    <3>3. Sum(f, TA \cup {x}) = f[x] + Sum(f, TA)
      BY <3>1, SumGrow
    <3> QED BY <2>1, <3>1, <3>2, <3>3 DEF P
  <2>3. CASE x \notin A
    <3>1. (T \cup {x}) \cap A = T \cap A /\ f[x] = 0
      BY <2>3
    <3>2. Sum(f, T \cup {x}) = Sum(f, T)
      BY <2>1, <3>1
    <3> QED BY <1>2, <3>1, <3>2
  <2> QED BY <2>2, <2>3
<1> HIDE DEF P
<1>3. SUBSET S \subseteq P
  BY <1>1, <1>2, SubsetInduction
<1>4. S \cap A = A
  OBVIOUS
<1>5. S \in P
  BY <1>3
<1> QED BY <1>4, <1>5 DEF P

\* One for each of A, and nothing for the others, is how many A are.
LEMMA SumCounts ==
    ASSUME NEW S, IsFiniteSet(S), NEW f, NEW A \in SUBSET S,
           \A m \in S : f[m] = IF m \in A THEN 1 ELSE 0
    PROVE  Sum(f, S) = Cardinality(A)
<1> DEFINE P == {T \in SUBSET S : Sum(f, T) = Cardinality(T \cap A)}
<1>1. {} \in P
  <2>1. {} \cap A = {}
    OBVIOUS
  <2> QED BY <2>1, SumEmpty, FS_EmptySet
<1>2. ASSUME NEW T \in SUBSET S, NEW x \in S \ T, T \in P PROVE T \cup {x} \in P
  <2> DEFINE TA == T \cap A
  <2>1. Sum(f, T \cup {x}) = f[x] + Sum(f, T)
    <3>1. \A m \in S : f[m] \in Int
      OBVIOUS
    <3> QED BY <3>1, SumGrow
  <2>2. IsFiniteSet(TA) /\ Cardinality(TA) \in Nat /\ Sum(f, T) = Cardinality(TA)
    BY <1>2, FS_Subset, FS_CardinalityType
  <2>3. CASE x \in A
    <3>1. (T \cup {x}) \cap A = TA \cup {x} /\ x \notin TA /\ f[x] = 1
      BY <2>3
    <3> HIDE DEF TA, P
    <3>2. Cardinality(TA \cup {x}) = Cardinality(TA) + 1
      BY <2>2, <3>1, FS_AddElement
    <3> QED BY <2>1, <2>2, <3>1, <3>2 DEF P
  <2>4. CASE x \notin A
    <3>1. (T \cup {x}) \cap A = TA /\ f[x] = 0
      BY <2>4
    <3> HIDE DEF TA, P
    <3>2. Sum(f, T \cup {x}) = Cardinality(TA)
      BY <2>1, <2>2, <3>1
    <3> QED BY <3>1, <3>2 DEF P
  <2> QED BY <2>3, <2>4
<1> HIDE DEF P
<1>3. SUBSET S \subseteq P
  BY <1>1, <1>2, SubsetInduction
<1>4. S \cap A = A
  OBVIOUS
<1>5. S \in P
  BY <1>3
<1> QED BY <1>4, <1>5 DEF P

\* Where nothing is positive neither is the sum, and no term is below it.
LEMMA SumSign ==
    ASSUME NEW S, IsFiniteSet(S), NEW f, \A m \in S : f[m] \in Int /\ f[m] <= 0
    PROVE  Sum(f, S) \in Int /\ Sum(f, S) <= 0 /\ \A x \in S : Sum(f, S) <= f[x]
<1> DEFINE zero == [m \in S |-> 0]
<1>1. ASSUME NEW T \in SUBSET S PROVE Sum(f, T) \in Int /\ Sum(f, T) <= 0
  <2>1. IsFiniteSet(T) /\ {} \in SUBSET T
    BY FS_Subset
  <2>2. \A m \in T : zero[m] \in Int /\ (m \notin {} => zero[m] = 0) /\ f[m] <= zero[m]
    OBVIOUS
  <2> HIDE DEF zero
  <2>3. Sum(zero, T) = Sum(zero, {})
    BY <2>1, <2>2, SumPart
  <2>4. Sum(f, T) <= Sum(zero, T) /\ Sum(f, T) \in Int
    BY <2>1, <2>2, SumLeq, SumIsInt
  <2> QED BY <2>3, <2>4, SumEmpty
<1>2. ASSUME NEW x \in S PROVE Sum(f, S) <= f[x]
  <2>1. Sum(f, S) = f[x] + Sum(f, S \ {x})
    BY SumRemove
  <2>2. Sum(f, S \ {x}) \in Int /\ Sum(f, S \ {x}) <= 0
    BY <1>1
  <2> QED BY <2>1, <2>2
<1> QED BY <1>1, <1>2

-----------------------------------------------------------------------------
\* In a finite strict order any two of which compare, n come before all others:
\* those that fewer than n are ahead of.
LEMMA Ranks ==
    ASSUME NEW D, IsFiniteSet(D), NEW ahead \in [D -> SUBSET D],
           \A m \in D : m \notin ahead[m],
           \A j, k, m \in D : j \in ahead[k] /\ k \in ahead[m] => j \in ahead[m],
           \A k, m \in D : k # m => k \in ahead[m] \/ m \in ahead[k],
           NEW n \in Nat, n <= Cardinality(D)
    PROVE  Cardinality({m \in D : Cardinality(ahead[m]) < n}) = n
<1> DEFINE N == Cardinality(D)
           rank == [m \in D |-> Cardinality(ahead[m])]
<1>1. N \in Nat
  BY FS_CardinalityType
<1>2. ASSUME NEW m \in D PROVE IsFiniteSet(ahead[m]) /\ rank[m] \in 0..(N - 1)
  <2>1. IsFiniteSet(D \ {m}) /\ Cardinality(D \ {m}) = N - 1
    BY FS_RemoveElement
  <2>2. ahead[m] \subseteq D \ {m}
    OBVIOUS
  <2>3. IsFiniteSet(ahead[m]) /\ Cardinality(ahead[m]) \in Nat /\ Cardinality(ahead[m]) <= N - 1
    BY <2>1, <2>2, FS_Subset, FS_CardinalityType
  <2> QED BY <1>1, <2>3
<1>3. ASSUME NEW m \in D, NEW k \in ahead[m] PROVE rank[k] < rank[m]
  <2>1. ahead[k] \subseteq ahead[m] \ {k}
    OBVIOUS
  <2>2. IsFiniteSet(ahead[m]) /\ IsFiniteSet(ahead[m] \ {k})
        /\ Cardinality(ahead[m] \ {k}) = Cardinality(ahead[m]) - 1
    BY <1>2, FS_RemoveElement
  <2>3. Cardinality(ahead[k]) <= Cardinality(ahead[m] \ {k})
    BY <2>1, <2>2, FS_Subset
  <2>4. Cardinality(ahead[m]) \in Int /\ Cardinality(ahead[k]) \in Int
    BY <1>2
  <2> QED BY <2>2, <2>3, <2>4
<1>4. rank \in Injection(D, 0..(N - 1))
  <2>1. rank \in [D -> 0..(N - 1)]
    BY <1>2
  <2>2. ASSUME NEW k \in D, NEW m \in D, rank[k] = rank[m] PROVE k = m
    <3>1. rank[k] \in Int
      BY <1>2
    <3> HIDE DEF rank
    <3> QED BY <1>3, <2>2, <3>1
  <2> HIDE DEF rank
  <2> QED BY <2>1, <2>2 DEF Injection, IsInjective
<1>5. rank \in Surjection(D, 0..(N - 1))
  <2>1. IsFiniteSet(0..(N - 1)) /\ Cardinality(0..(N - 1)) = N
    <3> HIDE DEF N
    <3>1. N - 1 \in Int
      BY <1>1
    <3>2. /\ IsFiniteSet(0..(N - 1))
          /\ Cardinality(0..(N - 1)) = IF 0 > N - 1 THEN 0 ELSE (N - 1) - 0 + 1
      BY <3>1, FS_Interval
    <3> QED BY <1>1, <3>2
  <2> HIDE DEF rank
  <2> QED BY <1>4, <2>1, FS_Injection
<1> DEFINE Low == {m \in D : Cardinality(ahead[m]) < n}
           low == [m \in Low |-> rank[m]]
<1>6. low \in Bijection(Low, 0..(n - 1))
  <2>1. low \in [Low -> 0..(n - 1)]
    BY <1>2
  <2>2. \A k, m \in Low : low[k] = low[m] => k = m
    BY <1>4 DEF Injection, IsInjective
  <2>3. ASSUME NEW t \in 0..(n - 1) PROVE \E m \in Low : low[m] = t
    <3>1. t \in 0..(N - 1)
      BY <1>1
    <3>2. PICK m \in D : rank[m] = t
      BY <1>5, <3>1 DEF Surjection
    <3> QED BY <3>2
  <2> HIDE DEF low, Low
  <2> QED BY <2>1, <2>2, <2>3 DEF Bijection, Injection, Surjection, IsInjective
<1>7. IsFiniteSet(Low)
  BY FS_Subset
<1>8. Cardinality(0..(n - 1)) = n
  BY FS_Interval
<1> HIDE DEF Low, low
<1>9. Cardinality(0..(n - 1)) = Cardinality(Low)
  BY <1>6, <1>7, FS_Bijection DEF ExistsBijection
<1> QED BY <1>8, <1>9 DEF Low

-----------------------------------------------------------------------------
\* FoldLeft takes the indices of a sequence biggest first, from 1..n.
LEMMA MaxOf ==
    ASSUME NEW n \in Nat
    PROVE  /\ IsFiniteSet(1..n)
           /\ \A s \in SUBSET (1..n) : s # {} => Max(s) \in s
           /\ \A k \in 1..n : Max(1..k) = k /\ (1..k) \ {k} = 1..(k - 1)
<1>1. IsFiniteSet(1..n)
  BY FS_Interval
<1> DEFINE P == {T \in SUBSET (1..n) : T # {} => \E x \in T : \A y \in T : x >= y}
<1>2. {} \in P
  OBVIOUS
<1>3. ASSUME NEW T \in SUBSET (1..n), NEW x \in (1..n) \ T, T \in P PROVE T \cup {x} \in P
  <2> SUFFICES \E z \in T \cup {x} : \A y \in T \cup {x} : z >= y
    OBVIOUS
  <2>1. CASE T = {}
    BY <2>1
  <2>2. CASE T # {}
    <3>1. PICK z \in T : \A y \in T : z >= y
      BY <1>3, <2>2
    <3>2. \A y \in T \cup {x} : y \in Int
      OBVIOUS
    <3> QED BY <3>1, <3>2
  <2> QED BY <2>1, <2>2
<1> HIDE DEF P
<1>4. SUBSET (1..n) \subseteq P
  <2> DEFINE U == 1..n
  <2>1. IsFiniteSet(U) /\ \A T \in SUBSET U : \A x \in U \ T : T \in P => T \cup {x} \in P
    BY <1>1, <1>3
  <2> HIDE DEF U
  <2>2. SUBSET U \subseteq P
    BY <1>2, <2>1, SubsetInduction
  <2> QED BY <2>2 DEF U
<1>5. ASSUME NEW s \in SUBSET (1..n), s # {} PROVE Max(s) \in s
  <2>1. \E x \in s : \A y \in s : x >= y
    BY <1>4, <1>5 DEF P
  <2> QED BY <2>1 DEF Max
<1>6. ASSUME NEW k \in 1..n PROVE Max(1..k) = k /\ (1..k) \ {k} = 1..(k - 1)
  <2>1. k \in 1..k /\ \A y \in 1..k : k >= y
    OBVIOUS
  <2>2. \A x \in 1..k : (\A y \in 1..k : x >= y) => x = k
    OBVIOUS
  <2> QED BY <2>1, <2>2 DEF Max
<1> QED BY <1>1, <1>5, <1>6

\* The recursive function of a fold over 1..n that takes the biggest first: all
\* of it, or as far as its values are in V; and the same as a walk from 1 up.
FoldsUp(it, n, base, F) ==
    \A s \in SUBSET (1..n) :
        it[s] = IF s = {} THEN base ELSE F[<<Max(s), it[s \ {Max(s)}]>>]

FoldsIn(it, n, V, base, F) ==
    /\ it[{}] = base
    /\ \A s \in SUBSET (1..n) : s # {} /\ it[s \ {Max(s)}] \in V
                               => it[s] = F[<<Max(s), it[s \ {Max(s)}]>>]

Climbs(w, n, base, F) == w[0] = base /\ \A k \in 1..n : w[k] = F[<<k, w[k - 1]>>]

LEMMA WalkIs ==
    \A n \in Nat : \A V, base, F, it :
        base \in V /\ F \in [(1..n) \X V -> V] /\ FoldsIn(it, n, V, base, F)
        => \E w : w \in [0..n -> V] /\ Climbs(w, n, base, F) /\ w[n] = it[1..n]
<1> SUFFICES ASSUME NEW n \in Nat, NEW V, NEW base, NEW F, NEW it,
                    base \in V, F \in [(1..n) \X V -> V], FoldsIn(it, n, V, base, F)
             PROVE  \E w : w \in [0..n -> V] /\ Climbs(w, n, base, F) /\ w[n] = it[1..n]
  OBVIOUS
<1> USE DEF FoldsIn, Climbs
<1> DEFINE w == [k \in 0..n |-> it[1..k]]
           N == {k \in Nat : k <= n => it[1..k] \in V}
<1>1. ASSUME NEW k \in 1..n, it[1..(k - 1)] \in V
      PROVE  it[1..k] = F[<<k, it[1..(k - 1)]>>] /\ it[1..k] \in V
  <2> DEFINE s == 1..k
  <2>1. s \in SUBSET (1..n) /\ s # {} /\ Max(s) = k /\ s \ {k} = 1..(k - 1)
    <3>1. s \in SUBSET (1..n) /\ s # {}
      OBVIOUS
    <3>2. Max(1..k) = k /\ (1..k) \ {k} = 1..(k - 1)
      BY MaxOf
    <3> QED BY <3>1, <3>2
  <2> HIDE DEF s
  <2>2. it[s] = F[<<k, it[1..(k - 1)]>>]
    BY <1>1, <2>1
  <2> QED BY <1>1, <2>2 DEF s
<1>2. 0 \in N /\ it[1..0] = base
  <2>1. 1..0 = {}
    OBVIOUS
  <2> QED BY <2>1
<1>3. ASSUME NEW k \in Nat, k \in N PROVE k + 1 \in N
  <2> SUFFICES ASSUME k + 1 <= n PROVE it[1..(k + 1)] \in V
    OBVIOUS
  <2>1. k + 1 \in 1..n /\ (k + 1) - 1 = k /\ it[1..k] \in V
    BY <1>3
  <2>2. it[1..((k + 1) - 1)] \in V
    BY <2>1
  <2> QED BY <1>1, <2>1, <2>2
<1> HIDE DEF N
<1>4. Nat \subseteq N
  BY <1>2, <1>3, SetInduction
<1>5. \A k \in 0..n : it[1..k] \in V
  BY <1>4 DEF N
<1>6. w \in [0..n -> V]
  BY <1>5
<1>7. w[0] = base /\ w[n] = it[1..n]
  BY <1>2
<1>8. ASSUME NEW k \in 1..n PROVE w[k] = F[<<k, w[k - 1]>>]
  <2>1. k - 1 \in 0..n /\ k \in 0..n
    OBVIOUS
  <2>2. w[k] = it[1..k] /\ w[k - 1] = it[1..(k - 1)]
    BY <2>1
  <2> QED BY <1>1, <1>5, <2>1, <2>2
<1> HIDE DEF w
<1> QED BY <1>6, <1>7, <1>8

\* Such a fold has its recursive function.
LEMMA WalkExists ==
    \A n \in Nat : \A V, base, F :
        base \in V /\ F \in [(1..n) \X V -> V]
        => \E it : it \in [SUBSET (1..n) -> V] /\ FoldsUp(it, n, base, F)
<1> SUFFICES ASSUME NEW n \in Nat, NEW V, NEW base, NEW F, base \in V,
                    F \in [(1..n) \X V -> V]
             PROVE  \E it : it \in [SUBSET (1..n) -> V] /\ FoldsUp(it, n, base, F)
  OBVIOUS
<1> DEFINE S == 1..n
           c == [s \in SUBSET S |-> Max(s)]
<1>1. IsFiniteSet(S) /\ (\A s \in SUBSET S : c[s] = Max(s))
      /\ \A s \in SUBSET S : s # {} => c[s] \in s
  BY MaxOf
<1> HIDE DEF S, c
<1>2. F \in [S \X V -> V]
  BY DEF S
<1>3. PICK it \in [SUBSET S -> V] : Folds(it, SUBSET S, base, F, c)
  BY <1>1, <1>2, FoldExists
<1>4. \A s \in SUBSET S : it[s] = IF s = {} THEN base ELSE F[<<Max(s), it[s \ {Max(s)}]>>]
  BY <1>1, <1>3 DEF Folds
<1> QED BY <1>4 DEF S, FoldsUp

=============================================================================

----------------------------- MODULE Inductions ------------------------------
(***************************************************************************)
(* Induction over data, in forms that need no operator for a parameter,    *)
(* and what it says of the two ways the models recurse: a function defined *)
(* step by step along a sequence, and SumFunctionOnSet, for every function *)
(* and every finite set.                                                   *)
(***************************************************************************)
EXTENDS Integers, FiniteSets, Functions, FiniteSetTheorems, WellFoundedInduction, TLAPS

-----------------------------------------------------------------------------
(* Induction. *)

(***************************************************************************)
(* Induction: a property that fails for some subset of a finite set fails  *)
(* for one all of whose smaller subsets have it.                           *)
(***************************************************************************)
LEMMA MinimalSubset ==
    ASSUME NEW S, IsFiniteSet(S), NEW B \in SUBSET (SUBSET S), B # {}
    PROVE  \E T \in B : \A U \in SUBSET T : U # T => U \notin B
<1>1. IsWellFoundedOn(StrictSubsetOrdering(S), FiniteSubsetsOf(S))
  BY FS_StrictSubsetOrderingWellFounded
<1>2. B \subseteq FiniteSubsetsOf(S)
  BY FS_FiniteSubsetsOfFinite
<1>3. \E T \in B : \A U \in B : ~ (<<U, T>> \in StrictSubsetOrdering(S))
  BY <1>1, <1>2, WFMin
<1> QED
  BY <1>3 DEF StrictSubsetOrdering

(***************************************************************************)
(* The same for numbers up to a bound.                                     *)
(***************************************************************************)
LEMMA LeastNumber ==
    ASSUME NEW N \in Nat, NEW B \in SUBSET (0..N), B # {}
    PROVE  \E n \in B : \A m \in B : n <= m
<1> DEFINE Below == {0..n : n \in B}
<1>1. IsFiniteSet(0..N)
  BY FS_Interval
<1>2. Below \in SUBSET (SUBSET (0..N)) /\ Below # {}
  <2>1. \A n \in B : 0..n \subseteq 0..N
    OBVIOUS
  <2> QED
    BY <2>1
<1>3. PICK T \in Below : \A U \in SUBSET T : U # T => U \notin Below
  <2> HIDE DEF Below
  <2> DEFINE S == 0..N
  <2>1. IsFiniteSet(S) /\ Below \in SUBSET (SUBSET S)
    BY <1>1, <1>2
  <2> HIDE DEF S
  <2> QED
    BY <1>2, <2>1, MinimalSubset
<1>4. PICK n \in B : T = 0..n
  BY <1>3
<1>5. ASSUME NEW m \in B, ~(n <= m)
      PROVE  FALSE
  <2>1. 0..m \in SUBSET T /\ n \in T /\ n \notin 0..m
    BY <1>4, <1>5
  <2> QED
    BY <1>3, <1>5, <2>1
<1> QED
  BY <1>5

(***************************************************************************)
(* Counting: a set with 0, and with the successor of each of its elements  *)
(* below N, has all the numbers up to N.                                   *)
(***************************************************************************)
LEMMA Counting ==
    ASSUME NEW N \in Nat, NEW S, 0 \in S, \A i \in 0..(N - 1) : i \in S => i + 1 \in S
    PROVE  \A i \in 0..N : i \in S
<1> DEFINE B == (0..N) \ S
<1> SUFFICES ASSUME B # {}
             PROVE  FALSE
  OBVIOUS
<1>1. PICK n \in B : \A m \in B : n <= m
  <2>1. B \in SUBSET (0..N)
    OBVIOUS
  <2> HIDE DEF B
  <2> QED
    BY <2>1, LeastNumber
<1>2. n \in 1..N /\ n \notin S
  BY <1>1
<1>3. n - 1 \in 0..(N - 1) /\ n - 1 \notin B
  BY <1>1, <1>2
<1>4. n - 1 \in S /\ (n - 1) + 1 = n
  BY <1>2, <1>3
<1> QED
  BY <1>2, <1>3, <1>4

\* N steps in V from b, each a function of what came before it.
Steps(N, V, b, step, f) ==
    f \in [0..N -> V] /\ f[0] = b /\ \A i \in 1..N : f[i] = step[i][f[i - 1]]

(***************************************************************************)
(* Recursion: such steps exist.                                            *)
(***************************************************************************)
LEMMA StepsExist ==
    ASSUME NEW N \in Nat, NEW V, NEW b \in V, NEW step \in [1..N -> [V -> V]]
    PROVE  \E f : Steps(N, V, b, step, f)
<1> DEFINE Upto(n, f) == f[0] = b /\ \A i \in 1..n : f[i] = step[i][f[i - 1]]
           S == {n \in 0..N : \E f \in [0..N -> V] : Upto(n, f)}
<1>1. 0 \in S
  <2>1. [i \in 0..N |-> b] \in [0..N -> V] /\ Upto(0, [i \in 0..N |-> b])
    OBVIOUS
  <2>2. 0 \in 0..N
    OBVIOUS
  <2> HIDE DEF Upto
  <2> QED
    BY <2>1, <2>2
<1>2. ASSUME NEW n \in 0..(N - 1), n \in S
      PROVE  n + 1 \in S
  <2>1. PICK f \in [0..N -> V] : Upto(n, f)
    BY <1>2
  <2> DEFINE g == [f EXCEPT ![n + 1] = step[n + 1][f[n]]]
  <2>2. n \in 0..N /\ n + 1 \in 1..N /\ n + 1 \in 0..N
    OBVIOUS
  <2>3. step[n + 1] \in [V -> V] /\ f[n] \in V
    BY <2>2
  <2>4. g \in [0..N -> V]
    BY <2>2, <2>3
  <2>5. g[n + 1] = step[n + 1][f[n]] /\ \A i \in 0..n : g[i] = f[i]
    BY <2>2
  <2> HIDE DEF g
  <2>6. Upto(n + 1, g)
    <3>1. g[0] = b
      BY <2>1, <2>5
    <3>2. ASSUME NEW i \in 1..(n + 1)
          PROVE  g[i] = step[i][g[i - 1]]
      <4>1. CASE i = n + 1
        BY <2>5, <4>1
      <4>2. CASE i # n + 1
        <5>1. i \in 1..n /\ i \in 0..n /\ i - 1 \in 0..n
          BY <4>2
        <5> QED
          BY <2>1, <2>5, <5>1
      <4> QED
        BY <4>1, <4>2
    <3> QED
      BY <3>1, <3>2
  <2> HIDE DEF Upto
  <2> QED
    BY <2>2, <2>4, <2>6
<1> HIDE DEF S
<1>3. N \in S
  <2>1. \A n \in 0..N : n \in S
    BY <1>1, <1>2, Counting
  <2>2. N \in 0..N
    OBVIOUS
  <2> QED
    BY <2>1, <2>2
<1> QED
  BY <1>3 DEF S, Steps

-----------------------------------------------------------------------------
(* The equation of a sum. *)

Some(s) == CHOOSE x \in s : TRUE

\* The function SumFunctionOnSet chooses, and evaluates at S.
SumEquation(f, S, g) ==
    g = [s \in SUBSET S |-> IF s = {} THEN 0 ELSE f[Some(s)] + g[s \ {Some(s)}]]

(***************************************************************************)
(* The sum is defined by that equation.                                    *)
(***************************************************************************)
LEMMA SumUnfolds ==
    ASSUME NEW f, NEW S
    PROVE  SumFunctionOnSet(f, S) = (CHOOSE g : SumEquation(f, S, g))[S]
BY DEF SumFunctionOnSet, FoldFunctionOnSet, MapThenFoldSet, SumEquation, Some

(***************************************************************************)
(* The equation has at most one solution, even on part of the subsets.     *)
(***************************************************************************)
LEMMA SumUnique ==
    ASSUME NEW f, NEW S, IsFiniteSet(S), NEW T \in SUBSET S,
           NEW g, SumEquation(f, S, g), NEW h, SumEquation(f, T, h)
    PROVE  g[T] = h[T]
<1> SUFFICES ASSUME g[T] # h[T]
             PROVE  FALSE
  OBVIOUS
<1> DEFINE B == {U \in SUBSET T : g[U] # h[U]}
<1>1. IsFiniteSet(T) /\ T \in B
  BY FS_Subset
<1>2. PICK U \in B : \A V \in SUBSET U : V # U => V \notin B
  <2> HIDE DEF B
  <2>1. B \in SUBSET (SUBSET T)
    BY DEF B
  <2> QED
    BY <1>1, <2>1, MinimalSubset
<1>3. U \in SUBSET T /\ U \in SUBSET S /\ g[U] # h[U]
  BY <1>2
<1>4. /\ g[U] = IF U = {} THEN 0 ELSE f[Some(U)] + g[U \ {Some(U)}]
      /\ h[U] = IF U = {} THEN 0 ELSE f[Some(U)] + h[U \ {Some(U)}]
  BY <1>3 DEF SumEquation
<1>5. U # {}
  BY <1>3, <1>4
<1>6. Some(U) \in U
  BY <1>5 DEF Some
<1>7. g[U \ {Some(U)}] = h[U \ {Some(U)}]
  BY <1>2, <1>3, <1>6
<1> QED
  BY <1>3, <1>4, <1>7

(***************************************************************************)
(* And it has one: it is built up by the cardinality of the subsets.       *)
(***************************************************************************)
LEMMA SumExists ==
    ASSUME NEW f, NEW S, IsFiniteSet(S)
    PROVE  \E g : SumEquation(f, S, g)
<1> DEFINE Value(g, s) == IF s = {} THEN 0 ELSE f[Some(s)] + g[s \ {Some(s)}]
           Upto(n, g) == /\ DOMAIN g = SUBSET S
                         /\ g = [s \in SUBSET S |-> g[s]]
                         /\ \A s \in SUBSET S : Cardinality(s) <= n => g[s] = Value(g, s)
           N == Cardinality(S)
           Bad == {n \in 0..N : ~ \E g : Upto(n, g)}
<1>1. N \in Nat /\ \A s \in SUBSET S : IsFiniteSet(s) /\ Cardinality(s) \in 0..N
  BY FS_Subset, FS_CardinalityType
<1>2. Upto(0, [s \in SUBSET S |-> 0])
  BY <1>1, FS_EmptySet
<1>3. ASSUME NEW n \in 0..N, NEW g, Upto(n, g)
      PROVE  \E h : Upto(n + 1, h)
  <2> DEFINE h == [s \in SUBSET S |-> IF Cardinality(s) <= n THEN g[s] ELSE Value(g, s)]
  <2>1. ASSUME NEW s \in SUBSET S, Cardinality(s) <= n + 1
        PROVE  h[s] = Value(h, s)
    <3>1. CASE s = {}
      BY <1>1, <1>3, <3>1, FS_EmptySet
    <3>2. CASE s # {}
      <4>1. Some(s) \in s
        BY <3>2 DEF Some
      <4>2. /\ s \ {Some(s)} \in SUBSET S
            /\ Cardinality(s \ {Some(s)}) = Cardinality(s) - 1
        BY <1>1, <4>1, FS_RemoveElement
      <4>3. Cardinality(s \ {Some(s)}) <= n
        BY <1>1, <2>1, <4>2
      <4>4. h[s \ {Some(s)}] = g[s \ {Some(s)}]
        BY <4>2, <4>3
      <4>5. h[s] = Value(g, s)
        BY <1>3
      <4> QED
        BY <3>2, <4>4, <4>5
    <3> QED
      BY <3>1, <3>2
  <2> QED
    BY <2>1
<1>4. Bad = {}
  <2> SUFFICES ASSUME Bad # {}
               PROVE  FALSE
    OBVIOUS
  <2> HIDE DEF Upto
  <2>1. Bad \in SUBSET (0..N)
    OBVIOUS
  <2>2. PICK n \in Bad : \A m \in Bad : n <= m
    <3> HIDE DEF Bad, N
    <3> QED
      BY <1>1, <2>1, LeastNumber
  <2>3. n \in 0..N /\ n # 0 /\ ~ \E g : Upto(n, g)
    BY <1>2, <2>2
  <2>4. n - 1 \in 0..N /\ n - 1 \notin Bad
    BY <1>1, <2>2, <2>3
  <2>5. PICK g : Upto(n - 1, g)
    BY <2>4
  <2>6. (n - 1) + 1 = n
    BY <1>1, <2>3
  <2> QED
    BY <1>3, <2>3, <2>4, <2>5, <2>6
<1>5. PICK g : Upto(N, g)
  BY <1>1, <1>4
<1>6. \A s \in SUBSET S : g[s] = Value(g, s)
  <2> SUFFICES ASSUME NEW s \in SUBSET S
               PROVE  g[s] = Value(g, s)
    OBVIOUS
  <2>1. Cardinality(s) <= N
    <3> HIDE DEF N
    <3> QED
      BY <1>1
  <2> HIDE DEF Value, N
  <2> QED
    BY <1>5, <2>1
<1>7. g = [s \in SUBSET S |-> g[s]]
  BY <1>5
<1>8. g = [s \in SUBSET S |-> Value(g, s)]
  <2> HIDE DEF Value, Upto
  <2> QED
    BY <1>6, <1>7
<1> QED
  BY <1>8 DEF SumEquation

-----------------------------------------------------------------------------
(* What the other proofs cite. *)

(***************************************************************************)
(* The sum over nothing.                                                   *)
(***************************************************************************)
LEMMA SumEmpty ==
    ASSUME NEW f
    PROVE  SumFunctionOnSet(f, {}) = 0
<1>1. PICK g : SumEquation(f, {}, g)
  BY SumExists, FS_EmptySet
<1>2. SumEquation(f, {}, CHOOSE h : SumEquation(f, {}, h))
  BY <1>1
<1> QED
  BY <1>2, SumUnfolds DEF SumEquation

(***************************************************************************)
(* The sum over something begins with the element the fold chooses.        *)
(***************************************************************************)
LEMMA SumStep ==
    ASSUME NEW f, NEW S, IsFiniteSet(S), S # {}
    PROVE  /\ Some(S) \in S
           /\ SumFunctionOnSet(f, S) = f[Some(S)] + SumFunctionOnSet(f, S \ {Some(S)})
<1> DEFINE T == S \ {Some(S)}
           g == CHOOSE h : SumEquation(f, S, h)
           k == CHOOSE h : SumEquation(f, T, h)
<1>1. IsFiniteSet(T) /\ T \in SUBSET S
  BY FS_Subset
<1>2. SumEquation(f, S, g)
  BY SumExists
<1>3. SumEquation(f, T, k)
  <2> HIDE DEF T
  <2> QED
    BY <1>1, SumExists
<1>4. g[T] = k[T]
  <2> HIDE DEF T, g, k
  <2> QED
    BY <1>1, <1>2, <1>3, SumUnique
<1>5. g[S] = f[Some(S)] + g[T]
  <2> HIDE DEF g
  <2> QED
    BY <1>2 DEF SumEquation
<1>6. Some(S) \in S
  BY DEF Some
<1> QED
  BY <1>4, <1>5, <1>6, SumUnfolds

(***************************************************************************)
(* A sum of integers is one.                                               *)
(***************************************************************************)
LEMMA SumType ==
    ASSUME NEW f, NEW S, IsFiniteSet(S), \A x \in S : f[x] \in Int
    PROVE  SumFunctionOnSet(f, S) \in Int
<1> DEFINE B == {T \in SUBSET S : SumFunctionOnSet(f, T) \notin Int}
<1> SUFFICES ASSUME B # {}
             PROVE  FALSE
  OBVIOUS
<1>1. PICK T \in B : \A U \in SUBSET T : U # T => U \notin B
  <2>1. B \in SUBSET (SUBSET S)
    OBVIOUS
  <2> HIDE DEF B
  <2> QED
    BY <2>1, MinimalSubset
<1>2. IsFiniteSet(T) /\ T # {}
  <2>1. IsFiniteSet(T)
    BY FS_Subset
  <2>2. SumFunctionOnSet(f, {}) \in Int
    BY SumEmpty
  <2> QED
    BY <2>1, <2>2
<1>3. /\ Some(T) \in T
      /\ SumFunctionOnSet(f, T) = f[Some(T)] + SumFunctionOnSet(f, T \ {Some(T)})
  BY <1>2, SumStep
<1>4. SumFunctionOnSet(f, T \ {Some(T)}) \in Int
  BY <1>1, <1>3
<1> QED
  BY <1>3, <1>4

(***************************************************************************)
(* Any member may be taken out of the sum.                                 *)
(***************************************************************************)
LEMMA SumRemove ==
    ASSUME NEW f, NEW S, IsFiniteSet(S), \A x \in S : f[x] \in Int, NEW e \in S
    PROVE  SumFunctionOnSet(f, S) = f[e] + SumFunctionOnSet(f, S \ {e})
<1> DEFINE Fails(T) == \E x \in T :
                         SumFunctionOnSet(f, T) # f[x] + SumFunctionOnSet(f, T \ {x})
           B == {T \in SUBSET S : Fails(T)}
<1> SUFFICES ASSUME B # {}
             PROVE  FALSE
  OBVIOUS
<1>1. PICK T \in B : \A U \in SUBSET T : U # T => U \notin B
  <2>1. B \in SUBSET (SUBSET S)
    OBVIOUS
  <2> HIDE DEF B
  <2> QED
    BY <2>1, MinimalSubset
<1>2. PICK x \in T : SumFunctionOnSet(f, T) # f[x] + SumFunctionOnSet(f, T \ {x})
  OBVIOUS
<1> DEFINE c == Some(T)
<1>3. T \in SUBSET S /\ T # {} /\ \A U \in SUBSET T : IsFiniteSet(U)
  BY <1>2, FS_Subset
<1>4. c \in T /\ SumFunctionOnSet(f, T) = f[c] + SumFunctionOnSet(f, T \ {c})
  BY <1>3, SumStep
<1> HIDE DEF c
<1>5. c # x
  BY <1>2, <1>4
<1>6. SumFunctionOnSet(f, T \ {c}) = f[x] + SumFunctionOnSet(f, (T \ {c}) \ {x})
  BY <1>1, <1>4, <1>5
<1>7. SumFunctionOnSet(f, T \ {x}) = f[c] + SumFunctionOnSet(f, (T \ {x}) \ {c})
  BY <1>1, <1>2, <1>4, <1>5
<1>8. (T \ {c}) \ {x} = (T \ {x}) \ {c}
  OBVIOUS
<1> DEFINE R == (T \ {x}) \ {c}
<1>9. SumFunctionOnSet(f, R) \in Int
  <2>1. R \in SUBSET T /\ R \subseteq S
    BY <1>3
  <2>2. IsFiniteSet(R) /\ \A y \in R : f[y] \in Int
    <3> HIDE DEF R, B
    <3> QED
      BY <1>3, <2>1
  <2> HIDE DEF R
  <2> QED
    BY <2>2, SumType
<1>10. f[c] \in Int /\ f[x] \in Int
  BY <1>3, <1>4
<1>11. SumFunctionOnSet(f, T) = f[c] + (f[x] + SumFunctionOnSet(f, R))
  <2> HIDE DEF B
  <2> QED
    BY <1>4, <1>6, <1>8
<1>12. f[x] + SumFunctionOnSet(f, T \ {x}) = f[x] + (f[c] + SumFunctionOnSet(f, R))
  <2> HIDE DEF B
  <2> QED
    BY <1>7
<1> HIDE DEF R
<1>13. f[c] + (f[x] + SumFunctionOnSet(f, R)) = f[x] + (f[c] + SumFunctionOnSet(f, R))
  BY <1>9, <1>10
<1> QED
  BY <1>2, <1>11, <1>12, <1>13

(***************************************************************************)
(* One more element adds its value.                                        *)
(***************************************************************************)
LEMMA SumAdd ==
    ASSUME NEW f, NEW S, IsFiniteSet(S), NEW e, e \notin S,
           \A x \in S \cup {e} : f[x] \in Int
    PROVE  SumFunctionOnSet(f, S \cup {e}) = f[e] + SumFunctionOnSet(f, S)
<1> DEFINE T == S \cup {e}
<1>1. IsFiniteSet(T) /\ e \in T /\ T \ {e} = S /\ \A x \in T : f[x] \in Int
  BY FS_AddElement
<1> HIDE DEF T
<1>2. SumFunctionOnSet(f, T) = f[e] + SumFunctionOnSet(f, S)
  BY <1>1, SumRemove
<1> QED
  BY <1>2 DEF T

(***************************************************************************)
(* A sum of larger amounts, over no fewer members, is no smaller.  What    *)
(* the larger set has besides must not be negative.                        *)
(***************************************************************************)
LEMMA SumMonotone ==
    ASSUME NEW f, NEW g, NEW S, NEW T, IsFiniteSet(T), S \subseteq T,
           \A x \in S : f[x] \in Int,
           \A x \in T : g[x] \in Int,
           \A x \in S : f[x] <= g[x],
           \A x \in T \ S : g[x] >= 0
    PROVE  SumFunctionOnSet(f, S) <= SumFunctionOnSet(g, T)
<1> DEFINE Fails(U) == ~(SumFunctionOnSet(f, S \cap U) <= SumFunctionOnSet(g, U))
           B == {U \in SUBSET T : Fails(U)}
<1>1. B = {}
  <2> SUFFICES ASSUME B # {}
               PROVE  FALSE
    OBVIOUS
  <2>1. PICK U \in B : \A V \in SUBSET U : V # U => V \notin B
    <3>1. B \in SUBSET (SUBSET T)
      OBVIOUS
    <3> HIDE DEF B
    <3> QED
      BY <3>1, MinimalSubset
  <2>2. U \in SUBSET T /\ Fails(U)
    OBVIOUS
  <2>3. \A V \in SUBSET T : IsFiniteSet(V)
    BY FS_Subset
  <2>4. U # {}
    <3>1. SumFunctionOnSet(f, {}) = 0 /\ SumFunctionOnSet(g, {}) = 0
      BY SumEmpty
    <3>2. CASE U = {}
      <4>1. S \cap U = {}
        BY <3>2
      <4>2. 0 <= 0
        OBVIOUS
      <4> QED
        BY <2>2, <3>1, <3>2, <4>1, <4>2
    <3> QED
      BY <3>2
  <2>5. PICK e \in U : TRUE
    BY <2>4
  <2> DEFINE W == U \ {e}
  <2>6. SumFunctionOnSet(g, U) = g[e] + SumFunctionOnSet(g, W)
    <3>1. \A x \in U : g[x] \in Int
      BY <2>2
    <3> HIDE DEF B
    <3> QED
      BY <2>2, <2>3, <2>5, <3>1, SumRemove
  <2>7. SumFunctionOnSet(f, S \cap W) <= SumFunctionOnSet(g, W)
    BY <2>1, <2>2, <2>5
  <2>8. IsFiniteSet(W) /\ IsFiniteSet(S \cap W) /\ IsFiniteSet(S \cap U)
    BY <2>2, <2>3
  <2>9. SumFunctionOnSet(g, W) \in Int /\ SumFunctionOnSet(f, S \cap W) \in Int
    <3>1. (\A x \in W : g[x] \in Int) /\ (\A x \in S \cap W : f[x] \in Int)
      BY <2>2
    <3> DEFINE X == S \cap W
    <3> HIDE DEF W, X
    <3>2. SumFunctionOnSet(g, W) \in Int
      BY <2>8, <3>1, SumType
    <3>3. SumFunctionOnSet(f, X) \in Int
      BY <2>8, <3>1, SumType DEF X
    <3> QED
      BY <3>2, <3>3 DEF X
  <2>10. CASE e \in S
    <3>1. (S \cap U) \ {e} = S \cap W /\ e \in S \cap U
      BY <2>5, <2>10
    <3>2. SumFunctionOnSet(f, S \cap U) = f[e] + SumFunctionOnSet(f, S \cap W)
      <4> DEFINE X == S \cap U
      <4>1. IsFiniteSet(X) /\ e \in X /\ (\A x \in X : f[x] \in Int) /\ X \ {e} = S \cap W
        BY <2>8, <3>1
      <4> HIDE DEF X, W
      <4>2. SumFunctionOnSet(f, X) = f[e] + SumFunctionOnSet(f, X \ {e})
        BY <4>1, SumRemove
      <4> QED
        BY <4>1, <4>2 DEF X
    <3>3. f[e] \in Int /\ g[e] \in Int /\ f[e] <= g[e]
      BY <2>2, <2>5, <2>10
    <3> HIDE DEF W
    <3> QED
      BY <2>2, <2>6, <2>7, <2>9, <3>2, <3>3
  <2>11. CASE e \notin S
    <3>1. S \cap U = S \cap W
      BY <2>11
    <3>2. g[e] \in Int /\ g[e] >= 0
      BY <2>2, <2>5, <2>11
    <3>3. ~(SumFunctionOnSet(f, S \cap W) <= g[e] + SumFunctionOnSet(g, W))
      <4> HIDE DEF W, B
      <4> QED
        BY <2>2, <2>6, <3>1
    <3> HIDE DEF W
    <3> QED
      BY <2>7, <2>9, <3>2, <3>3
  <2> QED
    BY <2>10, <2>11
<1>2. ~Fails(T)
  BY <1>1
<1>3. S \cap T = S
  OBVIOUS
<1> QED
  BY <1>2, <1>3

(***************************************************************************)
(* Only the amounts of the members count.                                  *)
(***************************************************************************)
LEMMA SumSame ==
    ASSUME NEW f, NEW g, NEW S, IsFiniteSet(S),
           \A x \in S : f[x] \in Int /\ g[x] = f[x]
    PROVE  SumFunctionOnSet(g, S) = SumFunctionOnSet(f, S)
<1>1. SumFunctionOnSet(f, S) \in Int /\ SumFunctionOnSet(g, S) \in Int
  BY SumType
<1>2. (\A x \in S : f[x] <= g[x] /\ g[x] <= f[x]) /\ S \subseteq S /\ S \ S = {}
  OBVIOUS
<1>3. SumFunctionOnSet(f, S) <= SumFunctionOnSet(g, S)
  BY <1>2, SumMonotone
<1>4. SumFunctionOnSet(g, S) <= SumFunctionOnSet(f, S)
  BY <1>2, SumMonotone
<1> QED
  BY <1>1, <1>3, <1>4

(***************************************************************************)
(* Another amount for one member.                                          *)
(***************************************************************************)
LEMMA SumChange ==
    ASSUME NEW f, NEW g, NEW S, IsFiniteSet(S), NEW e \in S,
           \A x \in S : f[x] \in Int /\ g[x] \in Int,
           \A x \in S : x # e => g[x] = f[x]
    PROVE  SumFunctionOnSet(g, S) = SumFunctionOnSet(f, S) + g[e] - f[e]
<1> DEFINE T == S \ {e}
<1>1. IsFiniteSet(T) /\ \A x \in T : f[x] \in Int /\ g[x] = f[x]
  BY FS_Subset
<1>2. SumFunctionOnSet(g, T) = SumFunctionOnSet(f, T) /\ SumFunctionOnSet(f, T) \in Int
  <2> HIDE DEF T
  <2> QED
    BY <1>1, SumSame, SumType
<1>3. /\ SumFunctionOnSet(f, S) = f[e] + SumFunctionOnSet(f, T)
      /\ SumFunctionOnSet(g, S) = g[e] + SumFunctionOnSet(g, T)
  BY SumRemove
<1> HIDE DEF T
<1> QED
  BY <1>2, <1>3
=============================================================================

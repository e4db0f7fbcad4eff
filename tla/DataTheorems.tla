---------------------------- MODULE DataTheorems ----------------------------
(***************************************************************************)
(* Facts about finite sets and sequences on which the proofs rest.         *)
(*                                                                         *)
(* Sums, as the models take them with MapThenSumSet: that the recursive    *)
(* function it is defined by exists, that the order in which elements are  *)
(* chosen does not matter, and what follows for one element more, or       *)
(* fewer, and for a part of a set.  The library's theorems on well-founded *)
(* recursion take the definition as an operator, so the function is built  *)
(* here, from a minimal set for which there is none.                       *)
(*                                                                         *)
(* Ordered: that it lists every member of the set once and in the order.   *)
(***************************************************************************)
EXTENDS Integers, FiniteSetsExt, Ordering, FiniteSetTheorems, SequenceTheorems, WellFoundedInduction, TLAPS

Sum(weight, S) == MapThenSumSet(LAMBDA x : weight[x], S)

Pick(s) == CHOOSE x \in s : TRUE

Step(weight, f, s) == IF s = {} THEN 0 ELSE weight[Pick(s)] + f[s \ {Pick(s)}]

\* f sums every part of S.
Sums(weight, f, S) == f = [s \in SUBSET S |-> Step(weight, f, s)]

-----------------------------------------------------------------------------
\* Every family of parts of a finite set has a minimal member.
LEMMA Minimal ==
    ASSUME NEW S, IsFiniteSet(S), NEW U \in SUBSET SUBSET S, U # {}
    PROVE  \E m \in U : \A s \in U : s \subseteq m => s = m
  <1>1. IsWellFoundedOn(StrictSubsetOrdering(S), SUBSET S)
    BY FS_StrictSubsetOrderingWellFounded, FS_FiniteSubsetsOfFinite
  <1>2. PICK m \in U : \A s \in U : <<s, m>> \notin StrictSubsetOrdering(S)
    BY <1>1, WFMin
  <1> QED
    BY <1>2 DEF StrictSubsetOrdering

LEMMA PickIn == \A s : s # {} => Pick(s) \in s
  BY DEF Pick

\* Two such functions agree where both are defined.
LEMMA SumsUnique ==
    ASSUME NEW weight, NEW S, IsFiniteSet(S), NEW T, NEW f, Sums(weight, f, S), NEW g, Sums(weight, g, T),
           NEW s \in SUBSET S, s \in SUBSET T
    PROVE  f[s] = g[s]
  <1> DEFINE U == {r \in SUBSET S : r \subseteq T /\ f[r] # g[r]}
  <1> SUFFICES ASSUME U # {} PROVE FALSE
    OBVIOUS
  <1>1. PICK m \in U : \A r \in U : r \subseteq m => r = m
    <2>1. U \in SUBSET SUBSET S
      OBVIOUS
    <2> HIDE DEF U
    <2> QED
      BY <2>1, Minimal
  <1>2. f[m] = Step(weight, f, m) /\ g[m] = Step(weight, g, m)
    BY DEF Sums
  <1>3. m # {}
    BY <1>2 DEF Step
  <1>4. Pick(m) \in m
    BY <1>3, PickIn
  <1>5. m \ {Pick(m)} \notin U
    BY <1>1, <1>4
  <1>6. f[m \ {Pick(m)}] = g[m \ {Pick(m)}]
    BY <1>5
  <1> QED
    BY <1>1, <1>2, <1>6 DEF Step

\* A function that sums the parts of S sums the parts of a part.
LEMMA SumsPart ==
    ASSUME NEW weight, NEW S, NEW f, Sums(weight, f, S), NEW T \in SUBSET S
    PROVE  Sums(weight, [s \in SUBSET T |-> f[s]], T)
  <1> DEFINE g == [s \in SUBSET T |-> f[s]]
  <1>1. ASSUME NEW s \in SUBSET T
        PROVE  g[s] = Step(weight, g, s)
    <2>1. f[s] = Step(weight, f, s)
      BY DEF Sums
    <2>2. s \ {Pick(s)} \in SUBSET T
      OBVIOUS
    <2>3. Step(weight, g, s) = Step(weight, f, s)
      BY <2>2 DEF Step
    <2> QED
      BY <2>1, <2>3
  <1> QED
    BY <1>1 DEF Sums

LEMMA SumsExist ==
    ASSUME NEW weight, NEW S, IsFiniteSet(S)
    PROVE  \E f : Sums(weight, f, S)
  <1> DEFINE U == {T \in SUBSET S : \A f : ~Sums(weight, f, T)}
  <1> SUFFICES ASSUME U # {} PROVE FALSE
    OBVIOUS
  <1>1. PICK m \in U : \A T \in U : T \subseteq m => T = m
    <2>1. U \in SUBSET SUBSET S
      OBVIOUS
    <2> HIDE DEF U
    <2> QED
      BY <2>1, Minimal
  <1> DEFINE G(T) == CHOOSE f : Sums(weight, f, T)
             before == [s \in SUBSET m |-> G(s)[s]]
             h == [s \in SUBSET m |-> Step(weight, before, s)]
  <1>2. ASSUME NEW T \in SUBSET m, T # m
        PROVE  Sums(weight, G(T), T) /\ IsFiniteSet(T)
    <2>1. T \notin U
      BY <1>1, <1>2
    <2> QED
      BY <2>1, FS_Subset
  <1>3. ASSUME NEW s \in SUBSET m, s # m
        PROVE  h[s] = before[s]
    <2>1. Sums(weight, G(s), s)
      BY <1>2, <1>3
    <2>2. G(s)[s] = Step(weight, G(s), s)
      BY <2>1 DEF Sums
    <2>3. CASE s = {}
      BY <2>2, <2>3 DEF Step
    <2>4. CASE s # {}
      <3> DEFINE r == s \ {Pick(s)}
      <3>1. r \in SUBSET m /\ r # m /\ r \in SUBSET s
        BY <2>4, PickIn
      <3>2. Sums(weight, G(r), r) /\ IsFiniteSet(r)
        BY <3>1, <1>2
      <3>3. G(r)[r] = G(s)[r]
        BY <3>1, <3>2, <2>1, SumsUnique
      <3>4. before[r] = G(s)[r]
        BY <3>1, <3>3
      <3> QED
        BY <2>2, <3>4 DEF Step
    <2> QED
      BY <2>3, <2>4
  <1>4. ASSUME NEW s \in SUBSET m
        PROVE  h[s] = Step(weight, h, s)
    <2>1. CASE s = {}
      BY <2>1 DEF Step
    <2>2. CASE s # {}
      <3>1. s \ {Pick(s)} \in SUBSET m /\ s \ {Pick(s)} # m
        BY <2>2, PickIn
      <3>2. h[s \ {Pick(s)}] = before[s \ {Pick(s)}]
        BY <3>1, <1>3
      <3> QED
        BY <3>2 DEF Step
    <2> QED
      BY <2>1, <2>2
  <1>5. Sums(weight, h, m)
    BY <1>4 DEF Sums
  <1> QED
    BY <1>5

\* MapThenSumSet takes one such function.
LEMMA SumIs ==
    ASSUME NEW weight, NEW S, IsFiniteSet(S), NEW f, Sums(weight, f, S)
    PROVE  Sum(weight, S) = f[S]
  <1> DEFINE g == CHOOSE e : Sums(weight, e, S)
  <1>1. Sum(weight, S) = g[S]
    BY DEF Sum, MapThenSumSet, MapThenFoldSet, Sums, Step, Pick
  <1> QED
    BY <1>1, SumsUnique

-----------------------------------------------------------------------------
\* The equations of Sum.
LEMMA SumEquations ==
    ASSUME NEW weight, NEW S, IsFiniteSet(S)
    PROVE  /\ S = {} => Sum(weight, S) = 0
           /\ S # {} => Sum(weight, S) = weight[Pick(S)] + Sum(weight, S \ {Pick(S)})
  <1>1. PICK f : Sums(weight, f, S)
    BY SumsExist
  <1>2. f[S] = Step(weight, f, S)
    BY <1>1 DEF Sums
  <1>3. Sum(weight, S) = f[S]
    BY <1>1, SumIs
  <1> DEFINE T == S \ {Pick(S)}
             g == [s \in SUBSET T |-> f[s]]
  <1>4. T \in SUBSET S /\ IsFiniteSet(T)
    BY FS_Subset
  <1>5. Sum(weight, T) = g[T]
    <2>1. Sums(weight, g, T)
      BY <1>1, <1>4, SumsPart
    <2> HIDE DEF g
    <2> QED
      BY <2>1, <1>4, SumIs
  <1> QED
    BY <1>2, <1>3, <1>5 DEF Step

LEMMA SumType ==
    ASSUME NEW weight, NEW S, IsFiniteSet(S), \A x \in S : weight[x] \in Int
    PROVE  Sum(weight, S) \in Int
  <1> DEFINE U == {T \in SUBSET S : Sum(weight, T) \notin Int}
  <1> SUFFICES ASSUME U # {} PROVE FALSE
    OBVIOUS
  <1>1. PICK m \in U : \A T \in U : T \subseteq m => T = m
    <2>1. U \in SUBSET SUBSET S
      OBVIOUS
    <2> HIDE DEF U
    <2> QED
      BY <2>1, Minimal
  <1>2. IsFiniteSet(m)
    BY FS_Subset
  <1>3. m # {}
    <2>1. m = {} => Sum(weight, m) = 0
      BY <1>2, SumEquations
    <2>2. Sum(weight, m) \notin Int
      OBVIOUS
    <2> QED
      BY <2>1, <2>2
  <1>4. Pick(m) \in m
    BY <1>3, PickIn
  <1>5. m \ {Pick(m)} \notin U
    BY <1>1, <1>4
  <1>6. Sum(weight, m \ {Pick(m)}) \in Int
    BY <1>5
  <1>7. weight[Pick(m)] \in Int
    BY <1>4
  <1> QED
    BY <1>2, <1>3, <1>6, <1>7, SumEquations

\* Any element may be taken out first.
LEMMA SumRemove ==
    ASSUME NEW weight, NEW S, IsFiniteSet(S), \A x \in S : weight[x] \in Int, NEW x \in S
    PROVE  Sum(weight, S) = weight[x] + Sum(weight, S \ {x})
  <1> DEFINE U == {T \in SUBSET S : \E y \in T : Sum(weight, T) # weight[y] + Sum(weight, T \ {y})}
  <1> SUFFICES ASSUME U # {} PROVE FALSE
    OBVIOUS
  <1>1. PICK m \in U : \A T \in U : T \subseteq m => T = m
    <2>1. U \in SUBSET SUBSET S
      OBVIOUS
    <2> HIDE DEF U
    <2> QED
      BY <2>1, Minimal
  <1>2. PICK y \in m : Sum(weight, m) # weight[y] + Sum(weight, m \ {y})
    OBVIOUS
  <1> DEFINE p == Pick(m)
             rest == (m \ {p}) \ {y}
  <1>3. IsFiniteSet(m) /\ IsFiniteSet(m \ {p}) /\ IsFiniteSet(m \ {y}) /\ IsFiniteSet(rest)
    BY FS_Subset
  <1>4. p \in m
    BY PickIn
  <1>5. Sum(weight, m) = weight[p] + Sum(weight, m \ {p})
    BY <1>3, SumEquations
  <1>6. p # y
    BY <1>2, <1>5
  <1>7. Sum(weight, m \ {p}) = weight[y] + Sum(weight, rest)
    <2>1. m \ {p} \notin U
      BY <1>1, <1>4
    <2> QED
      BY <2>1, <1>6
  <1>8. Sum(weight, m \ {y}) = weight[p] + Sum(weight, rest)
    <2>1. m \ {y} \notin U
      BY <1>1
    <2>2. (m \ {y}) \ {p} = rest
      OBVIOUS
    <2> QED
      BY <2>1, <2>2, <1>4, <1>6
  <1>9. weight[p] \in Int /\ weight[y] \in Int /\ Sum(weight, rest) \in Int
    BY <1>3, <1>4, SumType
  <1> QED
    BY <1>2, <1>5, <1>7, <1>8, <1>9

LEMMA SumAdd ==
    ASSUME NEW weight, NEW S, IsFiniteSet(S), \A x \in S : weight[x] \in Int,
           NEW x, x \notin S, weight[x] \in Int
    PROVE  Sum(weight, S \union {x}) = Sum(weight, S) + weight[x]
  <1>1. IsFiniteSet(S \union {x})
    BY FS_AddElement
  <1>2. Sum(weight, S \union {x}) = weight[x] + Sum(weight, (S \union {x}) \ {x})
    BY <1>1, SumRemove
  <1>3. (S \union {x}) \ {x} = S
    OBVIOUS
  <1>4. Sum(weight, S) \in Int
    BY SumType
  <1> HIDE DEF Sum
  <1>5. Sum(weight, S \union {x}) = weight[x] + Sum(weight, S)
    BY <1>2, <1>3
  <1> QED
    BY <1>4, <1>5

\* Weights that are not negative make a part weigh no more than the whole.
LEMMA SumPart ==
    ASSUME NEW weight, NEW S, IsFiniteSet(S), \A x \in S : weight[x] \in Nat, NEW T \in SUBSET S
    PROVE  Sum(weight, T) <= Sum(weight, S) /\ Sum(weight, T) \in Nat
  <1>0. \A R \in SUBSET S : IsFiniteSet(R) /\ Sum(weight, R) \in Int
    <2> SUFFICES ASSUME NEW R \in SUBSET S PROVE IsFiniteSet(R) /\ Sum(weight, R) \in Int
      OBVIOUS
    <2> QED
      BY FS_Subset, SumType
  <1>1. ASSUME NEW P \in SUBSET S
        PROVE  \A R \in SUBSET S : P \subseteq R => Sum(weight, P) <= Sum(weight, R)
    <2> DEFINE U == {R \in SUBSET S : P \subseteq R /\ ~(Sum(weight, P) <= Sum(weight, R))}
    <2> SUFFICES ASSUME U # {} PROVE FALSE
      OBVIOUS
    <2>1. PICK m \in U : \A R \in U : R \subseteq m => R = m
      <3>1. U \in SUBSET SUBSET S
        OBVIOUS
      <3> HIDE DEF U
      <3> QED
        BY <3>1, Minimal
    <2>2. m # P
      BY <1>0
    <2>3. PICK x \in m : x \notin P
      BY <2>2
    <2>4. m \ {x} \notin U
      BY <2>1
    <2>5. Sum(weight, P) <= Sum(weight, m \ {x})
      BY <2>3, <2>4
    <2>6. Sum(weight, m) = weight[x] + Sum(weight, m \ {x})
      BY <1>0, SumRemove
    <2>7. weight[x] \in Nat /\ Sum(weight, m \ {x}) \in Int /\ Sum(weight, P) \in Int
      BY <1>0
    <2> QED
      BY <2>5, <2>6, <2>7
  <1>2. Sum(weight, {}) = 0
    BY SumEquations, FS_EmptySet
  <1> QED
    BY <1>0, <1>1, <1>2

\* Weights carried over to other elements, one each, weigh no more than all of those.
LEMMA SumInto ==
    ASSUME NEW S, IsFiniteSet(S), NEW T, IsFiniteSet(T),
           NEW weight, NEW other, \A y \in T : other[y] \in Nat,
           NEW f \in [S -> T], \A x, y \in S : f[x] = f[y] => x = y,
           \A x \in S : weight[x] = other[f[x]]
    PROVE  Sum(weight, S) <= Sum(other, T)
  <1> DEFINE Image(P) == {f[x] : x \in P}
             U == {P \in SUBSET S : Sum(weight, P) # Sum(other, Image(P))}
  <1>1. \A P \in SUBSET S : IsFiniteSet(P) /\ Image(P) \in SUBSET T /\ IsFiniteSet(Image(P))
    <2> SUFFICES ASSUME NEW P \in SUBSET S
                 PROVE  /\ IsFiniteSet(P) /\ Image(P) \in SUBSET T
                        /\ IsFiniteSet(Image(P))
      OBVIOUS
    <2>1. Image(P) \in SUBSET T
      OBVIOUS
    <2> HIDE DEF Image
    <2> QED
      BY <2>1, FS_Subset
  <1>2. U = {}
    <2> SUFFICES ASSUME U # {} PROVE FALSE
      OBVIOUS
    <2>1. PICK m \in U : \A P \in U : P \subseteq m => P = m
      <3>1. U \in SUBSET SUBSET S
        OBVIOUS
      <3> HIDE DEF U
      <3> QED
        BY <3>1, Minimal
    <2>2. m # {}
      <3>1. Image({}) = {} /\ IsFiniteSet({})
        BY FS_EmptySet
      <3>2. Sum(weight, {}) = 0 /\ Sum(other, {}) = 0
        BY <3>1, SumEquations
      <3> QED
        BY <3>1, <3>2
    <2>3. PICK x \in m : TRUE
      BY <2>2
    <2>4. m \ {x} \notin U
      BY <2>1
    <2>5. Sum(weight, m \ {x}) = Sum(other, Image(m \ {x}))
      BY <2>4
    <2>6. Image(m \ {x}) = Image(m) \ {f[x]} /\ f[x] \in Image(m)
      OBVIOUS
    <2>7. \A y \in Image(m) : other[y] \in Int
      BY <1>1
    <2>8. \A y \in m : weight[y] \in Int
      OBVIOUS
    <2>9. Sum(weight, m) = weight[x] + Sum(weight, m \ {x})
      BY <1>1, <2>8, SumRemove
    <2> HIDE DEF Image
    <2>10. Sum(other, Image(m)) = other[f[x]] + Sum(other, Image(m) \ {f[x]})
      BY <1>1, <2>6, <2>7, SumRemove
    <2>11. Sum(weight, m) # Sum(other, Image(m))
      OBVIOUS
    <2> QED
      BY <2>5, <2>6, <2>9, <2>10, <2>11
  <1>3. Sum(weight, S) = Sum(other, Image(S))
    BY <1>2
  <1> HIDE DEF Image, U
  <1> QED
    BY <1>1, <1>3, SumPart

\* A sum changes by as much as one of its weights.
LEMMA SumChanges ==
    ASSUME NEW S, IsFiniteSet(S), NEW u \in S, NEW old, NEW new,
           \A x \in S : old[x] \in Nat /\ new[x] \in Nat,
           \A x \in S \ {u} : new[x] = old[x]
    PROVE  Sum(new, S) - new[u] = Sum(old, S) - old[u]
  <1> DEFINE R == S \ {u}
             id == [x \in R |-> x]
  <1>1. IsFiniteSet(R)
    BY FS_Subset
  <1>2. /\ id \in [R -> R]
        /\ \A x, y \in R : id[x] = id[y] => x = y
        /\ \A x \in R : new[x] = old[id[x]] /\ old[x] = new[id[x]]
        /\ \A x \in R : old[x] \in Nat /\ new[x] \in Nat
    OBVIOUS
  <1>3. \A x \in S : old[x] \in Int /\ new[x] \in Int
    OBVIOUS
  <1>4. Sum(old, S) = old[u] + Sum(old, R) /\ Sum(new, S) = new[u] + Sum(new, R)
    BY <1>3, SumRemove
  <1> HIDE DEF R, id
  <1>5. Sum(new, R) <= Sum(old, R) /\ Sum(old, R) <= Sum(new, R)
    BY <1>1, <1>2, SumInto
  <1>6. Sum(new, R) \in Nat /\ Sum(old, R) \in Nat
    BY <1>1, <1>2, SumPart
  <1>7. Sum(new, R) = Sum(old, R)
    BY <1>5, <1>6
  <1>8. old[u] \in Nat /\ new[u] \in Nat
    OBVIOUS
  <1> QED
    BY <1>4, <1>6, <1>7, <1>8

-----------------------------------------------------------------------------
(***************************************************************************)
(* Ordered.                                                                *)
(***************************************************************************)
\* The ranks of the members of S are 1 .. Cardinality(S).
LEMMA Ranks ==
    ASSUME NEW S, IsFiniteSet(S), NEW Before, IsStrictOrder(Before, S)
    PROVE  LET rank == [x \in S |-> Rank(x, S, Before)]
           IN  /\ rank \in [S -> 1 .. Cardinality(S)]
               /\ \A x, y \in S : <<x, y>> \in Before => rank[x] < rank[y]
               /\ \A i \in 1 .. Cardinality(S) : \E x \in S : rank[x] = i
  <1> DEFINE n == Cardinality(S)
             Below(x) == {y \in S : <<y, x>> \in Before}
             rank == [x \in S |-> Rank(x, S, Before)]
  <1>1. n \in Nat
    BY FS_CardinalityType
  <1>2. ASSUME NEW x \in S
        PROVE  /\ IsFiniteSet(Below(x)) /\ Cardinality(Below(x)) \in Nat
               /\ Cardinality(Below(x)) < n
    <2>1. Below(x) \in SUBSET S /\ x \notin Below(x)
      BY DEF IsStrictOrder
    <2>2. Below(x) # S
      BY <2>1
    <2> HIDE DEF Below
    <2>3. IsFiniteSet(Below(x)) /\ Cardinality(Below(x)) <= n /\ Cardinality(Below(x)) # n
      BY <2>1, <2>2, FS_Subset
    <2>4. Cardinality(Below(x)) \in Nat
      BY <2>3, FS_CardinalityType
    <2> HIDE DEF n
    <2> QED
      BY <1>1, <2>3, <2>4
  <1>3. ASSUME NEW x \in S, NEW y \in S, <<x, y>> \in Before
        PROVE  Cardinality(Below(x)) < Cardinality(Below(y))
    <2>1. Below(x) \in SUBSET Below(y) /\ x \in Below(y) /\ x \notin Below(x)
      BY <1>3 DEF IsStrictOrder
    <2>2. Below(x) # Below(y)
      BY <2>1
    <2>3. IsFiniteSet(Below(y)) /\ Cardinality(Below(x)) \in Nat /\ Cardinality(Below(y)) \in Nat
      BY <1>2
    <2> HIDE DEF Below
    <2>4. Cardinality(Below(x)) <= Cardinality(Below(y)) /\ Cardinality(Below(x)) # Cardinality(Below(y))
      BY <2>1, <2>2, <2>3, FS_Subset
    <2> QED
      BY <2>3, <2>4
  <1>4. \A x \in S : rank[x] = Cardinality(Below(x)) + 1
    BY DEF Rank
  <1> HIDE DEF Below
  <1>5. rank \in [S -> 1 .. n]
    <2>1. \A x \in S : rank[x] \in 1 .. n
      BY <1>1, <1>2, <1>4
    <2> QED
      BY <2>1
  <1>6. \A x, y \in S : <<x, y>> \in Before => rank[x] < rank[y]
    BY <1>2, <1>3, <1>4
  <1>7. rank \in Injection(S, 1 .. n)
    <2>1. \A x, y \in S : rank[x] = rank[y] => x = y
      <3> SUFFICES ASSUME NEW x \in S, NEW y \in S, rank[x] = rank[y], x # y
                   PROVE  FALSE
        OBVIOUS
      <3>1. rank[x] \in 1 .. n /\ rank[y] \in 1 .. n
        BY <1>5
      <3>2. rank[x] < rank[y] \/ rank[y] < rank[x]
        BY <1>6 DEF IsStrictOrder
      <3> QED
        BY <1>1, <3>1, <3>2
    <2> QED
      BY <1>5, <2>1 DEF Injection, IsInjective
  <1>8. rank \in Surjection(S, 1 .. n)
    <2>1. IsFiniteSet(1 .. n) /\ Cardinality(1 .. n) = n
      BY <1>1, FS_Interval
    <2> HIDE DEF rank
    <2> QED
      BY <1>7, <2>1, FS_Injection
  <1>9. \A i \in 1 .. n : \E x \in S : rank[x] = i
    BY <1>8 DEF Surjection
  <1> QED
    BY <1>5, <1>6, <1>9

\* Ordered lists the members of S, and the earlier ones first.
LEMMA OrderedIs ==
    ASSUME NEW S, IsFiniteSet(S), NEW Before, IsStrictOrder(Before, S)
    PROVE  /\ Ordered(S, Before) \in Seq(S)
           /\ Len(Ordered(S, Before)) = Cardinality(S)
           /\ \A x \in S : \E i \in DOMAIN Ordered(S, Before) : Ordered(S, Before)[i] = x
           /\ \A i, j \in DOMAIN Ordered(S, Before) :
                 i < j => <<Ordered(S, Before)[i], Ordered(S, Before)[j]>> \in Before
  <1> DEFINE n == Cardinality(S)
             rank == [x \in S |-> Rank(x, S, Before)]
             s == Ordered(S, Before)
  <1>1. /\ rank \in [S -> 1 .. n]
        /\ \A x, y \in S : <<x, y>> \in Before => rank[x] < rank[y]
        /\ \A i \in 1 .. n : \E x \in S : rank[x] = i
    BY Ranks
  <1>2. n \in Nat
    BY FS_CardinalityType
  <1>3. s = [i \in 1 .. n |-> CHOOSE x \in S : rank[x] = i]
    BY DEF Ordered
  <1> HIDE DEF rank, s, n
  <1>4. \A i \in 1 .. n : s[i] \in S /\ rank[s[i]] = i
    BY <1>1, <1>3
  <1>5. s \in [1 .. n -> S]
    BY <1>3, <1>4
  <1>6. s \in Seq(S) /\ Len(s) = n /\ DOMAIN s = 1 .. n
    BY <1>2, <1>5
  <1>7. ASSUME NEW x \in S, NEW y \in S, rank[x] = rank[y]
        PROVE  x = y
    <2>1. rank[x] \in Nat /\ rank[y] \in Nat
      BY <1>1, <1>2
    <2>2. ~(rank[x] < rank[y]) /\ ~(rank[y] < rank[x])
      BY <2>1, <1>7
    <2> QED
      BY <1>1, <2>2 DEF IsStrictOrder
  <1>8. ASSUME NEW x \in S
        PROVE  \E i \in DOMAIN s : s[i] = x
    <2>1. rank[x] \in 1 .. n
      BY <1>1
    <2>2. s[rank[x]] = x
      BY <2>1, <1>4, <1>7
    <2> QED
      BY <1>6, <2>1, <2>2
  <1>9. ASSUME NEW i \in DOMAIN s, NEW j \in DOMAIN s, i < j
        PROVE  <<s[i], s[j]>> \in Before
    <2>1. s[i] \in S /\ s[j] \in S /\ rank[s[i]] = i /\ rank[s[j]] = j /\ i \in Nat /\ j \in Nat
      BY <1>2, <1>4, <1>6
    <2>2. s[i] # s[j] /\ ~(j < i)
      BY <2>1, <1>9
    <2>3. <<s[i], s[j]>> \in Before \/ <<s[j], s[i]>> \in Before
      BY <2>1, <2>2 DEF IsStrictOrder
    <2>4. <<s[j], s[i]>> \in Before => rank[s[j]] < rank[s[i]]
      BY <1>1, <2>1
    <2> QED
      BY <2>1, <2>2, <2>3, <2>4
  <1> QED
    BY <1>6, <1>8, <1>9 DEF s, n

LEMMA LessOrders ==
    ASSUME NEW S \in SUBSET Nat
    PROVE  IsStrictOrder(Less, S)
  BY DEF IsStrictOrder, Less

\* Part of a sequence is a sequence.
LEMMA AmongIsSeq ==
    ASSUME NEW T, NEW seq \in Seq(T), NEW S
    PROVE  Among(seq, S) \in Seq(T)
  <1> DEFINE I == {i \in DOMAIN seq : seq[i] \in S}
             at == Ordered(I, Less)
  <1>1. DOMAIN seq = 1 .. Len(seq) /\ Len(seq) \in Nat
    OBVIOUS
  <1>2. I \in SUBSET Nat /\ I \in SUBSET (1 .. Len(seq))
    BY <1>1
  <1>3. IsFiniteSet(I)
    <2>1. IsFiniteSet(1 .. Len(seq))
      BY <1>1, FS_Interval
    <2> HIDE DEF I
    <2> QED
      BY <1>2, <2>1, FS_Subset
  <1>4. at \in Seq(I)
    <2> HIDE DEF I
    <2> QED
      BY <1>2, <1>3, LessOrders, OrderedIs
  <1>5. Among(seq, S) = [i \in DOMAIN at |-> seq[at[i]]]
    BY DEF Among
  <1> HIDE DEF at
  <1>6. DOMAIN at = 1 .. Len(at) /\ Len(at) \in Nat /\ \A i \in DOMAIN at : at[i] \in I
    BY <1>4
  <1>7. \A i \in DOMAIN at : seq[at[i]] \in T
    BY <1>6, <1>1
  <1> QED
    BY <1>5, <1>6, <1>7

\* All of a sequence is the sequence.
LEMMA AmongAll ==
    ASSUME NEW T, NEW seq \in Seq(T), NEW S, T \subseteq S
    PROVE  Among(seq, S) = seq
  <1> DEFINE n == Len(seq)
  <1>1. n \in Nat /\ DOMAIN seq = 1 .. n /\ {i \in DOMAIN seq : seq[i] \in S} = 1 .. n
    OBVIOUS
  <1>2. Cardinality(1 .. n) = n
    BY <1>1, FS_Interval
  <1>3. ASSUME NEW i \in 1 .. n
        PROVE  Rank(i, 1 .. n, Less) = i
    <2>1. {j \in 1 .. n : <<j, i>> \in Less} = 1 .. i - 1
      BY <1>1 DEF Less
    <2>2. Cardinality(1 .. i - 1) = i - 1
      BY FS_Interval
    <2>3. Rank(i, 1 .. n, Less) = (i - 1) + 1
      BY <2>1, <2>2 DEF Rank
    <2> QED
      BY <1>1, <2>3
  <1>4. \A i \in 1 .. n : (CHOOSE x \in 1 .. n : Rank(x, 1 .. n, Less) = i) = i
    BY <1>3
  <1>5. Ordered(1 .. n, Less) = [i \in 1 .. n |-> i]
    BY <1>2, <1>4 DEF Ordered
  <1>6. Among(seq, S) = [i \in 1 .. n |-> seq[i]]
    BY <1>1, <1>5 DEF Among
  <1> QED
    BY <1>1, <1>6

-----------------------------------------------------------------------------
(***************************************************************************)
(* Concatenations.                                                         *)
(***************************************************************************)
LEMMA HeadFirst ==
    ASSUME NEW T, NEW s \in Seq(T), s # <<>>, NEW t \in Seq(T)
    PROVE  s \o t = <<Head(s)>> \o (Tail(s) \o t)
  <1>1. Head(s) \in T /\ Tail(s) \in Seq(T) /\ <<Head(s)>> \in Seq(T)
    BY HeadTailProperties
  <1>2. s = <<Head(s)>> \o Tail(s)
    OBVIOUS
  <1>3. (<<Head(s)>> \o Tail(s)) \o t = <<Head(s)>> \o (Tail(s) \o t)
    BY <1>1, ConcatAssociative
  <1> QED
    BY <1>2, <1>3

LEMMA MoveFirst ==
    ASSUME NEW T, NEW s \in Seq(T), NEW x \in T, NEW t \in Seq(T)
    PROVE  s \o (<<x>> \o t) = Append(s, x) \o t
  <1>1. <<x>> \in Seq(T)
    OBVIOUS
  <1>2. (s \o <<x>>) \o t = s \o (<<x>> \o t)
    BY <1>1, ConcatAssociative
  <1> QED
    BY <1>2, AppendIsConcat
=============================================================================

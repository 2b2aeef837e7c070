----------------------------- MODULE FiniteSums -----------------------------
(***************************************************************************)
(* Sums of integer functions over finite sets, as the modules write them   *)
(* (SumFunctionOnSet): they do not depend on the order of summation, so an *)
(* element can be taken out of them, changed, or left out where it is      *)
(* zero; and sums of larger functions are larger.                          *)
(***************************************************************************)
EXTENDS Integers, FiniteSetTheorems, Functions, TLAPS

Pick(S) == CHOOSE x \in S : TRUE

(* The sums of f over the subsets of S, as the fold computes them.         *)
IsSum(f, S, sum) ==
    sum = [T \in SUBSET S |-> IF T = {} THEN 0 ELSE f[Pick(T)] + sum[T \ {Pick(T)}]]

NextSums(p, sum, n) ==
    [T \in SUBSET p.set |-> IF T = {} THEN 0 ELSE p.fun[Pick(T)] + sum[T \ {Pick(T)}]]
R == INSTANCE Recursion WITH Base <- LAMBDA p : [T \in SUBSET p.set |-> 0], Step <- NextSums

------------------------------------------------------------------------------
(* A set of n + 1 elements has n without one of them.                      *)
LEMMA OneLess ==
    ASSUME NEW T, IsFiniteSet(T), NEW n \in Nat, Cardinality(T) = n + 1
    PROVE  T # {} /\ \A x \in T : Cardinality(T \ {x}) = n
<1>1. T # {}
  <2>1. Cardinality({}) = 0 /\ n + 1 # 0
    BY FS_EmptySet
  <2>2. QED
    BY <2>1
<1>2. \A x \in T : Cardinality(T \ {x}) = Cardinality(T) - 1
  BY FS_RemoveElement
<1>3. Cardinality(T) - 1 = n
  OBVIOUS
<1>4. QED
  BY <1>1, <1>2, <1>3

(* A set of subsets of a finite set that has the empty one, and with each  *)
(* all with one element more, has the whole set.                           *)
THEOREM SubsetInduction ==
    ASSUME NEW S, IsFiniteSet(S), NEW Q, {} \in Q,
           \A T \in SUBSET S : T \in Q => \A x \in S \ T : T \cup {x} \in Q
    PROVE  SUBSET S \subseteq Q
<1> DEFINE N == {n \in Nat : \A T \in SUBSET S : Cardinality(T) = n => T \in Q}
<1>1. \A T \in SUBSET S : IsFiniteSet(T)
  BY FS_Subset
<1>2. 0 \in N
  BY <1>1, FS_EmptySet
<1>3. ASSUME NEW n \in Nat, n \in N PROVE n + 1 \in N
  <2> SUFFICES ASSUME NEW T \in SUBSET S, Cardinality(T) = n + 1 PROVE T \in Q
    OBVIOUS
  <2>1. T # {} /\ \A x \in T : Cardinality(T \ {x}) = n
    BY <1>1, OneLess
  <2>2. PICK x \in T : TRUE
    BY <2>1
  <2>3. Cardinality(T \ {x}) = n
    BY <2>1
  <2>4. T \ {x} \in Q /\ T \ {x} \in SUBSET S /\ x \in S \ (T \ {x}) /\ T = (T \ {x}) \cup {x}
    BY <1>3, <2>2, <2>3
  <2>5. QED
    BY <2>4
<1> HIDE DEF N
<1>4. Nat \subseteq N
  BY <1>2, <1>3, R!Induction
<1>5. \A T \in SUBSET S : Cardinality(T) \in Nat
  BY <1>1, FS_CardinalityType
<1>6. QED
  BY <1>4, <1>5 DEF N

(* The fold is defined on finite sets.                                     *)
LEMMA SumsExist ==
    ASSUME NEW f, NEW S, IsFiniteSet(S)
    PROVE  \E sum : IsSum(f, S, sum)
<1> DEFINE p == [fun |-> f, set |-> S]
<1>1. \E g : g = [n \in Nat |-> R!Entry(p, g, n)]
  <2>1. Nat \in SUBSET Nat /\ \A n \in Nat : n # 0 => n - 1 \in Nat
    OBVIOUS
  <2>2. QED
    BY <2>1, R!FunctionExists
<1>2. PICK g : g = [n \in Nat |-> R!Entry(p, g, n)]
  BY <1>1
<1>3. p.fun = f /\ p.set = S
  OBVIOUS
<1> HIDE DEF p
<1>4. g[0] = [T \in SUBSET S |-> 0]
  BY <1>2, <1>3 DEF R!Entry
<1>5. ASSUME NEW n \in Nat
      PROVE  g[n + 1] = [T \in SUBSET S |->
                            IF T = {} THEN 0 ELSE f[Pick(T)] + g[n][T \ {Pick(T)}]]
  <2>1. n + 1 \in Nat /\ n + 1 # 0 /\ n + 1 - 1 = n
    OBVIOUS
  <2>2. g[n + 1] = NextSums(p, g[n], n + 1)
    BY <1>2, <2>1 DEF R!Entry
  <2>3. QED
    BY <1>3, <2>2 DEF NextSums
<1> DEFINE sum == [T \in SUBSET S |-> g[Cardinality(T)][T]]
<1>6. ASSUME NEW T \in SUBSET S
      PROVE  sum[T] = IF T = {} THEN 0 ELSE f[Pick(T)] + sum[T \ {Pick(T)}]
  <2>1. CASE T = {}
    BY <1>4, <2>1, FS_EmptySet
  <2>2. CASE T # {}
    <3>1. Pick(T) \in T
      BY <2>2 DEF Pick
    <3>2. IsFiniteSet(T) /\ Cardinality(T) \in Nat
      BY FS_Subset, FS_CardinalityType
    <3>3. Cardinality(T \ {Pick(T)}) = Cardinality(T) - 1 /\ Cardinality(T) - 1 \in Nat
      BY <2>2, <3>1, <3>2, FS_RemoveElement, FS_EmptySet
    <3> DEFINE m == Cardinality(T) - 1
               rest == T \ {Pick(T)}
    <3>4. g[m + 1][T] = f[Pick(T)] + g[m][rest]
      BY <1>5, <2>2, <3>3
    <3>5. m + 1 = Cardinality(T) /\ Cardinality(rest) = m /\ rest \in SUBSET S
      BY <3>2, <3>3
    <3>6. sum[T] = g[Cardinality(T)][T] /\ sum[rest] = g[Cardinality(rest)][rest]
      BY <3>5
    <3> HIDE DEF m, rest, sum
    <3>7. sum[T] = f[Pick(T)] + sum[rest]
      BY <3>4, <3>5, <3>6
    <3>8. QED
      BY <2>2, <3>7 DEF rest
  <2>3. QED
    BY <2>1, <2>2
<1>7. IsSum(f, S, sum)
  BY <1>6 DEF IsSum
<1>8. QED
  BY <1>7

(* Over different sets it agrees on what they share.                       *)
LEMMA SumsAgree ==
    ASSUME NEW f, NEW S, IsFiniteSet(S), NEW sum, IsSum(f, S, sum),
           NEW U, IsFiniteSet(U), NEW other, IsSum(f, U, other),
           NEW T \in SUBSET (S \cap U)
    PROVE  sum[T] = other[T]
<1> DEFINE N == {n \in Nat : \A V \in SUBSET (S \cap U) : Cardinality(V) = n => sum[V] = other[V]}
<1>1. \A V \in SUBSET (S \cap U) : IsFiniteSet(V) /\ Cardinality(V) \in Nat
  BY FS_Subset, FS_CardinalityType
<1>2. 0 \in N
  BY <1>1, FS_EmptySet DEF IsSum
<1>3. ASSUME NEW n \in Nat, n \in N PROVE n + 1 \in N
  <2> SUFFICES ASSUME NEW V \in SUBSET (S \cap U), Cardinality(V) = n + 1
               PROVE  sum[V] = other[V]
    OBVIOUS
  <2>1. V # {} /\ \A x \in V : Cardinality(V \ {x}) = n
    BY <1>1, OneLess
  <2>2. Pick(V) \in V
    BY <2>1 DEF Pick
  <2>3. Cardinality(V \ {Pick(V)}) = n
    BY <2>1, <2>2
  <2>4. sum[V \ {Pick(V)}] = other[V \ {Pick(V)}]
    BY <1>3, <2>3
  <2>5. V \in SUBSET S /\ V \in SUBSET U
    OBVIOUS
  <2>6. sum[V] = f[Pick(V)] + sum[V \ {Pick(V)}]
    BY <2>1, <2>5 DEF IsSum
  <2>7. other[V] = f[Pick(V)] + other[V \ {Pick(V)}]
    BY <2>1, <2>5 DEF IsSum
  <2>8. QED
    BY <2>4, <2>6, <2>7
<1> HIDE DEF N
<1>4. Nat \subseteq N
  BY <1>2, <1>3, R!Induction
<1>5. QED
  BY <1>1, <1>4 DEF N

(* The sum over a set is an element's summand and the sum over the rest.   *)
LEMMA SumUnfolds ==
    ASSUME NEW f, NEW S, IsFiniteSet(S)
    PROVE  /\ SumFunctionOnSet(f, {}) = 0
           /\ S # {} => SumFunctionOnSet(f, S) =
                            f[Pick(S)] + SumFunctionOnSet(f, S \ {Pick(S)})
<1> DEFINE sumOf(T) == CHOOSE sum : IsSum(f, T, sum)
<1>1. \A T : SumFunctionOnSet(f, T) = sumOf(T)[T]
  BY DEF SumFunctionOnSet, FoldFunctionOnSet, MapThenFoldSet, IsSum, Pick
<1>2. \A T : IsFiniteSet(T) => IsSum(f, T, sumOf(T))
  BY SumsExist
<1> HIDE DEF sumOf
<1>3. SumFunctionOnSet(f, {}) = 0
  <2>1. IsSum(f, {}, sumOf({}))
    BY <1>2, FS_EmptySet
  <2>2. sumOf({})[{}] = 0
    BY <2>1 DEF IsSum
  <2>3. QED
    BY <1>1, <2>2
<1>4. ASSUME S # {}
      PROVE  SumFunctionOnSet(f, S) = f[Pick(S)] + SumFunctionOnSet(f, S \ {Pick(S)})
  <2> DEFINE rest == S \ {Pick(S)}
  <2>1. IsSum(f, S, sumOf(S))
    BY <1>2
  <2>2. sumOf(S)[S] = f[Pick(S)] + sumOf(S)[rest]
    BY <1>4, <2>1 DEF IsSum
  <2>3. IsFiniteSet(rest) /\ rest \in SUBSET (S \cap rest)
    BY FS_Subset
  <2>4. IsSum(f, rest, sumOf(rest))
    BY <1>2, <2>3
  <2> HIDE DEF rest
  <2>5. sumOf(S)[rest] = sumOf(rest)[rest]
    BY <2>1, <2>3, <2>4, SumsAgree
  <2>6. QED
    BY <1>1, <2>2, <2>5 DEF rest
<1>5. QED
  BY <1>3, <1>4

------------------------------------------------------------------------------
(* A sum of integers is one, and any element can be taken out of it first. *)
LEMMA SumType ==
    ASSUME NEW S, IsFiniteSet(S), NEW f, \A x \in S : f[x] \in Int
    PROVE  \A T \in SUBSET S : SumFunctionOnSet(f, T) \in Int
<1> DEFINE N == {n \in Nat : \A T \in SUBSET S : Cardinality(T) = n => SumFunctionOnSet(f, T) \in Int}
<1>1. \A T \in SUBSET S : IsFiniteSet(T) /\ Cardinality(T) \in Nat
  BY FS_Subset, FS_CardinalityType
<1>2. 0 \in N
  BY <1>1, FS_EmptySet, SumUnfolds
<1>3. ASSUME NEW n \in Nat, n \in N PROVE n + 1 \in N
  <2> SUFFICES ASSUME NEW T \in SUBSET S, Cardinality(T) = n + 1
               PROVE  SumFunctionOnSet(f, T) \in Int
    OBVIOUS
  <2>1. T # {} /\ \A x \in T : Cardinality(T \ {x}) = n
    BY <1>1, OneLess
  <2>2. Pick(T) \in T
    BY <2>1 DEF Pick
  <2>3. SumFunctionOnSet(f, T \ {Pick(T)}) \in Int /\ f[Pick(T)] \in Int
    BY <1>3, <2>1, <2>2
  <2>4. SumFunctionOnSet(f, T) = f[Pick(T)] + SumFunctionOnSet(f, T \ {Pick(T)})
    BY <1>1, <2>1, SumUnfolds
  <2>5. QED
    BY <2>3, <2>4
<1> HIDE DEF N
<1>4. Nat \subseteq N
  BY <1>2, <1>3, R!Induction
<1>5. QED
  BY <1>1, <1>4 DEF N

THEOREM SumWithout ==
    ASSUME NEW S, IsFiniteSet(S), NEW f, \A x \in S : f[x] \in Int
    PROVE  /\ SumFunctionOnSet(f, S) \in Int
           /\ \A x \in S : /\ SumFunctionOnSet(f, S \ {x}) \in Int
                           /\ SumFunctionOnSet(f, S) = f[x] + SumFunctionOnSet(f, S \ {x})
<1> DEFINE Sum(T) == SumFunctionOnSet(f, T)
           N == {n \in Nat : \A T \in SUBSET S :
                    Cardinality(T) = n => \A x \in T : Sum(T) = f[x] + Sum(T \ {x})}
<1>1. \A T \in SUBSET S : IsFiniteSet(T) /\ Cardinality(T) \in Nat
  BY FS_Subset, FS_CardinalityType
<1>2. \A T \in SUBSET S : Sum(T) \in Int
  BY SumType
<1>3. \A T \in SUBSET S : T # {} => Sum(T) = f[Pick(T)] + Sum(T \ {Pick(T)})
  BY <1>1, SumUnfolds
<1> HIDE DEF Sum
<1>4. 0 \in N
  BY <1>1, FS_EmptySet
<1>5. ASSUME NEW n \in Nat, n \in N PROVE n + 1 \in N
  <2> SUFFICES ASSUME NEW T \in SUBSET S, Cardinality(T) = n + 1, NEW x \in T
               PROVE  Sum(T) = f[x] + Sum(T \ {x})
    OBVIOUS
  <2> DEFINE y == Pick(T)
  <2>1. T # {} /\ \A z \in T : Cardinality(T \ {z}) = n
    BY <1>1, OneLess
  <2>2. y \in T
    BY <2>1 DEF Pick
  <2>3. Sum(T) = f[y] + Sum(T \ {y})
    BY <1>3, <2>1
  <2> HIDE DEF y
  <2>4. CASE x = y
    BY <2>3, <2>4
  <2>5. CASE x # y
    <3> DEFINE rest == (T \ {y}) \ {x}
    <3>1. rest = (T \ {x}) \ {y} /\ rest \in SUBSET S /\ x \in T \ {y} /\ y \in T \ {x}
      BY <2>2, <2>5
    <3>2. Sum(T \ {y}) = f[x] + Sum(rest)
      BY <1>5, <2>1, <2>2, <3>1
    <3>3. Sum(T \ {x}) = f[y] + Sum(rest)
      BY <1>5, <2>1, <3>1
    <3>4. f[x] \in Int /\ f[y] \in Int /\ Sum(rest) \in Int
      BY <1>2, <2>2, <3>1
    <3>5. QED
      BY <2>3, <3>2, <3>3, <3>4
  <2>6. QED
    BY <2>4, <2>5
<1> HIDE DEF N
<1>6. Nat \subseteq N
  BY <1>4, <1>5, R!Induction
<1>7. \A x \in S : Sum(S) = f[x] + Sum(S \ {x})
  BY <1>1, <1>6 DEF N
<1>8. QED
  BY <1>2, <1>7 DEF Sum

(* An element more adds its summand.                                       *)
THEOREM SumWith ==
    ASSUME NEW S, IsFiniteSet(S), NEW x, x \notin S, NEW f, \A y \in S \cup {x} : f[y] \in Int
    PROVE  SumFunctionOnSet(f, S \cup {x}) = SumFunctionOnSet(f, S) + f[x]
<1> DEFINE T == S \cup {x}
<1>1. IsFiniteSet(T) /\ x \in T /\ T \ {x} = S
  BY FS_AddElement
<1> HIDE DEF T
<1>2. \A y \in T : f[y] \in Int
  BY DEF T
<1>3. SumFunctionOnSet(f, T) = f[x] + SumFunctionOnSet(f, S) /\ SumFunctionOnSet(f, S) \in Int
  BY <1>1, <1>2, SumWithout
<1>4. f[x] \in Int
  BY <1>1, <1>2
<1>5. QED
  BY <1>3, <1>4 DEF T

(* Nothing is the sum of nothing.                                          *)
THEOREM SumEmpty == \A f : SumFunctionOnSet(f, {}) = 0
BY SumUnfolds, FS_EmptySet

(* A sum of larger integers is larger.                                     *)
THEOREM SumMonotone ==
    ASSUME NEW S, IsFiniteSet(S), NEW f, NEW g, \A x \in S : f[x] \in Int,
           \A x \in S : g[x] \in Int, \A x \in S : f[x] <= g[x]
    PROVE  SumFunctionOnSet(f, S) <= SumFunctionOnSet(g, S)
<1> DEFINE SumF(T) == SumFunctionOnSet(f, T)
           SumG(T) == SumFunctionOnSet(g, T)
           Q == {T \in SUBSET S : SumF(T) <= SumG(T)}
<1>1. {} \in Q
  BY SumEmpty
<1>2. ASSUME NEW T \in SUBSET S, T \in Q, NEW x \in S \ T PROVE T \cup {x} \in Q
  <2>1. IsFiniteSet(T) /\ \A y \in T \cup {x} : f[y] \in Int /\ g[y] \in Int
    BY FS_Subset
  <2>2. SumF(T \cup {x}) = SumF(T) + f[x] /\ SumG(T \cup {x}) = SumG(T) + g[x]
    BY <2>1, SumWith
  <2>3. SumF(T) \in Int /\ SumG(T) \in Int
    BY SumType
  <2> HIDE DEF SumF, SumG
  <2>4. SumF(T \cup {x}) <= SumG(T \cup {x})
    BY <1>2, <2>2, <2>3
  <2>5. QED
    BY <2>4
<1> HIDE DEF Q
<1>3. SUBSET S \subseteq Q
  BY <1>1, <1>2, SubsetInduction
<1>4. QED
  BY <1>3 DEF Q

(* Equal summands have equal sums.                                         *)
THEOREM SumEqual ==
    ASSUME NEW S, IsFiniteSet(S), NEW f, NEW g, \A x \in S : f[x] \in Int,
           \A x \in S : g[x] = f[x]
    PROVE  SumFunctionOnSet(g, S) = SumFunctionOnSet(f, S)
<1>1. \A x \in S : g[x] \in Int /\ f[x] <= g[x] /\ g[x] <= f[x]
  OBVIOUS
<1>2. SumFunctionOnSet(f, S) <= SumFunctionOnSet(g, S)
  BY <1>1, SumMonotone
<1>3. SumFunctionOnSet(g, S) <= SumFunctionOnSet(f, S)
  BY <1>1, SumMonotone
<1>4. SumFunctionOnSet(f, S) \in Int /\ SumFunctionOnSet(g, S) \in Int
  BY <1>1, SumWithout
<1>5. QED
  BY <1>2, <1>3, <1>4

(* Zeros sum to zero.                                                      *)
THEOREM SumZero ==
    ASSUME NEW S, IsFiniteSet(S), NEW f, \A x \in S : f[x] = 0
    PROVE  SumFunctionOnSet(f, S) = 0
<1> DEFINE Q == {T \in SUBSET S : SumFunctionOnSet(f, T) = 0}
<1>1. {} \in Q
  BY SumEmpty
<1>2. ASSUME NEW T \in SUBSET S, T \in Q, NEW x \in S \ T PROVE T \cup {x} \in Q
  <2>1. IsFiniteSet(T) /\ \A y \in T \cup {x} : f[y] \in Int
    BY FS_Subset
  <2>2. SumFunctionOnSet(f, T \cup {x}) = SumFunctionOnSet(f, T) + f[x]
    BY <2>1, SumWith
  <2>3. QED
    BY <1>2, <2>2
<1> HIDE DEF Q
<1>3. SUBSET S \subseteq Q
  BY <1>1, <1>2, SubsetInduction
<1>4. QED
  BY <1>3 DEF Q

(* One summand changes, and the sum changes by as much.                    *)
THEOREM SumChange ==
    ASSUME NEW S, IsFiniteSet(S), NEW x \in S, NEW f, NEW g, \A y \in S : f[y] \in Int,
           g[x] \in Int, \A y \in S \ {x} : g[y] = f[y]
    PROVE  SumFunctionOnSet(g, S) = SumFunctionOnSet(f, S) + (g[x] - f[x])
<1>1. IsFiniteSet(S \ {x})
  BY FS_RemoveElement
<1>2. SumFunctionOnSet(g, S \ {x}) = SumFunctionOnSet(f, S \ {x})
  BY <1>1, SumEqual
<1>3. /\ SumFunctionOnSet(f, S) = f[x] + SumFunctionOnSet(f, S \ {x})
      /\ SumFunctionOnSet(f, S \ {x}) \in Int
  BY SumWithout
<1>4. \A y \in S : g[y] \in Int
  OBVIOUS
<1>5. SumFunctionOnSet(g, S) = g[x] + SumFunctionOnSet(g, S \ {x})
  BY <1>4, SumWithout
<1>6. f[x] \in Int
  OBVIOUS
<1>7. QED
  BY <1>2, <1>3, <1>5, <1>6

(* The sum over a part of the set and the sum over the rest.               *)
THEOREM SumSplit ==
    ASSUME NEW S, IsFiniteSet(S), NEW f, \A x \in S : f[x] \in Int, NEW T \in SUBSET S
    PROVE  /\ SumFunctionOnSet(f, T) \in Int /\ SumFunctionOnSet(f, S \ T) \in Int
           /\ SumFunctionOnSet(f, S) = SumFunctionOnSet(f, T) + SumFunctionOnSet(f, S \ T)
<1> DEFINE Sum(U) == SumFunctionOnSet(f, U)
           Q == {U \in SUBSET S : Sum(S) = Sum(U) + Sum(S \ U)}
<1>1. \A U \in SUBSET S : Sum(U) \in Int /\ IsFiniteSet(U)
  BY SumType, FS_Subset
<1>2. {} \in Q
  <2>1. Sum({}) = 0 /\ S \ {} = S
    BY SumEmpty
  <2>2. Sum(S) \in Int
    BY <1>1
  <2> HIDE DEF Sum
  <2>3. QED
    BY <2>1, <2>2
<1>3. ASSUME NEW U \in SUBSET S, U \in Q, NEW x \in S \ U PROVE U \cup {x} \in Q
  <2>1. Sum(U \cup {x}) = Sum(U) + f[x]
    BY <1>1, SumWith
  <2>2. Sum(S \ U) = f[x] + Sum(S \ (U \cup {x}))
    <3>1. IsFiniteSet(S \ U) /\ \A y \in S \ U : f[y] \in Int
      BY <1>1
    <3>2. (S \ U) \ {x} = S \ (U \cup {x})
      OBVIOUS
    <3>3. Sum(S \ U) = f[x] + Sum((S \ U) \ {x})
      BY <3>1, SumWithout
    <3>4. QED
      BY <3>2, <3>3
  <2>3. f[x] \in Int
    OBVIOUS
  <2>4. Sum(U) \in Int /\ Sum(S \ (U \cup {x})) \in Int /\ Sum(S) = Sum(U) + Sum(S \ U)
    BY <1>1, <1>3
  <2> HIDE DEF Sum
  <2>5. Sum(S) = Sum(U \cup {x}) + Sum(S \ (U \cup {x}))
    BY <2>1, <2>2, <2>3, <2>4
  <2>6. QED
    BY <2>5
<1> HIDE DEF Q
<1>4. SUBSET S \subseteq Q
  BY <1>2, <1>3, SubsetInduction
<1>5. QED
  BY <1>1, <1>4 DEF Q

(* A sum of sums is the sum of both.                                       *)
THEOREM SumPlus ==
    ASSUME NEW S, IsFiniteSet(S), NEW f, NEW g, NEW h, \A x \in S : f[x] \in Int,
           \A x \in S : g[x] \in Int, \A x \in S : h[x] = f[x] + g[x]
    PROVE  SumFunctionOnSet(h, S) = SumFunctionOnSet(f, S) + SumFunctionOnSet(g, S)
<1> DEFINE SumF(T) == SumFunctionOnSet(f, T)
           SumG(T) == SumFunctionOnSet(g, T)
           SumH(T) == SumFunctionOnSet(h, T)
           Q == {T \in SUBSET S : SumH(T) = SumF(T) + SumG(T)}
<1>1. {} \in Q
  BY SumEmpty
<1>2. ASSUME NEW T \in SUBSET S, T \in Q, NEW x \in S \ T PROVE T \cup {x} \in Q
  <2>1. IsFiniteSet(T) /\ \A y \in T \cup {x} : f[y] \in Int /\ g[y] \in Int /\ h[y] \in Int
    BY FS_Subset
  <2>2. /\ SumF(T \cup {x}) = SumF(T) + f[x] /\ SumG(T \cup {x}) = SumG(T) + g[x]
        /\ SumH(T \cup {x}) = SumH(T) + h[x]
    BY <2>1, SumWith
  <2>3. SumF(T) \in Int /\ SumG(T) \in Int /\ f[x] \in Int /\ g[x] \in Int /\ h[x] = f[x] + g[x]
    BY SumType
  <2>4. SumH(T) = SumF(T) + SumG(T)
    BY <1>2
  <2> HIDE DEF SumF, SumG, SumH
  <2>5. SumH(T \cup {x}) = SumF(T \cup {x}) + SumG(T \cup {x})
    BY <2>2, <2>3, <2>4
  <2>6. QED
    BY <2>5
<1> HIDE DEF Q
<1>3. SUBSET S \subseteq Q
  BY <1>1, <1>2, SubsetInduction
<1>4. QED
  BY <1>3 DEF Q

(* A list's sum grows by what is appended.                                 *)
THEOREM SumAppend ==
    ASSUME NEW n \in Nat, NEW f, NEW g, \A k \in 1..(n + 1) : g[k] \in Int,
           \A k \in 1..n : f[k] = g[k]
    PROVE  SumFunctionOnSet(g, 1..(n + 1)) = SumFunctionOnSet(f, 1..n) + g[n + 1]
<1> DEFINE S == 1..n
<1>1. IsFiniteSet(S) /\ n + 1 \notin S /\ 1..(n + 1) = S \cup {n + 1}
  BY FS_Interval
<1>2. \A k \in S \cup {n + 1} : g[k] \in Int
  BY <1>1
<1>3. \A k \in S : g[k] \in Int /\ f[k] = g[k]
  OBVIOUS
<1> HIDE DEF S
<1>4. SumFunctionOnSet(g, S \cup {n + 1}) = SumFunctionOnSet(g, S) + g[n + 1]
  BY <1>1, <1>2, SumWith
<1>5. SumFunctionOnSet(f, S) = SumFunctionOnSet(g, S)
  BY <1>1, <1>3, SumEqual
<1>6. QED
  BY <1>1, <1>4, <1>5 DEF S
=============================================================================

---------------------------- MODULE OperatorTheorems ----------------------------
(***************************************************************************)
(* What the operators shared by the modules compute, for every argument:   *)
(* InOrder puts a set in order and Picked keeps the order; LeastCostsOver  *)
(* finds the least cost of a drive to every label that can be reached, and *)
(* only those; DrivesAlong finds only what can be driven; Total adds the   *)
(* naturals of a function up in whatever order, part by part or step by    *)
(* step.  Least costs, drives and sums are recursive functions, so the     *)
(* module first derives induction and recursion over the naturals from     *)
(* their being well founded, stated of sets and functions (the library     *)
(* states both of operators).                                              *)
(***************************************************************************)
EXTENDS RoadGraph, Ordering, FiniteSetTheorems, WellFoundedInduction, TLAPS

-----------------------------------------------------------------------------
(* Induction and recursion over the naturals.                              *)

(* A set of naturals has a least one.                                      *)
LEMMA LeastNatural ==
    ASSUME NEW S \in SUBSET Nat, S # {} PROVE \E c \in S : \A d \in S : c <= d
<1>1. PICK c \in S : \A d \in S : ~(<<d, c>> \in OpToRel(<, Nat))
  BY NatLessThanWellFounded, WFMin
<1>2. \A d \in S : ~(d < c)
  BY <1>1 DEF OpToRel
<1>. QED
  BY <1>2

(* A set that holds 0 and with each natural the next holds them all.       *)
LEMMA InductionOverNat ==
    ASSUME NEW S, 0 \in S, \A n \in Nat : n \in S => n + 1 \in S PROVE Nat \subseteq S
<1>. SUFFICES ASSUME Nat \ S # {} PROVE FALSE
  OBVIOUS
<1>1. PICK c \in Nat \ S : \A d \in Nat \ S : c <= d
  BY LeastNatural
<1>2. c - 1 \in Nat /\ c - 1 \in S
  BY <1>1
<1>. QED
  BY <1>1, <1>2

(* The beginnings of what a step from x repeats: the first n of them.      *)
Beginnings(S, x, step, n) ==
    {g \in [0 .. n -> S] :
        g[0] = x /\ \A m \in 0 .. n - 1 : g[m + 1] = step[m][g[m]]}

LEMMA BeginningsExist ==
    ASSUME NEW S, NEW x \in S, NEW step \in [Nat -> [S -> S]]
    PROVE  \A n \in Nat : Beginnings(S, x, step, n) # {}
<1>. DEFINE T == {n \in Nat : Beginnings(S, x, step, n) # {}}
<1>1. 0 \in T
  <2>1. [m \in 0 .. 0 |-> x] \in Beginnings(S, x, step, 0)
    BY DEF Beginnings
  <2>. QED
    BY <2>1
<1>2. ASSUME NEW n \in Nat, n \in T PROVE n + 1 \in T
  <2>1. PICK g \in [0 .. n -> S] :
            g[0] = x /\ \A m \in 0 .. n - 1 : g[m + 1] = step[m][g[m]]
    BY <1>2 DEF Beginnings
  <2>. DEFINE h == [m \in 0 .. n + 1 |-> IF m = n + 1 THEN step[n][g[n]] ELSE g[m]]
  <2>2. h \in [0 .. n + 1 -> S] /\ h[0] = x
    BY <2>1
  <2>3. \A m \in 0 .. n + 1 : h[m] = IF m = n + 1 THEN step[n][g[n]] ELSE g[m]
    OBVIOUS
  <2>. HIDE DEF h
  <2>4. ASSUME NEW m \in 0 .. n PROVE h[m + 1] = step[m][h[m]]
    <3>1. CASE m = n
      BY <2>3, <3>1
    <3>2. CASE m # n
      BY <2>1, <2>3, <3>2
    <3>. QED
      BY <3>1, <3>2
  <2>5. h \in Beginnings(S, x, step, n + 1)
    BY <2>2, <2>4 DEF Beginnings
  <2>. QED
    BY <2>5
<1>. QED
  BY <1>1, <1>2, InductionOverNat

LEMMA BeginningsAgree ==
    ASSUME NEW S, NEW x \in S, NEW step \in [Nat -> [S -> S]],
           NEW m \in Nat, NEW n \in Nat, m <= n,
           NEW g \in Beginnings(S, x, step, m), NEW h \in Beginnings(S, x, step, n)
    PROVE  \A k \in 0 .. m : g[k] = h[k]
<1>. DEFINE T == {k \in Nat : k <= m => g[k] = h[k]}
<1>1. 0 \in T
  BY DEF Beginnings
<1>2. ASSUME NEW k \in Nat, k \in T PROVE k + 1 \in T
  BY <1>2 DEF Beginnings
<1>3. Nat \subseteq T
  <2>. HIDE DEF T
  <2>. QED
    BY <1>1, <1>2, InductionOverNat
<1>. QED
  BY <1>3

(* What starts at x and goes on by a step from each to the next exists.    *)
IsRecursion(S, x, step) == x \in S /\ step \in [Nat -> [S -> S]]

Recurs(f, S, x, step) ==
    f \in [Nat -> S] /\ f[0] = x /\ \A n \in Nat : f[n + 1] = step[n][f[n]]

LEMMA RecursionOverNat ==
    ASSUME NEW S, NEW x, NEW step, IsRecursion(S, x, step)
    PROVE  \E f : Recurs(f, S, x, step)
<1>. USE DEF IsRecursion
<1>. DEFINE G(n) == CHOOSE g : g \in Beginnings(S, x, step, n)
            f == [n \in Nat |-> G(n)[n]]
<1>1. \A n \in Nat : G(n) \in Beginnings(S, x, step, n)
  BY BeginningsExist
<1>. HIDE DEF G
<1>2. \A n \in Nat : G(n) \in [0 .. n -> S] /\ G(n)[0] = x
  BY <1>1 DEF Beginnings
<1>3. ASSUME NEW n \in Nat PROVE f[n + 1] = step[n][f[n]]
  <2>1. G(n)[n] = G(n + 1)[n]
    BY <1>1, BeginningsAgree
  <2>2. G(n + 1)[n + 1] = step[n][G(n + 1)[n]]
    BY <1>1 DEF Beginnings
  <2>. QED
    BY <2>1, <2>2
<1>4. f \in [Nat -> S] /\ f[0] = x
  BY <1>2
<1>. HIDE DEF f
<1>. QED
  BY <1>3, <1>4 DEF Recurs

-----------------------------------------------------------------------------
(* Sums over sets.                                                         *)

(* What MapThenSumSet computes, where weight is what it maps by.           *)
Any(s) == CHOOSE x \in s : TRUE

Sums(total, S, weight) ==
    total = [s \in SUBSET S |-> IF s = {} THEN 0 ELSE weight[Any(s)] + total[s \ {Any(s)}]]

LEMMA SumsExist ==
    ASSUME NEW S, IsFiniteSet(S), NEW weight \in [S -> Nat]
    PROVE  \E total : Sums(total, S, weight)
<1>. DEFINE F == [SUBSET S -> Nat]
            x == [s \in SUBSET S |-> 0]
            More(h) == [s \in SUBSET S |->
                           IF s = {} THEN 0 ELSE weight[Any(s)] + h[s \ {Any(s)}]]
            step == [n \in Nat |-> [h \in F |-> More(h)]]
<1>1. x \in F
  OBVIOUS
<1>2. ASSUME NEW h \in F PROVE More(h) \in F
  <2>1. \A s \in SUBSET S : s # {} => Any(s) \in s
    BY DEF Any
  <2>2. \A s \in SUBSET S : s # {} => weight[Any(s)] \in Nat /\ h[s \ {Any(s)}] \in Nat
    BY <2>1
  <2>. QED
    BY <2>2
<1>. HIDE DEF F, x
<1>3. step \in [Nat -> [F -> F]] /\ \A n \in Nat : \A h \in F : step[n][h] = More(h)
  BY <1>2
<1>. HIDE DEF step
<1>4. PICK r : Recurs(r, F, x, step)
  BY <1>1, <1>3, RecursionOverNat DEF IsRecursion
<1>5. \A n \in Nat : r[n] \in F /\ r[n + 1] = More(r[n])
  <2>. HIDE DEF More
  <2>1. \A n \in Nat : r[n] \in F /\ r[n + 1] = step[n][r[n]]
    BY <1>4 DEF Recurs
  <2>. QED
    BY <1>3, <2>1
<1>. DEFINE total == [s \in SUBSET S |-> r[Cardinality(s)][s]]
<1>6. ASSUME NEW s \in SUBSET S
      PROVE  total[s] = IF s = {} THEN 0 ELSE weight[Any(s)] + total[s \ {Any(s)}]
  <2>1. IsFiniteSet(s) /\ Cardinality(s) \in Nat
    BY FS_Subset, FS_CardinalityType
  <2>2. CASE s = {}
    <3>1. total[s] = r[0][{}]
      BY <2>2, FS_EmptySet
    <3>2. r[0] = x
      BY <1>4 DEF Recurs
    <3>. QED
      BY <2>2, <3>1, <3>2 DEF x
  <2>3. CASE s # {}
    <3>. DEFINE t == s \ {Any(s)}
    <3>1. Any(s) \in s
      BY <2>3 DEF Any
    <3>2. PICK n \in Nat : n = Cardinality(t) /\ Cardinality(s) = n + 1
      <4>1. Cardinality(t) = Cardinality(s) - 1
        BY <2>1, <3>1, FS_RemoveElement
      <4>2. Cardinality(t) \in Nat
        BY <2>1, FS_RemoveElement, FS_CardinalityType
      <4>. QED
        BY <2>1, <4>1, <4>2
    <3>3. total[s] = More(r[n])[s] /\ total[t] = r[n][t]
      BY <1>5, <3>2
    <3>. QED
      BY <2>3, <3>3
  <2>. QED
    BY <2>2, <2>3
<1>7. total = [s \in SUBSET S |-> total[s]]
  OBVIOUS
<1>. HIDE DEF total
<1>8. Sums(total, S, weight)
  BY <1>6, <1>7 DEF Sums
<1>. QED
  BY <1>8

LEMMA SumsTyped ==
    ASSUME NEW S, IsFiniteSet(S), NEW weight \in [S -> Nat],
           NEW total, Sums(total, S, weight)
    PROVE  total[S] \in Nat
<1>. DEFINE T == {n \in Nat : \A s \in SUBSET S : Cardinality(s) = n => total[s] \in Nat}
<1>1. \A s \in SUBSET S :
          total[s] = IF s = {} THEN 0 ELSE weight[Any(s)] + total[s \ {Any(s)}]
  BY DEF Sums
<1>2. \A s \in SUBSET S : IsFiniteSet(s) /\ Cardinality(s) \in Nat
  BY FS_Subset, FS_CardinalityType
<1>3. 0 \in T
  <2>1. \A s \in SUBSET S : Cardinality(s) = 0 => s = {}
    BY <1>2, FS_EmptySet
  <2>. QED
    BY <1>1, <2>1
<1>4. ASSUME NEW n \in Nat, n \in T PROVE n + 1 \in T
  <2>1. ASSUME NEW s \in SUBSET S, Cardinality(s) = n + 1 PROVE total[s] \in Nat
    <3>. DEFINE t == s \ {Any(s)}
    <3>1. s # {}
      BY <2>1, FS_EmptySet
    <3>2. Any(s) \in s
      BY <3>1 DEF Any
    <3>3. Cardinality(t) = n
      BY <1>2, <2>1, <3>2, FS_RemoveElement
    <3>4. t \in SUBSET S /\ total[t] \in Nat /\ weight[Any(s)] \in Nat
      BY <1>4, <3>2, <3>3
    <3>. QED
      BY <1>1, <3>1, <3>4
  <2>. QED
    BY <2>1
<1>5. Cardinality(S) \in T
  <2>. HIDE DEF T
  <2>. QED
    BY <1>2, <1>3, <1>4, InductionOverNat
<1>. QED
  BY <1>2, <1>5

(* Total is such a sum.                                                    *)
LEMMA TotalSums ==
    ASSUME NEW S, IsFiniteSet(S), NEW weight \in [S -> Nat]
    PROVE  \E total : Sums(total, S, weight) /\ Total(weight) = total[S]
<1>. DEFINE Turn(total) == [s \in SUBSET S |->
                    IF s = {} THEN 0
                    ELSE LET y == Any(s)
                         IN  weight[y] + total[s \ {y}]]
            sum == CHOOSE total : total = Turn(total)
<1>1. Total(weight) = sum[S]
  BY DEF Total, FoldFunction, FoldFunctionOnSet, MapThenFoldSet, Any
<1>2. \A total : Sums(total, S, weight) <=> total = Turn(total)
  BY DEF Sums
<1>3. \E total : total = Turn(total)
  BY <1>2, SumsExist
<1>4. sum = Turn(sum)
  <2>. HIDE DEF Turn
  <2>. QED
    BY <1>3
<1>. HIDE DEF sum, Turn
<1>. QED
  BY <1>1, <1>2, <1>4

(* A sum adds up part by part, whatever member Any gives first.            *)
LEMMA SumsAdd ==
    ASSUME NEW S, IsFiniteSet(S), NEW weight \in [S -> Nat],
           NEW total, Sums(total, S, weight)
    PROVE  /\ total[{}] = 0
           /\ \A s \in SUBSET S : total[s] \in Nat
           /\ \A s \in SUBSET S : \A x \in s : total[s] = weight[x] + total[s \ {x}]
<1>1. \A s \in SUBSET S :
          total[s] = IF s = {} THEN 0 ELSE weight[Any(s)] + total[s \ {Any(s)}]
  BY DEF Sums
<1>2. \A s \in SUBSET S : IsFiniteSet(s) /\ Cardinality(s) \in Nat
  BY FS_Subset, FS_CardinalityType
<1>3. \A s \in SUBSET S : s # {} => Any(s) \in s
  BY DEF Any
<1>4. \A s \in SUBSET S : \A x \in s : Cardinality(s \ {x}) = Cardinality(s) - 1
  BY <1>2, FS_RemoveElement
<1>. DEFINE Fine(s) == /\ total[s] \in Nat
                       /\ \A x \in s : total[s] = weight[x] + total[s \ {x}]
            T == {n \in Nat : \A s \in SUBSET S : Cardinality(s) <= n => Fine(s)}
<1>5. 0 \in T
  <2>1. ASSUME NEW s \in SUBSET S, Cardinality(s) <= 0 PROVE s = {}
    BY <1>2, <2>1, FS_EmptySet
  <2>. QED
    BY <1>1, <2>1
<1>6. ASSUME NEW n \in Nat, n \in T PROVE n + 1 \in T
  <2>. SUFFICES ASSUME NEW s \in SUBSET S, Cardinality(s) <= n + 1, s # {} PROVE Fine(s)
    <3>1. total[{}] = 0
      BY <1>1
    <3>a. Fine({})
      BY <3>1
    <3>. HIDE DEF Fine
    <3>. QED
      BY <3>a
  <2>. DEFINE y == Any(s)
  <2>1. y \in s /\ total[s] = weight[y] + total[s \ {y}]
    BY <1>1, <1>3
  <2>. HIDE DEF y
  <2>2. \A x \in s : s \ {x} \in SUBSET S /\ Cardinality(s \ {x}) <= n
    BY <1>2, <1>4
  <2>3. \A x \in s : Fine(s \ {x})
    BY <1>6, <2>2
  <2>4. total[s] \in Nat
    BY <2>1, <2>3
  <2>5. ASSUME NEW x \in s PROVE total[s] = weight[x] + total[s \ {x}]
    <3>1. CASE x = y
      BY <2>1, <3>1
    <3>2. CASE x # y
      <4>. DEFINE rest == (s \ {y}) \ {x}
      <4>1. rest = (s \ {x}) \ {y}
        OBVIOUS
      <4>2. total[s \ {y}] = weight[x] + total[rest]
        BY <2>1, <2>3, <3>2
      <4>3. total[s \ {x}] = weight[y] + total[rest]
        BY <2>1, <2>3, <3>2, <4>1
      <4>4. total[rest] \in Nat
        <5>1. rest \in SUBSET S /\ x \in s \ {y}
          BY <3>2
        <5>2. Cardinality(rest) <= n
          BY <1>2, <1>4, <2>1, <2>2, <5>1
        <5>. QED
          BY <1>6, <5>1, <5>2
      <4>5. weight[x] \in Nat /\ weight[y] \in Nat
        BY <2>1
      <4>. HIDE DEF rest
      <4>. QED
        BY <2>1, <4>2, <4>3, <4>4, <4>5
    <3>. QED
      BY <3>1, <3>2
  <2>. QED
    BY <2>4, <2>5
<1>7. \A s \in SUBSET S : Fine(s)
  <2>. SUFFICES ASSUME NEW s \in SUBSET S PROVE Fine(s)
    OBVIOUS
  <2>1. Cardinality(s) \in T
    <3>. HIDE DEF T
    <3>. QED
      BY <1>2, <1>5, <1>6, InductionOverNat
  <2>. QED
    BY <1>2, <2>1
<1>. QED
  BY <1>1, <1>7

(* Sums over one set and over another that agree on a part of both.        *)
LEMMA SumsAgree ==
    ASSUME NEW S, IsFiniteSet(S), NEW weight \in [S -> Nat], NEW total, Sums(total, S, weight),
           NEW U, IsFiniteSet(U), NEW wage \in [U -> Nat], NEW sum, Sums(sum, U, wage),
           NEW P \in SUBSET S, P \in SUBSET U, \A x \in P : weight[x] = wage[x]
    PROVE  total[P] = sum[P]
<1>1. /\ total[{}] = 0 /\ sum[{}] = 0
      /\ \A s \in SUBSET P : \A x \in s :
            total[s] = weight[x] + total[s \ {x}] /\ sum[s] = wage[x] + sum[s \ {x}]
  BY SumsAdd
<1>. DEFINE T == {n \in Nat : \A s \in SUBSET P : Cardinality(s) = n => total[s] = sum[s]}
<1>2. \A s \in SUBSET P : IsFiniteSet(s) /\ Cardinality(s) \in Nat
  BY FS_Subset, FS_CardinalityType
<1>3. 0 \in T
  <2>1. ASSUME NEW s \in SUBSET P, Cardinality(s) = 0 PROVE s = {}
    BY <1>2, <2>1, FS_EmptySet
  <2>. QED
    BY <1>1, <2>1
<1>4. ASSUME NEW n \in Nat, n \in T PROVE n + 1 \in T
  <2>. SUFFICES ASSUME NEW s \in SUBSET P, Cardinality(s) = n + 1 PROVE total[s] = sum[s]
    OBVIOUS
  <2>1. PICK x \in s : TRUE
    BY FS_EmptySet
  <2>2. s \ {x} \in SUBSET P
    OBVIOUS
  <2>3. Cardinality(s \ {x}) = Cardinality(s) - 1
    BY <1>2, <2>1, FS_RemoveElement
  <2>. QED
    BY <1>1, <1>4, <2>1, <2>2, <2>3
<1>5. Cardinality(P) \in T
  <2>. HIDE DEF T
  <2>. QED
    BY <1>2, <1>3, <1>4, InductionOverNat
<1>. QED
  BY <1>2, <1>5

(* A part of weights.                                                      *)

LEMMA TotalTyped ==
    ASSUME NEW S, IsFiniteSet(S), NEW weight \in [S -> Nat]
    PROVE  Total(weight) \in Nat
BY TotalSums, SumsAdd

LEMMA TotalOfNone == ASSUME NEW weight \in [{} -> Nat] PROVE Total(weight) = 0
<1>1. IsFiniteSet({})
  BY FS_EmptySet
<1>2. PICK total : Sums(total, {}, weight) /\ Total(weight) = total[{}]
  BY <1>1, TotalSums
<1>. QED
  BY <1>1, <1>2, SumsAdd

(* Without one of its members, a sum is less by what that one weighs.      *)
LEMMA TotalWithout ==
    ASSUME NEW S, IsFiniteSet(S), NEW weight \in [S -> Nat], NEW x \in S
    PROVE  /\ Total(weight) = weight[x] + Total(Restrict(weight, S \ {x}))
           /\ Total(Restrict(weight, S \ {x})) \in Nat
<1>. DEFINE P == S \ {x}
            part == Restrict(weight, P)
<1>1. IsFiniteSet(P) /\ part \in [P -> Nat] /\ \A z \in P : part[z] = weight[z]
  BY FS_RemoveElement DEF Restrict
<1>. HIDE DEF part
<1>2. PICK total : Sums(total, S, weight) /\ Total(weight) = total[S]
  BY TotalSums
<1>3. PICK sum : Sums(sum, P, part) /\ Total(part) = sum[P]
  BY <1>1, TotalSums
<1>4. total[P] = sum[P]
  BY <1>1, <1>2, <1>3, SumsAgree
<1>5. total[S] = weight[x] + total[P]
  BY <1>2, SumsAdd
<1>6. Total(part) \in Nat
  BY <1>1, TotalTyped
<1>. QED
  BY <1>2, <1>3, <1>4, <1>5, <1>6 DEF part

(* Each of two members weighs no more than the rest leaves it.             *)
LEMMA TotalAtLeast ==
    ASSUME NEW S, IsFiniteSet(S), NEW weight \in [S -> Nat]
    PROVE  /\ \A x \in S : weight[x] <= Total(weight)
           /\ \A x, y \in S : x # y => weight[x] + weight[y] <= Total(weight)
<1>1. \A x \in S : Total(weight) = weight[x] + Total(Restrict(weight, S \ {x}))
                   /\ Total(Restrict(weight, S \ {x})) \in Nat
  BY TotalWithout
<1>2. ASSUME NEW x \in S, NEW y \in S, x # y PROVE weight[x] + weight[y] <= Total(weight)
  <2>. DEFINE P == S \ {x}
              part == Restrict(weight, P)
  <2>1. IsFiniteSet(P) /\ part \in [P -> Nat] /\ y \in P /\ part[y] = weight[y]
    BY <1>2, FS_RemoveElement DEF Restrict
  <2>. HIDE DEF P, part
  <2>2. Total(part) = part[y] + Total(Restrict(part, P \ {y})) /\ Total(Restrict(part, P \ {y})) \in Nat
    BY <2>1, TotalWithout
  <2>3. Total(weight) = weight[x] + Total(part)
    BY <1>1 DEF part, P
  <2>4. weight[x] \in Nat /\ weight[y] \in Nat
    OBVIOUS
  <2>. QED
    BY <2>1, <2>2, <2>3, <2>4
<1>3. ASSUME NEW x \in S PROVE weight[x] <= Total(weight)
  <2>. DEFINE rest == Total(Restrict(weight, S \ {x}))
  <2>1. Total(weight) = weight[x] + rest /\ rest \in Nat /\ weight[x] \in Nat
    BY <1>1
  <2>. HIDE DEF rest
  <2>. QED
    BY <2>1
<1>. QED
  BY <1>2, <1>3

IsSum(total, S, weight) ==
    /\ total[{}] = 0 /\ Sums(total, S, weight) /\ Total(weight) = total[S]
    /\ \A s \in SUBSET S : total[s] \in Nat
    /\ \A s \in SUBSET S : \A x \in s : total[s] = weight[x] + total[s \ {x}]

LEMMA TotalIsSum ==
    ASSUME NEW S, IsFiniteSet(S), NEW weight \in [S -> Nat]
    PROVE  \E total : IsSum(total, S, weight)
<1>1. PICK total : Sums(total, S, weight) /\ Total(weight) = total[S]
  BY TotalSums
<1>2. /\ total[{}] = 0
      /\ \A s \in SUBSET S : total[s] \in Nat
      /\ \A s \in SUBSET S : \A x \in s : total[s] = weight[x] + total[s \ {x}]
  BY <1>1, SumsAdd
<1>. QED
  BY <1>1, <1>2 DEF IsSum

(* A sum is the sum of what its parts come to, one part for each value g   *)
(* takes.                                                                  *)
Fibre(g, S, t) == {x \in S : g[x] = t}

LEMMA TotalByParts ==
    ASSUME NEW S, IsFiniteSet(S), NEW weight \in [S -> Nat],
           NEW T, IsFiniteSet(T), NEW g \in [S -> T],
           NEW share \in [T -> Nat], \A t \in T : share[t] = Total(Restrict(weight, Fibre(g, S, t)))
    PROVE  Total(weight) = Total(share)
<1>1. PICK total : IsSum(total, S, weight)
  BY TotalIsSum
<1>2. /\ total[{}] = 0 /\ Sums(total, S, weight) /\ Total(weight) = total[S]
      /\ \A s \in SUBSET S : total[s] \in Nat
      /\ \A s \in SUBSET S : \A x \in s : total[s] = weight[x] + total[s \ {x}]
  BY <1>1 DEF IsSum
<1>. DEFINE Share(P) == [t \in T |-> total[Fibre(g, P, t)]]
<1>3. \A P \in SUBSET S : Share(P) \in [T -> Nat]
  <2>1. \A P \in SUBSET S : \A t \in T : Fibre(g, P, t) \in SUBSET S
    BY DEF Fibre
  <2>. QED
    BY <1>2, <2>1
<1>. DEFINE N == {n \in Nat : \A P \in SUBSET S : Cardinality(P) = n => total[P] = Total(Share(P))}
<1>4. \A P \in SUBSET S : IsFiniteSet(P) /\ Cardinality(P) \in Nat
  BY FS_Subset, FS_CardinalityType
<1>5. ASSUME NEW z \in [T -> Nat], \A t \in T : z[t] = 0 PROVE Total(z) = 0
  <2>1. PICK sum : Sums(sum, T, z) /\ Total(z) = sum[T]
    BY TotalSums
  <2>. DEFINE M == {n \in Nat : \A U \in SUBSET T : Cardinality(U) = n => sum[U] = 0}
  <2>2. \A U \in SUBSET T : IsFiniteSet(U) /\ Cardinality(U) \in Nat
    BY FS_Subset, FS_CardinalityType
  <2>3. sum[{}] = 0 /\ \A U \in SUBSET T : \A t \in U : sum[U] = z[t] + sum[U \ {t}]
    BY <2>1, SumsAdd
  <2>4. 0 \in M
    <3>1. ASSUME NEW U \in SUBSET T, Cardinality(U) = 0 PROVE U = {}
      BY <2>2, <3>1, FS_EmptySet
    <3>. QED
      BY <2>3, <3>1
  <2>5. ASSUME NEW n \in Nat, n \in M PROVE n + 1 \in M
    <3>. SUFFICES ASSUME NEW U \in SUBSET T, Cardinality(U) = n + 1 PROVE sum[U] = 0
      OBVIOUS
    <3>0. Cardinality({}) = 0 /\ n + 1 # 0
      BY <2>5, FS_EmptySet
    <3>1. PICK t : t \in U
      BY <3>0
    <3>2. U \ {t} \in SUBSET T
      OBVIOUS
    <3>3. Cardinality(U \ {t}) = n
      <4>1. IsFiniteSet(U) /\ Cardinality(U) \in Nat
        BY <2>2
      <4>2. Cardinality(U \ {t}) = Cardinality(U) - 1
        BY <3>1, <4>1, FS_RemoveElement
      <4>. QED
        BY <2>5, <4>2
    <3>4. sum[U \ {t}] = 0
      BY <2>5, <3>2, <3>3
    <3>5. sum[U] = z[t] + sum[U \ {t}] /\ z[t] = 0
      BY <1>5, <2>3, <3>1
    <3>. QED
      BY <3>4, <3>5
  <2>6. Cardinality(T) \in M
    <3>. HIDE DEF M
    <3>. QED
      BY <2>2, <2>4, <2>5, InductionOverNat
  <2>. QED
    BY <2>1, <2>2, <2>6
<1>6. 0 \in N
  <2>1. ASSUME NEW P \in SUBSET S, Cardinality(P) = 0 PROVE P = {}
    BY <1>4, <2>1, FS_EmptySet
  <2>2. \A t \in T : Fibre(g, {}, t) = {}
    BY DEF Fibre
  <2>3. Total(Share({})) = 0
    <3>1. \A t \in T : Share({})[t] = 0
      BY <1>2, <2>2
    <3>2. Share({}) \in [T -> Nat]
      BY <1>3
    <3>. HIDE DEF Share
    <3>. QED
      BY <1>5, <3>1, <3>2
  <2>. HIDE DEF Share
  <2>. QED
    BY <1>2, <2>1, <2>3
<1>7. ASSUME NEW n \in Nat, n \in N PROVE n + 1 \in N
  <2>. SUFFICES ASSUME NEW P \in SUBSET S, Cardinality(P) = n + 1 PROVE total[P] = Total(Share(P))
    OBVIOUS
  <2>1. PICK x \in P : TRUE
    BY FS_EmptySet
  <2>. DEFINE Q == P \ {x}
              t == g[x]
              F == Fibre(g, P, t)
  <2>2. Q \in SUBSET S /\ t \in T /\ F \in SUBSET S /\ x \in F
    BY <2>1 DEF Fibre
  <2>3. Cardinality(Q) = Cardinality(P) - 1
    BY <1>4, <2>1, FS_RemoveElement
  <2>4. total[Q] = Total(Share(Q)) /\ total[P] = weight[x] + total[Q]
    <3>. HIDE DEF Share
    <3>. QED
      BY <1>2, <1>7, <2>1, <2>2, <2>3
  <2>5. Fibre(g, Q, t) = F \ {x} /\ \A y \in T \ {t} : Fibre(g, Q, y) = Fibre(g, P, y)
    BY <2>1 DEF Fibre
  <2>6. Share(P)[t] = weight[x] + Share(Q)[t]
    <3>1. Share(P)[t] = total[F] /\ Share(Q)[t] = total[Fibre(g, Q, t)]
      BY <2>2
    <3>2. total[F] = weight[x] + total[F \ {x}]
      BY <1>2, <2>2
    <3>. HIDE DEF Share, F, Q
    <3>. QED
      BY <2>5, <3>1, <3>2
  <2>7. Restrict(Share(P), T \ {t}) = Restrict(Share(Q), T \ {t})
    BY <2>5 DEF Restrict
  <2>8. /\ Share(P) \in [T -> Nat] /\ Share(Q) \in [T -> Nat]
        /\ weight[x] \in Nat /\ total[Q] \in Nat
    BY <1>2, <1>3, <2>1, <2>2
  <2>. HIDE DEF Share, Q, t, F
  <2>9. Total(Share(P)) = Share(P)[t] + Total(Restrict(Share(P), T \ {t}))
        /\ Total(Restrict(Share(P), T \ {t})) \in Nat
    BY <2>2, <2>8, TotalWithout
  <2>10. Total(Share(Q)) = Share(Q)[t] + Total(Restrict(Share(Q), T \ {t}))
    BY <2>2, <2>8, TotalWithout
  <2>11. Share(P)[t] \in Nat /\ Share(Q)[t] \in Nat
    BY <2>2, <2>8
  <2>. QED
    BY <2>4, <2>6, <2>7, <2>8, <2>9, <2>10, <2>11
<1>8. total[S] = Total(Share(S))
  <2>1. Cardinality(S) \in N
    <3>. HIDE DEF N
    <3>. QED
      BY <1>4, <1>6, <1>7, InductionOverNat
  <2>. HIDE DEF Share
  <2>. QED
    BY <1>4, <2>1
<1>9. ASSUME NEW t \in T PROVE share[t] = Share(S)[t]
  <2>. DEFINE F == Fibre(g, S, t)
              part == Restrict(weight, F)
  <2>1. F \in SUBSET S /\ IsFiniteSet(F)
    BY FS_Subset DEF Fibre
  <2>2. part \in [F -> Nat] /\ \A x \in F : part[x] = weight[x]
    BY <2>1 DEF Restrict
  <2>. HIDE DEF part, F
  <2>3. PICK sum : Sums(sum, F, part) /\ Total(part) = sum[F]
    BY <2>1, <2>2, TotalSums
  <2>4. total[F] = sum[F]
    BY <1>2, <2>1, <2>2, <2>3, SumsAgree
  <2>. QED
    BY <2>3, <2>4 DEF part, F
<1>10. share = Share(S)
  BY <1>9
<1>. QED
  BY <1>2, <1>8, <1>10

(* Weights moved along a bijection add up to the same.                     *)
LEMMA TotalMoved ==
    ASSUME NEW S, IsFiniteSet(S), NEW weight \in [S -> Nat],
           NEW T, IsFiniteSet(T), NEW wage \in [T -> Nat],
           NEW g \in [S -> T],
           \A t \in T : \E x \in S : g[x] = t,
           \A x, y \in S : g[x] = g[y] => x = y,
           \A x \in S : wage[g[x]] = weight[x]
    PROVE  Total(weight) = Total(wage)
<1>1. ASSUME NEW t \in T PROVE wage[t] = Total(Restrict(weight, Fibre(g, S, t)))
  <2>1. PICK x \in S : g[x] = t
    OBVIOUS
  <2>2. Fibre(g, S, t) = {x}
    BY <2>1 DEF Fibre
  <2>. DEFINE part == Restrict(weight, {x})
  <2>3. IsFiniteSet({x}) /\ part \in [{x} -> Nat] /\ x \in {x} /\ part[x] = weight[x]
    BY FS_Singleton DEF Restrict
  <2>4. Restrict(part, {x} \ {x}) \in [{} -> Nat]
    BY DEF Restrict
  <2>5. Total(Restrict(part, {x} \ {x})) = 0
    BY <2>4, TotalOfNone
  <2>. HIDE DEF part
  <2>6. Total(part) = part[x] + Total(Restrict(part, {x} \ {x}))
    BY <2>3, TotalWithout
  <2>7. part[x] \in Nat /\ part[x] = wage[t]
    BY <2>1, <2>3
  <2>8. Total(part) = wage[t]
    BY <2>5, <2>6, <2>7
  <2>. QED
    BY <2>2, <2>8 DEF part
<1>. QED
  BY <1>1, TotalByParts

(* What is added up step by step is the difference it makes.               *)
LEMMA TotalOfSteps ==
    ASSUME NEW n \in Nat, NEW weight \in [1 .. n -> Nat], NEW c \in [1 .. n + 1 -> Nat],
           \A j \in 1 .. n : c[j + 1] = c[j] + weight[j]
    PROVE  c[n + 1] = c[1] + Total(weight)
<1>1. IsFiniteSet(1 .. n)
  BY FS_Interval
<1>2. PICK total : IsSum(total, 1 .. n, weight)
  BY <1>1, TotalIsSum
<1>3. /\ total[{}] = 0 /\ Total(weight) = total[1 .. n]
      /\ \A s \in SUBSET (1 .. n) : total[s] \in Nat
      /\ \A s \in SUBSET (1 .. n) : \A x \in s : total[s] = weight[x] + total[s \ {x}]
  BY <1>2 DEF IsSum
<1>. DEFINE upto(j) == total[1 .. j]
            M == {j \in Nat : j <= n => c[j + 1] = c[1] + upto(j)}
<1>4. upto(0) = 0
  <2>1. 1 .. 0 = {}
    OBVIOUS
  <2>. QED
    BY <1>3, <2>1
<1>5. ASSUME NEW j \in Nat, j + 1 <= n
      PROVE  upto(j) \in Nat /\ upto(j + 1) = weight[j + 1] + upto(j)
  <2>. DEFINE A == 1 .. j + 1
              B == 1 .. j
              N == 1 .. n
  <2>1. /\ \A k \in A : k \in N
        /\ \A k \in B : k \in A /\ k # j + 1
        /\ \A k \in A : k # j + 1 => k \in B
        /\ j + 1 \in A
    BY <1>5
  <2>2. /\ \A s \in SUBSET N : total[s] \in Nat
        /\ \A s \in SUBSET N : \A x \in s : total[s] = weight[x] + total[s \ {x}]
    BY <1>3
  <2>. HIDE DEF A, B, N
  <2>3. A \in SUBSET N /\ A \ {j + 1} = B /\ B \in SUBSET N
    BY <2>1
  <2>4. total[A] = weight[j + 1] + total[B] /\ total[B] \in Nat
    BY <2>1, <2>2, <2>3
  <2>. QED
    BY <2>4 DEF A, B
<1>. HIDE DEF upto
<1>6. 0 \in M
  <2>1. 1 \in 1 .. n + 1 /\ 0 + 1 = 1
    OBVIOUS
  <2>2. c[1] \in Nat
    BY <2>1
  <2>. QED
    BY <1>4, <2>1, <2>2
<1>7. ASSUME NEW j \in Nat, j \in M PROVE j + 1 \in M
  <2>. SUFFICES ASSUME j + 1 <= n PROVE c[(j + 1) + 1] = c[1] + upto(j + 1)
    OBVIOUS
  <2>1. j + 1 \in 1 .. n /\ 1 \in 1 .. n + 1 /\ j <= n
    OBVIOUS
  <2>2. c[j + 1] = c[1] + upto(j)
    BY <1>7, <2>1
  <2>3. c[(j + 1) + 1] = c[j + 1] + weight[j + 1]
    BY <2>1
  <2>4. upto(j) \in Nat /\ upto(j + 1) = weight[j + 1] + upto(j)
    BY <1>5
  <2>5. weight[j + 1] \in Nat /\ c[1] \in Nat
    BY <2>1
  <2>6. \A x, y, z, u, v, w \in Int :
           x = y + v /\ u = x + w /\ z = w + v => u = y + z
    OBVIOUS
  <2>7. c[j + 1] \in Int /\ c[(j + 1) + 1] \in Int /\ upto(j + 1) \in Int
    <3>1. j + 1 \in 1 .. n + 1 /\ (j + 1) + 1 \in 1 .. n + 1
      OBVIOUS
    <3>2. c[j + 1] \in Nat /\ c[(j + 1) + 1] \in Nat
      BY <3>1
    <3>3. upto(j + 1) \in Nat
      BY <2>4, <2>5
    <3>. QED
      BY <3>2, <3>3
  <2>. QED
    BY <2>2, <2>3, <2>4, <2>5, <2>6, <2>7
<1>. HIDE DEF M
<1>8. n \in M
  BY <1>6, <1>7, InductionOverNat
<1>. QED
  BY <1>3, <1>8 DEF M, upto

-----------------------------------------------------------------------------
(* Sorting.                                                                *)

(* How many elements come before x.                                        *)
Before(S, R, x) == {y \in S : <<y, x>> \in R}

LEMMA RankInOrder ==
    ASSUME NEW S, IsFiniteSet(S), NEW R, IsOrder(R, S), NEW x \in S
    PROVE  /\ Cardinality(Before(S, R, x)) \in 0 .. Cardinality(S) - 1
           /\ \A y \in S : <<y, x>> \in R =>
                 Cardinality(Before(S, R, y)) < Cardinality(Before(S, R, x))
<1>1. \A y \in S : Before(S, R, y) \in SUBSET S /\ y \notin Before(S, R, y)
  BY DEF Before, IsOrder
<1>2. \A y \in S : IsFiniteSet(Before(S, R, y)) /\ Cardinality(Before(S, R, y)) \in Nat
  BY <1>1, FS_Subset, FS_CardinalityType
<1>3. Cardinality(Before(S, R, x)) < Cardinality(S) /\ Cardinality(S) \in Nat
  <2>1. /\ Cardinality(Before(S, R, x)) <= Cardinality(S)
        /\ Cardinality(Before(S, R, x)) # Cardinality(S)
    BY <1>1, FS_Subset
  <2>2. Cardinality(S) \in Nat
    BY FS_CardinalityType
  <2>. QED
    BY <1>2, <2>1, <2>2
<1>4. ASSUME NEW y \in S, <<y, x>> \in R
      PROVE  Cardinality(Before(S, R, y)) < Cardinality(Before(S, R, x))
  <2>1. Before(S, R, y) \in SUBSET Before(S, R, x) /\ y \in Before(S, R, x)
    BY <1>4 DEF Before, IsOrder
  <2>2. /\ Cardinality(Before(S, R, y)) <= Cardinality(Before(S, R, x))
        /\ Cardinality(Before(S, R, y)) # Cardinality(Before(S, R, x))
    BY <1>1, <1>2, <2>1, FS_Subset
  <2>. QED
    BY <1>2, <2>2
<1>. QED
  BY <1>2, <1>3, <1>4

(* What a sorted list of S is.                                             *)
Sorted(s, S, R, n) ==
    /\ n \in Nat /\ s \in [1 .. n -> S] /\ s \in Seq(S) /\ Len(s) = n
    /\ \A x \in S : \E k \in 1 .. n : s[k] = x
    /\ \A j, k \in 1 .. n : j < k => <<s[j], s[k]>> \in R /\ s[j] # s[k]

(* InOrder lists every element once, and those before it before it.        *)
THEOREM InOrderSorts ==
    ASSUME NEW S, IsFiniteSet(S), NEW R, IsOrder(R, S)
    PROVE  Sorted(InOrder(S, R), S, R, Cardinality(S))
<1>. DEFINE n == Cardinality(S)
            s == InOrder(S, R)
            Rank(x) == Cardinality(Before(S, R, x))
            r == [x \in S |-> Rank(x)]
<1>1. n \in Nat /\ Cardinality(S) = n
  BY FS_CardinalityType
<1>2. \A x \in S : Rank(x) \in 0 .. n - 1
  BY RankInOrder
<1>3. \A x, y \in S : <<y, x>> \in R => Rank(y) < Rank(x)
  BY RankInOrder
<1>. DEFINE pick(k) == CHOOSE x \in S : Rank(x) = k - 1
<1>4. s = [k \in 1 .. n |-> pick(k)]
  BY Zenon DEF InOrder, Before
<1>. HIDE DEF pick, Rank, n, s
<1>5. \A x, y \in S : Rank(x) = Rank(y) => x = y
  <2>. SUFFICES ASSUME NEW x \in S, NEW y \in S, Rank(x) = Rank(y), x # y PROVE FALSE
    OBVIOUS
  <2>1. <<x, y>> \in R \/ <<y, x>> \in R
    BY DEF IsOrder
  <2>. QED
    BY <1>1, <1>2, <1>3, <2>1
<1>6. r \in Injection(S, 0 .. n - 1)
  BY <1>2, <1>5 DEF Injection, IsInjective
<1>7. IsFiniteSet(0 .. n - 1) /\ Cardinality(0 .. n - 1) = n
  <2>1. 0 \in Int /\ n - 1 \in Int
    BY <1>1
  <2>2. /\ IsFiniteSet(0 .. n - 1)
        /\ Cardinality(0 .. n - 1) = IF 0 > n - 1 THEN 0 ELSE (n - 1) - 0 + 1
    BY <2>1, FS_Interval
  <2>. QED
    BY <1>1, <2>2
<1>8. r \in Surjection(S, 0 .. n - 1)
  BY <1>1, <1>6, <1>7, FS_Injection
<1>9. ASSUME NEW k \in 1 .. n PROVE s[k] \in S /\ Rank(s[k]) = k - 1
  <2>1. k - 1 \in 0 .. n - 1
    BY <1>1
  <2>2. \E x \in S : Rank(x) = k - 1
    BY <1>8, <2>1 DEF Surjection
  <2>3. pick(k) \in S /\ Rank(pick(k)) = k - 1
    BY <2>2, Zenon DEF pick
  <2>. QED
    BY <1>4, <2>3
<1>10. s \in [1 .. n -> S]
  BY <1>4, <1>9
<1>11. s \in Seq(S) /\ Len(s) = n
  BY <1>1, <1>10
<1>12. ASSUME NEW x \in S PROVE \E k \in 1 .. n : s[k] = x
  <2>1. PICK k \in 1 .. n : k - 1 = Rank(x)
    <3>1. Rank(x) \in 0 .. n - 1
      BY <1>2
    <3>2. Rank(x) + 1 \in 1 .. n /\ (Rank(x) + 1) - 1 = Rank(x)
      BY <1>1, <3>1
    <3>. QED
      BY <3>2
  <2>. QED
    BY <1>5, <1>9, <2>1
<1>13. ASSUME NEW j \in 1 .. n, NEW k \in 1 .. n, j < k
       PROVE  <<s[j], s[k]>> \in R /\ s[j] # s[k]
  <2>1. Rank(s[j]) = j - 1 /\ Rank(s[k]) = k - 1 /\ s[j] \in S /\ s[k] \in S
    BY <1>9
  <2>2. s[j] # s[k]
    BY <1>1, <1>13, <2>1
  <2>3. ~(Rank(s[k]) < Rank(s[j]))
    BY <1>1, <1>13, <2>1
  <2>. QED
    BY <1>3, <2>1, <2>2, <2>3 DEF IsOrder
<1>14. Sorted(s, S, R, n)
  BY <1>1, <1>10, <1>11, <1>12, <1>13 DEF Sorted
<1>. QED
  BY <1>14 DEF s, n

-----------------------------------------------------------------------------
(* Filters.                                                                *)

Smaller(K) == {p \in K \X K : p[1] < p[2]}

LEMMA NumbersInOrder ==
    ASSUME NEW K \in SUBSET Nat, IsFiniteSet(K)
    PROVE  Sorted(InOrder(K, Smaller(K)), K, Smaller(K), Cardinality(K))
<1>1. \A x, y \in K : <<x, y>> \in Smaller(K) <=> x < y
  BY DEF Smaller
<1>2. IsOrder(Smaller(K), K)
  BY <1>1 DEF IsOrder
<1>. QED
  BY <1>2, InOrderSorts

(* at holds the positions K in their order.                                *)
Rising(at, K) ==
    LET n == Cardinality(K)
    IN  /\ n \in Nat /\ at \in [1 .. n -> K]
        /\ \A x \in K : \E k \in 1 .. n : at[k] = x
        /\ \A j, k \in 1 .. n : j < k => at[j] < at[k]

LEMMA PositionsRise ==
    ASSUME NEW K \in SUBSET Nat, IsFiniteSet(K)
    PROVE  Rising(InOrder(K, Smaller(K)), K)
<1>. DEFINE at == InOrder(K, Smaller(K))
            n == Cardinality(K)
<1>1. Sorted(at, K, Smaller(K), n)
  BY NumbersInOrder
<1>. HIDE DEF at, n
<1>2. \A x, y \in K : <<x, y>> \in Smaller(K) <=> x < y
  BY DEF Smaller
<1>3. ASSUME NEW j \in 1 .. n, NEW k \in 1 .. n, j < k PROVE at[j] < at[k]
  BY <1>1, <1>2, <1>3 DEF Sorted
<1>. QED
  BY <1>1, <1>3 DEF Sorted, Rising, at, n

LEMMA PickedFacts ==
    ASSUME NEW T, NEW s \in Seq(T), NEW K \in SUBSET DOMAIN s
    PROVE  /\ Picked(s, K) \in Seq(T)
           /\ \E at : /\ Rising(at, K)
                      /\ Picked(s, K) = [k \in 1 .. Cardinality(K) |-> s[at[k]]]
<1>. DEFINE at == InOrder(K, Smaller(K))
            n == Cardinality(K)
<1>1. K \in SUBSET Nat /\ IsFiniteSet(K)
  <2>1. DOMAIN s = 1 .. Len(s) /\ Len(s) \in Nat
    OBVIOUS
  <2>2. IsFiniteSet(1 .. Len(s))
    BY <2>1, FS_Interval
  <2>. QED
    BY <2>1, <2>2, FS_Subset
<1>2. Rising(at, K)
  BY <1>1, PositionsRise
<1>3. Picked(s, K) = [k \in DOMAIN at |-> s[at[k]]]
  BY DEF Picked, Smaller
<1>. HIDE DEF at
<1>4. n \in Nat /\ DOMAIN at = 1 .. n /\ \A k \in 1 .. n : at[k] \in DOMAIN s
  BY <1>2 DEF Rising
<1>5. \A k \in DOMAIN s : s[k] \in T
  OBVIOUS
<1>. HIDE DEF n
<1>6. Picked(s, K) = [k \in 1 .. n |-> s[at[k]]]
  BY <1>3, <1>4
<1>7. Picked(s, K) \in Seq(T)
  BY <1>4, <1>5, <1>6
<1>. QED
  BY <1>2, <1>6, <1>7 DEF n


(* All positions in their order are each its own.                          *)
LEMMA AllRise ==
    ASSUME NEW n \in Nat, NEW at, Rising(at, 1 .. n)
    PROVE  Cardinality(1 .. n) = n /\ at = [k \in 1 .. n |-> k]
<1>1. Cardinality(1 .. n) = n
  BY FS_Interval
<1>2. /\ at \in [1 .. n -> 1 .. n]
      /\ \A x \in 1 .. n : \E k \in 1 .. n : at[k] = x
      /\ \A j, k \in 1 .. n : j < k => at[j] < at[k]
  BY <1>1 DEF Rising
<1>. DEFINE Off == {k \in 1 .. n : at[k] # k}
<1>3. Off = {}
  <2>. SUFFICES ASSUME Off # {} PROVE FALSE
    OBVIOUS
  <2>1. PICK k \in Off : \A d \in Off : k <= d
    <3>1. Off \in SUBSET Nat
      OBVIOUS
    <3>. HIDE DEF Off
    <3>. QED
      BY <3>1, LeastNatural
  <2>2. k \in 1 .. n /\ at[k] # k /\ at[k] \in 1 .. n
    BY <1>2, <2>1
  <2>3. \A j \in 1 .. n : j < k => at[j] = j
    <3>. SUFFICES ASSUME NEW j \in 1 .. n, j < k, at[j] # j PROVE FALSE
      OBVIOUS
    <3>1. j \in Off
      OBVIOUS
    <3>. QED
      BY <2>1, <2>2, <3>1
  <2>4. at[k] > k
    <3>1. CASE k = 1
      BY <2>2, <3>1
    <3>2. CASE k # 1
      <4>1. k - 1 \in 1 .. n /\ k - 1 < k
        BY <2>2, <3>2
      <4>2. at[k - 1] = k - 1 /\ at[k - 1] < at[k]
        BY <1>2, <2>2, <2>3, <4>1
      <4>. QED
        BY <2>2, <4>2
    <3>. QED
      BY <3>1, <3>2
  <2>5. PICK x \in 1 .. n : at[x] = k
    BY <1>2, <2>2
  <2>6. CASE x < k
    BY <2>2, <2>3, <2>5, <2>6
  <2>7. CASE x = k
    BY <2>2, <2>5, <2>7
  <2>8. CASE x > k
    <3>1. at[k] < at[x]
      BY <1>2, <2>2, <2>8
    <3>. QED
      BY <2>2, <2>4, <2>5, <3>1
  <2>. QED
    BY <2>2, <2>6, <2>7, <2>8
<1>4. \A k \in 1 .. n : at[k] = k
  BY <1>3
<1>. QED
  BY <1>1, <1>2, <1>4

LEMMA PickedAll ==
    ASSUME NEW T, NEW s \in Seq(T) PROVE Picked(s, DOMAIN s) = s
<1>. DEFINE K == DOMAIN s
<1>1. K \in SUBSET DOMAIN s
  OBVIOUS
<1>2. K = 1 .. Len(s) /\ Len(s) \in Nat /\ s = [k \in 1 .. Len(s) |-> s[k]]
  OBVIOUS
<1>. HIDE DEF K
<1>3. PICK at : /\ Rising(at, K)
                /\ Picked(s, K) = [k \in 1 .. Cardinality(K) |-> s[at[k]]]
  BY <1>1, PickedFacts, Zenon
<1>4. Cardinality(1 .. Len(s)) = Len(s) /\ at = [k \in 1 .. Len(s) |-> k]
  BY <1>2, <1>3, AllRise
<1>. QED
  BY <1>2, <1>3, <1>4 DEF K

-----------------------------------------------------------------------------
(* CheapestDrives, round by round.                                         *)

AreRoads(start, roads) ==
    /\ start \in DOMAIN roads
    /\ roads \in [DOMAIN roads -> SUBSET ((DOMAIN roads) \X Nat)]

Drives(roads) == (DOMAIN roads) \X Nat

LEMMA CheapestFacts ==
    ASSUME NEW L, NEW X \in SUBSET (L \X Nat)
    PROVE  /\ Cheapest(X) \subseteq X
           /\ \A d, e \in Cheapest(X) : d[1] = e[1] => d[2] = e[2]
           /\ \A d \in X : \E e \in Cheapest(X) : e[1] = d[1] /\ e[2] <= d[2]
<1>1. Cheapest(X) \subseteq X
  BY DEF Cheapest
<1>2. ASSUME NEW d \in Cheapest(X), NEW e \in Cheapest(X), d[1] = e[1] PROVE d[2] = e[2]
  <2>1. d[2] <= e[2] /\ e[2] <= d[2] /\ d[2] \in Nat /\ e[2] \in Nat
    BY <1>2 DEF Cheapest
  <2>. QED
    BY <2>1
<1>3. ASSUME NEW d \in X PROVE \E e \in Cheapest(X) : e[1] = d[1] /\ e[2] <= d[2]
  <2>. DEFINE C == {x[2] : x \in {y \in X : y[1] = d[1]}}
  <2>1. C \in SUBSET Nat /\ d[2] \in C
    OBVIOUS
  <2>2. PICK c \in C : \A z \in C : c <= z
    BY <2>1, LeastNatural
  <2>3. PICK e \in X : e[1] = d[1] /\ e[2] = c
    BY <2>2
  <2>4. \A x \in X : x[1] = e[1] => e[2] <= x[2]
    BY <2>2, <2>3
  <2>. QED
    BY <2>1, <2>2, <2>3, <2>4 DEF Cheapest
<1>. QED
  BY <1>1, <1>2, <1>3

LEMMA FurtherFacts ==
    ASSUME NEW roads, NEW start, AreRoads(start, roads), NEW X \in SUBSET Drives(roads)
    PROVE  /\ Further(roads, X) \in SUBSET Drives(roads)
           /\ X \subseteq Further(roads, X)
           /\ \A d \in X : \A r \in roads[d[1]] : <<r[1], d[2] + r[2]>> \in Further(roads, X)
           /\ \A e \in Further(roads, X) :
                 e \in X \/ \E d \in X : \E r \in roads[d[1]] : e = <<r[1], d[2] + r[2]>>
<1>1. ASSUME NEW d \in X, NEW r \in roads[d[1]] PROVE <<r[1], d[2] + r[2]>> \in Drives(roads)
  <2>1. d[1] \in DOMAIN roads /\ d[2] \in Nat
    BY DEF Drives
  <2>2. r \in (DOMAIN roads) \X Nat
    BY <2>1 DEF AreRoads
  <2>3. r[1] \in DOMAIN roads /\ r[2] \in Nat
    BY <2>2
  <2>. QED
    BY <2>1, <2>3 DEF Drives
<1>. QED
  BY <1>1 DEF Further

(* The recursion is sound: each round is computed from the one before.     *)
LEMMA CheapestDrivesRounds ==
    ASSUME NEW roads, NEW start, AreRoads(start, roads)
    PROVE  LET A == CheapestDrives(start, roads)
           IN  /\ A \in [Nat -> SUBSET Drives(roads)]
               /\ A[0] = {<<start, 0>>}
               /\ \A n \in Nat : A[n + 1] = Cheapest(Further(roads, A[n]))
<1>. DEFINE S == SUBSET Drives(roads)
            x == {<<start, 0>>}
            turn == [X \in S |-> Cheapest(Further(roads, X))]
            step == [n \in Nat |-> turn]
            Rounds(a) == [h \in Nat |->
                             IF h = 0 THEN {<<start, 0>>}
                             ELSE UNION {Cheapest(drives) : drives \in {Further(roads, a[h - 1])}}]
<1>1. x \in S
  BY DEF AreRoads, Drives
<1>2. \A X \in S : Cheapest(Further(roads, X)) \in S
  BY FurtherFacts DEF Cheapest
<1>3. step \in [Nat -> [S -> S]]
  BY <1>2
<1>4. \A n \in Nat : \A X \in S : step[n][X] = Cheapest(Further(roads, X))
  OBVIOUS
<1>. HIDE DEF S, x, step
<1>a. PICK f : Recurs(f, S, x, step)
  BY <1>1, <1>3, RecursionOverNat DEF IsRecursion
<1>5. f \in [Nat -> S] /\ f[0] = x /\ \A n \in Nat : f[n + 1] = step[n][f[n]]
  BY <1>a DEF Recurs
<1>6. \A n \in Nat : f[n + 1] = Cheapest(Further(roads, f[n]))
  BY <1>4, <1>5
<1>7. f = Rounds(f)
  <2>1. ASSUME NEW h \in Nat, h # 0
        PROVE  f[h] = UNION {Cheapest(drives) : drives \in {Further(roads, f[h - 1])}}
    <3>1. h - 1 \in Nat /\ (h - 1) + 1 = h
      BY <2>1
    <3>2. f[h] = Cheapest(Further(roads, f[h - 1]))
      BY <1>6, <3>1
    <3>. QED
      BY <3>2
  <2>2. f[0] = {<<start, 0>>}
    BY <1>5 DEF x
  <2>. QED
    BY <1>5, <2>1, <2>2
<1>8. CheapestDrives(start, roads) = Rounds(CheapestDrives(start, roads))
  BY <1>7 DEF CheapestDrives
<1>. DEFINE A == CheapestDrives(start, roads)
<1>9. A = Rounds(A)
  BY <1>8
<1>. HIDE DEF A
<1>10. A = [h \in Nat |->
              IF h = 0 THEN {<<start, 0>>} ELSE Cheapest(Further(roads, A[h - 1]))]
  <2>1. \A Y : UNION {Cheapest(drives) : drives \in {Y}} = Cheapest(Y)
    OBVIOUS
  <2>2. \A h \in Nat :
            UNION {Cheapest(drives) : drives \in {Further(roads, A[h - 1])}}
              = Cheapest(Further(roads, A[h - 1]))
    BY <2>1
  <2>. QED
    BY <1>9, <2>2
<1>11. A[0] = {<<start, 0>>}
  BY <1>10
<1>12. ASSUME NEW n \in Nat PROVE A[n + 1] = Cheapest(Further(roads, A[n]))
  <2>1. n + 1 \in Nat /\ n + 1 # 0 /\ (n + 1) - 1 = n
    OBVIOUS
  <2>. QED
    BY <1>10, <2>1
<1>13. \A n \in Nat : A[n] \in S
  <2>. DEFINE T == {n \in Nat : A[n] \in S}
  <2>1. 0 \in T
    BY <1>1, <1>11 DEF x
  <2>a. ASSUME NEW n \in Nat, n \in T PROVE n + 1 \in T
    <3>1. A[n] \in S /\ A[n + 1] = Cheapest(Further(roads, A[n]))
      BY <2>a, <1>12
    <3>2. A[n + 1] \in S
      BY <3>1, <1>2, Zenon
    <3>. QED
      BY <3>2
  <2>2. Nat \subseteq T
    <3>. HIDE DEF T
    <3>. QED
      BY <2>1, <2>a, InductionOverNat
  <2>. QED
    BY <2>2
<1>14. A \in [Nat -> S]
  BY <1>10, <1>13
<1>. QED
  BY <1>11, <1>12, <1>14 DEF A, S
(* What is known of a round and the next.                                  *)
AreRounds(A, start, roads) ==
    /\ A \in [Nat -> SUBSET Drives(roads)]
    /\ A[0] = {<<start, 0>>}
    /\ \A n \in Nat : A[n + 1] = Cheapest(Further(roads, A[n]))

LEMMA RoundFacts ==
    ASSUME NEW roads, NEW start, AreRoads(start, roads),
           NEW A, AreRounds(A, start, roads), NEW n \in Nat
    PROVE  /\ A[n] \in SUBSET Drives(roads)
           /\ \A d, e \in A[n] : d[1] = e[1] => d[2] = e[2]
           /\ \A d \in A[n] : \E e \in A[n + 1] : e[1] = d[1] /\ e[2] <= d[2]
           /\ \A d \in A[n] : \A r \in roads[d[1]] :
                 \E e \in A[n + 1] : e[1] = r[1] /\ e[2] <= d[2] + r[2]
           /\ \A e \in A[n + 1] :
                 \/ e \in A[n]
                 \/ \E d \in A[n] : \E r \in roads[d[1]] : e = <<r[1], d[2] + r[2]>>
<1>. DEFINE X(m) == Further(roads, A[m])
<1>1. \A m \in Nat : A[m] \in SUBSET Drives(roads) /\ A[m + 1] = Cheapest(X(m))
  BY DEF AreRounds
<1>2. \A m \in Nat : X(m) \in SUBSET ((DOMAIN roads) \X Nat)
  BY <1>1, FurtherFacts DEF Drives
<1>3. /\ A[n] \subseteq X(n)
      /\ \A d \in A[n] : \A r \in roads[d[1]] : <<r[1], d[2] + r[2]>> \in X(n)
      /\ \A e \in X(n) :
            e \in A[n] \/ \E d \in A[n] : \E r \in roads[d[1]] : e = <<r[1], d[2] + r[2]>>
  BY <1>1, FurtherFacts
<1>. HIDE DEF X
<1>4. ASSUME NEW m \in Nat
      PROVE  /\ A[m + 1] \subseteq X(m)
             /\ \A d, e \in A[m + 1] : d[1] = e[1] => d[2] = e[2]
             /\ \A d \in X(m) : \E e \in A[m + 1] : e[1] = d[1] /\ e[2] <= d[2]
  <2>. DEFINE Y == X(m)
  <2>1. Y \in SUBSET ((DOMAIN roads) \X Nat) /\ A[m + 1] = Cheapest(Y)
    BY <1>1, <1>2
  <2>. HIDE DEF Y
  <2>2. /\ Cheapest(Y) \subseteq Y
        /\ \A d, e \in Cheapest(Y) : d[1] = e[1] => d[2] = e[2]
        /\ \A d \in Y : \E e \in Cheapest(Y) : e[1] = d[1] /\ e[2] <= d[2]
    BY <2>1, CheapestFacts
  <2>. QED
    BY <2>1, <2>2 DEF Y
<1>5. \A d, e \in A[n] : d[1] = e[1] => d[2] = e[2]
  <2>1. CASE n = 0
    BY <2>1 DEF AreRounds
  <2>2. CASE n # 0
    <3>1. PICK m \in Nat : n = m + 1
      BY <2>2
    <3>. QED
      BY <3>1, <1>4
  <2>. QED
    BY <2>1, <2>2
<1>6. ASSUME NEW d \in A[n], NEW r \in roads[d[1]]
      PROVE  \E e \in A[n + 1] : e[1] = r[1] /\ e[2] <= d[2] + r[2]
  <2>1. <<r[1], d[2] + r[2]>> \in X(n)
    BY <1>3
  <2>2. PICK e \in A[n + 1] :
            e[1] = <<r[1], d[2] + r[2]>>[1] /\ e[2] <= <<r[1], d[2] + r[2]>>[2]
    BY <2>1, <1>4
  <2>. QED
    BY <2>2
<1>7. \A d \in A[n] : \E e \in A[n + 1] : e[1] = d[1] /\ e[2] <= d[2]
  BY <1>3, <1>4
<1>8. \A e \in A[n + 1] :
          e \in A[n] \/ \E d \in A[n] : \E r \in roads[d[1]] : e = <<r[1], d[2] + r[2]>>
  BY <1>3, <1>4
<1>. QED
  BY <1>1, <1>5, <1>6, <1>7, <1>8

(* The same, one fact at a time.                                           *)
LEMMA RoundTyped ==
    ASSUME NEW roads, NEW start, AreRoads(start, roads),
           NEW A, AreRounds(A, start, roads), NEW n \in Nat, NEW d \in A[n]
    PROVE  d[1] \in DOMAIN roads /\ d[2] \in Nat /\ d = <<d[1], d[2]>> /\ d \in Drives(roads)
<1>1. d \in Drives(roads)
  BY RoundFacts
<1>. QED
  BY <1>1 DEF Drives

LEMMA RoundGoesOn ==
    ASSUME NEW roads, NEW start, AreRoads(start, roads),
           NEW A, AreRounds(A, start, roads), NEW n \in Nat,
           NEW k, NEW c, <<k, c>> \in A[n], NEW r \in roads[k]
    PROVE  \E e \in A[n + 1] : e[1] = r[1] /\ e[2] <= c + r[2]
<1>1. \A d \in A[n] : \A q \in roads[d[1]] :
          \E e \in A[n + 1] : e[1] = q[1] /\ e[2] <= d[2] + q[2]
  BY RoundFacts
<1>2. \A q \in roads[<<k, c>>[1]] :
          \E e \in A[n + 1] : e[1] = q[1] /\ e[2] <= <<k, c>>[2] + q[2]
  BY <1>1
<1>. QED
  BY <1>2

LEMMA RoundCameFrom ==
    ASSUME NEW roads, NEW start, AreRoads(start, roads),
           NEW A, AreRounds(A, start, roads), NEW n \in Nat,
           NEW e \in A[n + 1], e \notin A[n]
    PROVE  \E d \in A[n] : \E r \in roads[d[1]] : e = <<r[1], d[2] + r[2]>>
<1>1. \A x \in A[n + 1] :
          x \in A[n] \/ \E d \in A[n] : \E r \in roads[d[1]] : x = <<r[1], d[2] + r[2]>>
  BY RoundFacts
<1>. QED
  BY <1>1

(* What a round knows every later one knows, no dearer.                    *)
LEMMA RoundsKeep ==
    ASSUME NEW roads, NEW start, AreRoads(start, roads),
           NEW A, AreRounds(A, start, roads), NEW m \in Nat, NEW d \in A[m]
    PROVE  \A n \in Nat : m <= n => \E e \in A[n] : e[1] = d[1] /\ e[2] <= d[2]
<1>. DEFINE T == {n \in Nat : m <= n => \E e \in A[n] : e[1] = d[1] /\ e[2] <= d[2]}
<1>0. d[2] \in Nat
  BY RoundFacts DEF Drives
<1>1. 0 \in T
  BY <1>0
<1>2. ASSUME NEW n \in Nat, n \in T PROVE n + 1 \in T
  <2>1. CASE m = n + 1
    BY <2>1, <1>0
  <2>2. CASE m <= n
    <3>1. PICK e \in A[n] : e[1] = d[1] /\ e[2] <= d[2]
      BY <1>2, <2>2
    <3>2. PICK b \in A[n + 1] : b[1] = e[1] /\ b[2] <= e[2]
      BY <3>1, RoundFacts
    <3>3. e[2] \in Nat /\ b[2] \in Nat
      BY RoundFacts DEF Drives
    <3>4. b[1] = d[1] /\ b[2] <= d[2]
      BY <1>0, <3>1, <3>2, <3>3
    <3>. QED
      BY <3>4
  <2>. QED
    BY <2>1, <2>2
<1>3. Nat \subseteq T
  <2>. HIDE DEF T
  <2>. QED
    BY <1>1, <1>2, InductionOverNat
<1>. QED
  BY <1>3

(* Whatever holds of the start and goes on along roads holds of every      *)
(* round.                                                                  *)
LEMMA RoundsWithin ==
    ASSUME NEW roads, NEW start, AreRoads(start, roads),
           NEW A, AreRounds(A, start, roads),
           NEW S, <<start, 0>> \in S,
           \A d \in S \cap Drives(roads) : \A r \in roads[d[1]] : <<r[1], d[2] + r[2]>> \in S
    PROVE  \A n \in Nat : A[n] \subseteq S
<1>. DEFINE T == {n \in Nat : A[n] \subseteq S}
<1>1. 0 \in T
  BY DEF AreRounds
<1>2. ASSUME NEW n \in Nat, n \in T PROVE n + 1 \in T
  <2>1. A[n] \subseteq S \cap Drives(roads)
    BY <1>2, RoundFacts
  <2>. QED
    BY <1>2, <2>1, RoundFacts
<1>3. Nat \subseteq T
  <2>. HIDE DEF T
  <2>. QED
    BY <1>1, <1>2, InductionOverNat
<1>. QED
  BY <1>3
-----------------------------------------------------------------------------
(* The least cost a label is ever known at, and the first round to know    *)
(* it.                                                                     *)
IsBest(A, k, c) ==
    /\ \E n \in Nat : <<k, c>> \in A[n]
    /\ \A n \in Nat : \A d \in A[n] : d[1] = k => c <= d[2]

IsFirst(A, k, c, n) ==
    <<k, c>> \in A[n] /\ \A m \in Nat : <<k, c>> \in A[m] => n <= m

Reached(A) == {d[1] : d \in UNION {A[n] : n \in Nat}}

LEMMA BestExists ==
    ASSUME NEW roads, NEW start, AreRoads(start, roads),
           NEW A, AreRounds(A, start, roads), NEW k \in Reached(A)
    PROVE  \E c \in Nat : \E n \in Nat : IsBest(A, k, c) /\ IsFirst(A, k, c, n)
<1>1. \A n \in Nat : \A d \in A[n] :
          d[1] \in DOMAIN roads /\ d[2] \in Nat /\ d = <<d[1], d[2]>>
  BY RoundFacts DEF Drives
<1>. DEFINE C == {c \in Nat : \E n \in Nat : <<k, c>> \in A[n]}
<1>2. C \in SUBSET Nat /\ C # {}
  BY <1>1 DEF Reached
<1>3. PICK c \in C : \A d \in C : c <= d
  BY <1>2, LeastNatural
<1>. DEFINE N == {n \in Nat : <<k, c>> \in A[n]}
<1>4. N \in SUBSET Nat /\ N # {}
  BY <1>3
<1>5. PICK n \in N : \A m \in N : n <= m
  BY <1>4, LeastNatural
<1>6. IsBest(A, k, c)
  BY <1>1, <1>3 DEF IsBest
<1>. QED
  BY <1>3, <1>5, <1>6 DEF IsFirst

(* A label first known at its best in a round has a label before it that   *)
(* was first known at its best in the round before.                        *)
LEMMA BestComesFromBest ==
    ASSUME NEW roads, NEW start, AreRoads(start, roads),
           NEW A, AreRounds(A, start, roads),
           NEW k, NEW c \in Nat, NEW n \in Nat,
           IsBest(A, k, c), IsFirst(A, k, c, n + 1)
    PROVE  \E b \in Reached(A) : \E x \in Nat : IsBest(A, b, x) /\ IsFirst(A, b, x, n)
<1>1. <<k, c>> \in A[n + 1] /\ <<k, c>> \notin A[n]
  BY DEF IsFirst
<1>a. PICK d \in A[n] : \E r \in roads[d[1]] : <<k, c>> = <<r[1], d[2] + r[2]>>
  BY <1>1, RoundCameFrom
<1>2. PICK r \in roads[d[1]] : <<k, c>> = <<r[1], d[2] + r[2]>>
  BY <1>a
<1>3. d[1] \in DOMAIN roads /\ d[2] \in Nat /\ d = <<d[1], d[2]>>
  BY RoundTyped
<1>4. r[2] \in Nat
  BY <1>3 DEF AreRoads
<1>5. k = r[1] /\ c = d[2] + r[2]
  BY <1>2
<1>6. d[1] \in Reached(A)
  BY DEF Reached
<1>7. PICK x \in Nat, m \in Nat : IsBest(A, d[1], x) /\ IsFirst(A, d[1], x, m)
  BY <1>6, BestExists
<1>8. x <= d[2] /\ <<d[1], x>> \in A[m]
  BY <1>7 DEF IsBest, IsFirst
<1>9. PICK e \in A[m + 1] : e[1] = r[1] /\ e[2] <= x + r[2]
  BY <1>8, RoundGoesOn
<1>10. e[2] \in Nat /\ e = <<e[1], e[2]>> /\ c <= e[2]
  <2>1. e[2] \in Nat /\ e = <<e[1], e[2]>>
    BY RoundTyped
  <2>2. c <= e[2]
    BY <1>5, <1>9 DEF IsBest
  <2>. QED
    BY <2>1, <2>2
<1>11. x = d[2] /\ e[2] = c
  BY <1>3, <1>4, <1>5, <1>8, <1>9, <1>10
<1>12. n + 1 <= m + 1
  BY <1>5, <1>9, <1>10, <1>11 DEF IsFirst
<1>13. m <= n
  BY <1>3, <1>7, <1>11 DEF IsFirst
<1>14. m = n
  BY <1>12, <1>13
<1>. QED
  BY <1>6, <1>7, <1>14

LEMMA BestBefore ==
    ASSUME NEW roads, NEW start, AreRoads(start, roads),
           NEW A, AreRounds(A, start, roads),
           NEW k \in Reached(A), NEW c \in Nat, NEW n \in Nat,
           IsBest(A, k, c), IsFirst(A, k, c, n)
    PROVE  \A m \in 0 .. n :
              \E b \in Reached(A) : \E x \in Nat : IsBest(A, b, x) /\ IsFirst(A, b, x, m)
<1>. DEFINE Known(m) ==
                \E b \in Reached(A) : \E x \in Nat : IsBest(A, b, x) /\ IsFirst(A, b, x, m)
            T == {j \in Nat : j <= n => Known(n - j)}
<1>1. 0 \in T
  OBVIOUS
<1>2. ASSUME NEW j \in Nat, j \in T PROVE j + 1 \in T
  <2>. SUFFICES ASSUME j + 1 <= n PROVE Known(n - (j + 1))
    OBVIOUS
  <2>1. PICK m \in Nat : m = n - (j + 1)
    OBVIOUS
  <2>2. n - j = m + 1
    BY <2>1
  <2>3. Known(m + 1)
    BY <1>2, <2>2
  <2>4. PICK b \in Reached(A), x \in Nat : IsBest(A, b, x) /\ IsFirst(A, b, x, m + 1)
    BY <2>3
  <2>5. Known(m)
    BY <2>4, BestComesFromBest
  <2>. QED
    BY <2>1, <2>5
<1>3. Nat \subseteq T
  <2>. HIDE DEF T
  <2>. QED
    BY <1>1, <1>2, InductionOverNat
<1>4. ASSUME NEW m \in 0 .. n PROVE Known(m)
  <2>1. n - m \in Nat /\ n - (n - m) = m /\ n - m <= n
    OBVIOUS
  <2>2. n - m \in T
    BY <1>3, <2>1
  <2>3. Known(n - (n - m))
    BY <2>1, <2>2
  <2>. QED
    BY <2>1, <2>3
<1>. QED
  BY <1>4

(* So a label is known at its best before there are as many rounds as      *)
(* labels.                                                                 *)
LEMMA BestInTime ==
    ASSUME NEW roads, NEW start, AreRoads(start, roads), IsFiniteSet(DOMAIN roads),
           NEW A, AreRounds(A, start, roads),
           NEW k \in Reached(A), NEW c \in Nat, NEW n \in Nat,
           IsBest(A, k, c), IsFirst(A, k, c, n)
    PROVE  n <= Cardinality(DOMAIN roads) - 1
<1>. DEFINE size == Cardinality(DOMAIN roads)
<1>1. size \in Nat
  BY FS_CardinalityType
<1>. SUFFICES ASSUME size <= n PROVE FALSE
  BY <1>1
<1>. DEFINE S == 0 .. size
            Of(m) == CHOOSE b \in Reached(A) :
                        \E x \in Nat : IsBest(A, b, x) /\ IsFirst(A, b, x, m)
            f == [m \in S |-> Of(m)]
<1>2. IsFiniteSet(S) /\ Cardinality(S) = size + 1
  BY <1>1, FS_Interval
<1>3. ASSUME NEW m \in S
      PROVE  f[m] \in Reached(A) /\ \E x \in Nat : IsBest(A, f[m], x) /\ IsFirst(A, f[m], x, m)
  <2>1. m \in 0 .. n
    BY <1>1
  <2>2. \E b \in Reached(A) : \E x \in Nat : IsBest(A, b, x) /\ IsFirst(A, b, x, m)
    BY <2>1, BestBefore
  <2>3. Of(m) \in Reached(A) /\ \E x \in Nat : IsBest(A, Of(m), x) /\ IsFirst(A, Of(m), x, m)
    BY <2>2
  <2>. QED
    BY <2>3
<1>4. Reached(A) \subseteq DOMAIN roads
  BY RoundFacts DEF Reached, Drives
<1>5. f \in [S -> DOMAIN roads]
  BY <1>3, <1>4
<1>. HIDE DEF f, S
<1>6. PICK x, y \in S : x # y /\ f[x] = f[y]
  BY <1>1, <1>2, <1>5, FS_PigeonHole
<1>7. PICK v \in Nat, w \in Nat :
          /\ IsBest(A, f[x], v) /\ IsFirst(A, f[x], v, x)
          /\ IsBest(A, f[y], w) /\ IsFirst(A, f[y], w, y)
  BY <1>3
<1>8. v = w
  BY <1>6, <1>7 DEF IsBest
<1>9. x \in Nat /\ y \in Nat
  BY <1>1 DEF S
<1>10. x <= y /\ y <= x
  BY <1>6, <1>7, <1>8, <1>9 DEF IsFirst
<1>. QED
  BY <1>6, <1>9, <1>10

(* The costs LeastCostsOver finds are the bests, of the labels that are    *)
(* ever reached.                                                           *)
LEMMA LeastCostsAreBest ==
    ASSUME NEW roads, NEW start, AreRoads(start, roads), IsFiniteSet(DOMAIN roads),
           NEW A, A = CheapestDrives(start, roads),
           NEW least, least = LeastCostsOver(start, roads)
    PROVE  /\ AreRounds(A, start, roads)
           /\ DOMAIN least = Reached(A)
           /\ \A k \in Reached(A) : least[k] \in Nat /\ IsBest(A, k, least[k])
<1>. DEFINE last == Cardinality(DOMAIN roads) - 1
<1>1. AreRounds(A, start, roads)
  BY CheapestDrivesRounds DEF AreRounds
<1>2. last \in Nat
  <2>1. Cardinality(DOMAIN roads) \in Nat /\ DOMAIN roads # {}
    BY FS_CardinalityType DEF AreRoads
  <2>2. Cardinality(DOMAIN roads) # 0
    BY <2>1, FS_EmptySet
  <2>. QED
    BY <2>1, <2>2
<1>3. least = [k \in {d[1] : d \in A[last]} |-> (CHOOSE d \in A[last] : d[1] = k)[2]]
  BY DEF LeastCostsOver
<1>. HIDE DEF last
<1>4. ASSUME NEW k \in Reached(A)
      PROVE  \E d \in A[last] : d[1] = k /\ IsBest(A, k, d[2]) /\ d[2] \in Nat
  <2>1. PICK c \in Nat, n \in Nat : IsBest(A, k, c) /\ IsFirst(A, k, c, n)
    BY <1>1, BestExists
  <2>2. n <= last
    BY <1>1, <2>1, BestInTime DEF last
  <2>3. <<k, c>> \in A[n]
    BY <2>1 DEF IsFirst
  <2>4. PICK e \in A[last] : e[1] = <<k, c>>[1] /\ e[2] <= <<k, c>>[2]
    BY <1>1, <1>2, <2>2, <2>3, RoundsKeep
  <2>5. e[2] \in Nat
    BY <1>1, <1>2, RoundTyped
  <2>6. c <= e[2]
    BY <1>2, <2>1, <2>4 DEF IsBest
  <2>7. e[1] = k /\ e[2] = c
    BY <2>4, <2>5, <2>6
  <2>. QED
    BY <2>1, <2>7
<1>5. {d[1] : d \in A[last]} = Reached(A)
  BY <1>2, <1>4 DEF Reached
<1>6. ASSUME NEW k \in Reached(A) PROVE least[k] \in Nat /\ IsBest(A, k, least[k])
  <2>1. PICK d \in A[last] : d[1] = k /\ IsBest(A, k, d[2]) /\ d[2] \in Nat
    BY <1>4
  <2>. DEFINE e == CHOOSE x \in A[last] : x[1] = k
  <2>2. e \in A[last] /\ e[1] = k
    BY <2>1
  <2>3. least[k] = e[2]
    BY <1>3, <1>5
  <2>4. e[2] = d[2]
    BY <1>1, <1>2, <2>1, <2>2, RoundFacts
  <2>. QED
    BY <2>1, <2>3, <2>4
<1>. QED
  BY <1>1, <1>3, <1>5, <1>6

(* LeastCostsOver solves the equations of the least costs: the start costs *)
(* nothing, and no road leads anywhere cheaper than what is found for it.  *)
THEOREM LeastCostsSolve ==
    ASSUME NEW roads, NEW start, AreRoads(start, roads), IsFiniteSet(DOMAIN roads),
           NEW least, least = LeastCostsOver(start, roads)
    PROVE  /\ DOMAIN least \subseteq DOMAIN roads
           /\ start \in DOMAIN least /\ least[start] = 0
           /\ \A k \in DOMAIN least :
                 /\ least[k] \in Nat
                 /\ \A r \in roads[k] : r[1] \in DOMAIN least /\ least[r[1]] <= least[k] + r[2]
<1>. DEFINE A == CheapestDrives(start, roads)
<1>1. /\ AreRounds(A, start, roads)
      /\ DOMAIN least = Reached(A)
      /\ \A k \in Reached(A) : least[k] \in Nat /\ IsBest(A, k, least[k])
  BY LeastCostsAreBest
<1>. HIDE DEF A
<1>2. DOMAIN least \subseteq DOMAIN roads
  BY <1>1, RoundTyped DEF Reached
<1>3. <<start, 0>> \in A[0]
  BY <1>1 DEF AreRounds
<1>4. start \in Reached(A) /\ least[start] <= 0
  <2>1. <<start, 0>>[1] = start /\ <<start, 0>>[2] = 0
    OBVIOUS
  <2>2. start \in Reached(A)
    BY <1>3, <2>1 DEF Reached
  <2>. QED
    BY <1>1, <1>3, <2>1, <2>2 DEF IsBest
<1>5. ASSUME NEW k \in DOMAIN least, NEW r \in roads[k]
      PROVE  r[1] \in DOMAIN least /\ least[r[1]] <= least[k] + r[2]
  <2>1. PICK n \in Nat : <<k, least[k]>> \in A[n]
    BY <1>1 DEF IsBest
  <2>2. PICK e \in A[n + 1] : e[1] = r[1] /\ e[2] <= least[k] + r[2]
    BY <1>1, <2>1, RoundGoesOn
  <2>3. r[1] \in Reached(A)
    BY <2>2 DEF Reached
  <2>a. n + 1 \in Nat
    OBVIOUS
  <2>b. e[2] \in Nat
    BY <1>1, <2>a, RoundTyped
  <2>c. \A d \in A[n + 1] : d[1] = r[1] => least[r[1]] <= d[2]
    BY <1>1, <2>a, <2>3 DEF IsBest
  <2>4. e[2] \in Nat /\ least[r[1]] \in Nat /\ least[r[1]] <= e[2]
    BY <1>1, <2>2, <2>3, <2>b, <2>c
  <2>5. least[k] \in Nat /\ r[2] \in Nat
    BY <1>1, <1>2 DEF AreRoads
  <2>. QED
    BY <1>1, <2>2, <2>3, <2>4, <2>5
<1>. QED
  BY <1>1, <1>2, <1>4, <1>5

(* ... and is their least solution: what holds of the start at no cost,    *)
(* and goes on along every road, holds of each label at its least cost.    *)
THEOREM LeastCostsAreDriven ==
    ASSUME NEW roads, NEW start, AreRoads(start, roads), IsFiniteSet(DOMAIN roads),
           NEW least, least = LeastCostsOver(start, roads),
           NEW S, <<start, 0>> \in S,
           \A d \in S \cap Drives(roads) : \A r \in roads[d[1]] : <<r[1], d[2] + r[2]>> \in S
    PROVE  \A k \in DOMAIN least : <<k, least[k]>> \in S
<1>. DEFINE A == CheapestDrives(start, roads)
<1>1. /\ AreRounds(A, start, roads)
      /\ DOMAIN least = Reached(A)
      /\ \A k \in Reached(A) : least[k] \in Nat /\ IsBest(A, k, least[k])
  BY LeastCostsAreBest
<1>. HIDE DEF A
<1>2. \A n \in Nat : A[n] \subseteq S
  BY <1>1, RoundsWithin
<1>. QED
  BY <1>1, <1>2 DEF IsBest
-----------------------------------------------------------------------------
(* Least costs of drives over a road graph.                                *)

(* An edge of a well-formed graph has a natural weight and leads to a      *)
(* label.                                                                  *)
LEMMA EdgeIsSound ==
    ASSUME NEW g, IsGraph(g), NEW p, IsProfile(p), NEW i \in DOMAIN g.edges
    PROVE  /\ edge_weight(g, p, i) \in Nat
           /\ HeadOf(g, i) \in Label
           /\ HeadOf(g, i)[1] = g.edges[i].to
           /\ g.edges[i].from \in Nat
           /\ g.edges[i].to \in Nat
<1>1. g.edges[i] \in Edge
  BY DEF IsGraph
<1>2. pace_of_class(p, g.edges[i].road_class) \in Nat
  BY <1>1 DEF IsProfile, pace_of_class
<1>3. \A x, y \in Nat : x * y \in Nat
  OBVIOUS
<1>4. edge_weight(g, p, i) \in Nat
  BY <1>1, <1>2, <1>3 DEF edge_weight, Edge
<1>. QED
  BY <1>1, <1>4 DEF HeadOf, Label, Edge

LEMMA RoadsFromIsNetwork ==
    ASSUME NEW g, IsGraph(g), NEW p, IsProfile(p), NEW s \in Nat
    PROVE  /\ AreRoads(Start(s), RoadsFrom(g, p, s))
           /\ DOMAIN RoadsFrom(g, p, s) = LabelsFrom(g, s)
           /\ LabelsFrom(g, s) \subseteq Label
           /\ IsFiniteSet(LabelsFrom(g, s))
<1>. DEFINE heads == {HeadOf(g, i) : i \in DOMAIN g.edges}
            f == [i \in DOMAIN g.edges |-> HeadOf(g, i)]
            L == LabelsFrom(g, s)
<1>1. DOMAIN g.edges = 1 .. Len(g.edges) /\ Len(g.edges) \in Nat
  BY DEF IsGraph
<1>2. IsFiniteSet(DOMAIN g.edges)
  <2>1. PICK m \in Nat : m = Len(g.edges)
    BY <1>1
  <2>2. 1 \in Int /\ m \in Int
    BY <2>1
  <2>3. IsFiniteSet(1 .. m)
    BY <2>2, FS_Interval
  <2>. QED
    BY <1>1, <2>1, <2>3
<1>3. f \in Surjection(DOMAIN g.edges, heads)
  BY DEF Surjection
<1>4. IsFiniteSet(heads)
  BY <1>2, <1>3, FS_Surjection
<1>5. IsFiniteSet(L)
  BY <1>4, FS_AddElement DEF LabelsFrom
<1>6. L \subseteq Label
  BY EdgeIsSound DEF LabelsFrom, Start, Label
<1>7. Start(s) \in L
  BY DEF LabelsFrom
<1>8. ASSUME NEW k \in L, NEW i \in exits(g, p, k)
      PROVE  <<HeadOf(g, i), edge_weight(g, p, i)>> \in L \X Nat
  <2>1. i \in DOMAIN g.edges
    BY DEF exits, outgoing_edges
  <2>2. HeadOf(g, i) \in L /\ edge_weight(g, p, i) \in Nat
    BY <2>1, EdgeIsSound DEF LabelsFrom
  <2>. QED
    BY <2>2
<1>9. \A k \in L : {<<HeadOf(g, i), edge_weight(g, p, i)>> : i \in exits(g, p, k)}
                      \in SUBSET (L \X Nat)
  BY <1>8
<1>10. RoadsFrom(g, p, s) \in [L -> SUBSET (L \X Nat)] /\ DOMAIN RoadsFrom(g, p, s) = L
  BY <1>9 DEF RoadsFrom
<1>. QED
  BY <1>5, <1>6, <1>7, <1>10 DEF AreRoads

(* The least costs of legal drives solve their equations: setting out      *)
(* costs nothing, and no exit leads on cheaper than what is found.         *)
LEMMA LeastCostsClose ==
    ASSUME NEW g, IsGraph(g), NEW p, IsProfile(p), NEW s \in Nat,
           NEW least, least = LeastCosts(g, p, s)
    PROVE  /\ DOMAIN least \subseteq Label
           /\ Start(s) \in DOMAIN least /\ least[Start(s)] = 0
           /\ \A k \in DOMAIN least :
                 /\ least[k] \in Nat
                 /\ \A i \in exits(g, p, k) :
                       /\ HeadOf(g, i) \in DOMAIN least
                       /\ least[HeadOf(g, i)] <= least[k] + edge_weight(g, p, i)
<1>. DEFINE roads == RoadsFrom(g, p, s)
<1>1. /\ AreRoads(Start(s), roads) /\ DOMAIN roads = LabelsFrom(g, s)
      /\ LabelsFrom(g, s) \subseteq Label /\ IsFiniteSet(DOMAIN roads)
  BY RoadsFromIsNetwork
<1>2. \A k \in LabelsFrom(g, s) : \A i \in exits(g, p, k) :
          <<HeadOf(g, i), edge_weight(g, p, i)>> \in roads[k]
  BY DEF RoadsFrom
<1>. HIDE DEF roads
<1>3. least = LeastCostsOver(Start(s), roads)
  BY DEF LeastCosts, roads
<1>4. /\ DOMAIN least \subseteq DOMAIN roads
      /\ Start(s) \in DOMAIN least /\ least[Start(s)] = 0
      /\ \A k \in DOMAIN least :
            /\ least[k] \in Nat
            /\ \A r \in roads[k] : r[1] \in DOMAIN least /\ least[r[1]] <= least[k] + r[2]
  BY <1>1, <1>3, LeastCostsSolve
<1>5. ASSUME NEW k \in DOMAIN least, NEW i \in exits(g, p, k)
      PROVE  /\ HeadOf(g, i) \in DOMAIN least
             /\ least[HeadOf(g, i)] <= least[k] + edge_weight(g, p, i)
  <2>. DEFINE r == <<HeadOf(g, i), edge_weight(g, p, i)>>
  <2>1. r \in roads[k]
    BY <1>1, <1>2, <1>4
  <2>2. r[1] \in DOMAIN least /\ least[r[1]] <= least[k] + r[2]
    BY <1>4, <2>1
  <2>. QED
    BY <2>2
<1>. QED
  BY <1>1, <1>4, <1>5

(* What holds of the start at no cost, and goes on along every exit, holds *)
(* of each label at its least cost.                                        *)
THEOREM LeastCostsByDriving ==
    ASSUME NEW g, IsGraph(g), NEW p, IsProfile(p), NEW s \in Nat,
           NEW least, least = LeastCosts(g, p, s),
           NEW S, <<Start(s), 0>> \in S,
           \A k \in Label : \A c \in Nat : \A i \in exits(g, p, k) :
              <<k, c>> \in S => <<HeadOf(g, i), c + edge_weight(g, p, i)>> \in S
    PROVE  \A k \in DOMAIN least : <<k, least[k]>> \in S
<1>. DEFINE roads == RoadsFrom(g, p, s)
<1>1. /\ AreRoads(Start(s), roads) /\ DOMAIN roads = LabelsFrom(g, s)
      /\ LabelsFrom(g, s) \subseteq Label /\ IsFiniteSet(DOMAIN roads)
  BY RoadsFromIsNetwork
<1>2. \A k \in LabelsFrom(g, s) : \A r \in roads[k] : \E i \in exits(g, p, k) :
          r = <<HeadOf(g, i), edge_weight(g, p, i)>>
  BY DEF RoadsFrom
<1>. HIDE DEF roads
<1>3. ASSUME NEW d \in S \cap Drives(roads), NEW r \in roads[d[1]]
      PROVE  <<r[1], d[2] + r[2]>> \in S
  <2>1. d[1] \in LabelsFrom(g, s) /\ d[2] \in Nat /\ d = <<d[1], d[2]>>
    BY <1>1 DEF Drives
  <2>2. PICK i \in exits(g, p, d[1]) : r = <<HeadOf(g, i), edge_weight(g, p, i)>>
    BY <1>2, <2>1
  <2>3. <<HeadOf(g, i), d[2] + edge_weight(g, p, i)>> \in S
    BY <1>1, <2>1
  <2>. QED
    BY <2>2, <2>3
<1>4. least = LeastCostsOver(Start(s), roads)
  BY DEF LeastCosts, roads
<1>. QED
  BY <1>1, <1>3, <1>4, LeastCostsAreDriven
-----------------------------------------------------------------------------
(* Drives along a sequence of nodes.                                       *)

(* What DrivesAlong computes, node by node.                                *)
DrivenOn(g, p, u, X) ==
    UNION {{<<HeadOf(g, i), d[2] + edge_weight(g, p, i)>> :
               i \in {x \in exits(g, p, d[1]) : g.edges[x].to = u}} : d \in X}

AreLegs(f, g, p, path) ==
    /\ f \in [Nat -> SUBSET (Label \X Nat)]
    /\ f[0] = {<<Start(path[1]), 0>>} /\ f[1] = {<<Start(path[1]), 0>>}
    /\ \A j \in Nat \ {0} : f[j + 1] = DrivenOn(g, p, path[j + 1], f[j])

LEMMA DrivenOnTyped ==
    ASSUME NEW g, IsGraph(g), NEW p, IsProfile(p), NEW u, NEW X \in SUBSET (Label \X Nat)
    PROVE  DrivenOn(g, p, u, X) \in SUBSET (Label \X Nat)
<1>1. ASSUME NEW d \in X, NEW i \in exits(g, p, d[1])
      PROVE  <<HeadOf(g, i), d[2] + edge_weight(g, p, i)>> \in Label \X Nat
  <2>1. i \in DOMAIN g.edges /\ d[2] \in Nat
    BY DEF exits, outgoing_edges
  <2>2. HeadOf(g, i) \in Label /\ edge_weight(g, p, i) \in Nat
    BY <2>1, EdgeIsSound
  <2>. QED
    BY <2>1, <2>2
<1>. QED
  BY <1>1 DEF DrivenOn

LEMMA DrivesAlongLegs ==
    ASSUME NEW g, IsGraph(g), NEW p, IsProfile(p), NEW path \in Seq(Nat), path # <<>>
    PROVE  \E f : AreLegs(f, g, p, path) /\ DrivesAlong(g, p, path) = f[Len(path)]
<1>. DEFINE S == SUBSET (Label \X Nat)
            x == {<<Start(path[1]), 0>>}
            step == [n \in Nat |->
                       [X \in S |-> IF n = 0 THEN x ELSE DrivenOn(g, p, path[n + 1], X)]]
            Legs(a) == [j \in Nat |->
                          IF j <= 1 THEN {<<Start(path[1]), 0>>}
                          ELSE UNION {{<<HeadOf(g, i), d[2] + edge_weight(g, p, i)>> :
                                          i \in {y \in exits(g, p, d[1]) :
                                                    g.edges[y].to = path[j]}} : d \in a[j - 1]}]
            f == CHOOSE a : a = Legs(a)
<1>1. x \in S
  <2>1. path[1] \in Nat
    OBVIOUS
  <2>. QED
    BY <2>1 DEF Start, Label
<1>2. \A n \in Nat : \A X \in S : (IF n = 0 THEN x ELSE DrivenOn(g, p, path[n + 1], X)) \in S
  BY <1>1, DrivenOnTyped
<1>3. step \in [Nat -> [S -> S]]
  BY <1>2
<1>4. \A n \in Nat : \A X \in S :
          step[n][X] = IF n = 0 THEN x ELSE DrivenOn(g, p, path[n + 1], X)
  OBVIOUS
<1>. HIDE DEF S, x, step, Legs
<1>5. PICK h : Recurs(h, S, x, step)
  BY <1>1, <1>3, RecursionOverNat DEF IsRecursion
<1>6. /\ h \in [Nat -> S] /\ h[0] = x
      /\ \A n \in Nat : h[n + 1] = IF n = 0 THEN x ELSE DrivenOn(g, p, path[n + 1], h[n])
  BY <1>4, <1>5 DEF Recurs
<1>7. h[1] = x
  <2>1. h[0 + 1] = x
    BY <1>6
  <2>. QED
    BY <2>1
<1>8. \A j \in Nat \ {0} : h[j + 1] = DrivenOn(g, p, path[j + 1], h[j])
  BY <1>6
<1>10. h = Legs(h)
  <2>1. ASSUME NEW j \in Nat, ~(j <= 1) PROVE h[j] = DrivenOn(g, p, path[j], h[j - 1])
    <3>1. PICK m \in Nat \ {0} : j = m + 1
      BY <2>1
    <3>. QED
      BY <1>8, <3>1
  <2>2. \A j \in Nat : h[j] = IF j <= 1 THEN {<<Start(path[1]), 0>>}
                               ELSE DrivenOn(g, p, path[j], h[j - 1])
    <3>. SUFFICES ASSUME NEW j \in Nat
                  PROVE  h[j] = IF j <= 1 THEN x ELSE DrivenOn(g, p, path[j], h[j - 1])
      BY DEF x
    <3>1. CASE j <= 1
      <4>1. h[0] = x /\ h[1] = x
        BY <1>6, <1>7
      <4>2. j = 0 \/ j = 1
        BY <3>1
      <4>3. h[j] = x
        BY <4>1, <4>2
      <4>. QED
        BY <3>1, <4>3
    <3>2. CASE ~(j <= 1)
      BY <2>1, <3>2
    <3>. QED
      BY <3>1, <3>2
  <2>. QED
    BY <1>6, <2>2 DEF Legs, DrivenOn
<1>11. f = Legs(f)
  BY <1>10
<1>. HIDE DEF f
<1>12. f = [j \in Nat |-> IF j <= 1 THEN x ELSE DrivenOn(g, p, path[j], f[j - 1])]
  BY <1>11 DEF Legs, DrivenOn, x
<1>13. f[0] = x /\ f[1] = x
  BY <1>12
<1>14. ASSUME NEW j \in Nat \ {0} PROVE f[j + 1] = DrivenOn(g, p, path[j + 1], f[j])
  <2>1. j + 1 \in Nat /\ ~(j + 1 <= 1) /\ (j + 1) - 1 = j
    OBVIOUS
  <2>. QED
    BY <1>12, <2>1
<1>15. \A n \in Nat : f[n] \in S
  <2>. DEFINE T == {n \in Nat : f[n] \in S}
  <2>1. 0 \in T
    BY <1>1, <1>13
  <2>2. ASSUME NEW n \in Nat, n \in T PROVE n + 1 \in T
    <3>1. CASE n = 0
      BY <1>1, <1>13, <3>1
    <3>2. CASE n # 0
      <4>1. f[n + 1] = DrivenOn(g, p, path[n + 1], f[n]) /\ f[n] \in S
        BY <1>14, <2>2, <3>2
      <4>2. f[n + 1] \in S
        BY <4>1, DrivenOnTyped DEF S
      <4>. QED
        BY <4>2
    <3>. QED
      BY <3>1, <3>2
  <2>3. Nat \subseteq T
    <3>. HIDE DEF T
    <3>. QED
      BY <2>1, <2>2, InductionOverNat
  <2>. QED
    BY <2>3
<1>16. f \in [Nat -> S]
  BY <1>12, <1>15
<1>17. AreLegs(f, g, p, path)
  BY <1>13, <1>14, <1>16 DEF AreLegs, S, x
<1>18. DrivesAlong(g, p, path) = f[Len(path)]
  BY DEF DrivesAlong, f, Legs
<1>. QED
  BY <1>17, <1>18

(* What can be driven along a path costs at least the least cost of the    *)
(* label it ends at.                                                       *)
THEOREM DrivesCostAtLeast ==
    ASSUME NEW g, IsGraph(g), NEW p, IsProfile(p), NEW path \in Seq(Nat), path # <<>>,
           NEW least, least = LeastCosts(g, p, path[1])
    PROVE  \A d \in DrivesAlong(g, p, path) :
              /\ d[1][1] = path[Len(path)]
              /\ d[1] \in DOMAIN least /\ d[2] \in Nat
              /\ least[d[1]] <= d[2]
<1>1. PICK f : AreLegs(f, g, p, path) /\ DrivesAlong(g, p, path) = f[Len(path)]
  BY DrivesAlongLegs
<1>2. path[1] \in Nat /\ Len(path) \in Nat \ {0}
  OBVIOUS
<1>3. /\ Start(path[1]) \in DOMAIN least /\ least[Start(path[1])] = 0
      /\ \A k \in DOMAIN least :
            /\ least[k] \in Nat
            /\ \A i \in exits(g, p, k) :
                  /\ HeadOf(g, i) \in DOMAIN least
                  /\ least[HeadOf(g, i)] <= least[k] + edge_weight(g, p, i)
  BY <1>2, LeastCostsClose
<1>. DEFINE Sound(j, d) == /\ d[1][1] = path[j]
                           /\ d[1] \in DOMAIN least /\ d[2] \in Nat
                           /\ least[d[1]] <= d[2]
            T == {j \in Nat : \A d \in f[j + 1] : Sound(j + 1, d)}
<1>4. 0 \in T
  <2>1. f[0 + 1] = {<<Start(path[1]), 0>>}
    BY <1>1 DEF AreLegs
  <2>2. Sound(1, <<Start(path[1]), 0>>)
    BY <1>3 DEF Start
  <2>. QED
    BY <2>1, <2>2
<1>5. ASSUME NEW j \in Nat, j \in T PROVE j + 1 \in T
  <2>. SUFFICES ASSUME NEW e \in f[(j + 1) + 1] PROVE Sound((j + 1) + 1, e)
    OBVIOUS
  <2>1. j + 1 \in Nat \ {0}
    OBVIOUS
  <2>2. e \in DrivenOn(g, p, path[(j + 1) + 1], f[j + 1])
    BY <1>1, <2>1 DEF AreLegs
  <2>3. PICK d \in f[j + 1] :
            \E i \in exits(g, p, d[1]) :
               /\ g.edges[i].to = path[(j + 1) + 1]
               /\ e = <<HeadOf(g, i), d[2] + edge_weight(g, p, i)>>
    BY <2>2 DEF DrivenOn
  <2>4. PICK i \in exits(g, p, d[1]) :
            /\ g.edges[i].to = path[(j + 1) + 1]
            /\ e = <<HeadOf(g, i), d[2] + edge_weight(g, p, i)>>
    BY <2>3
  <2>5. d[1] \in DOMAIN least /\ d[2] \in Nat /\ least[d[1]] <= d[2]
    BY <1>5
  <2>6. i \in DOMAIN g.edges
    BY DEF exits, outgoing_edges
  <2>7. edge_weight(g, p, i) \in Nat /\ HeadOf(g, i)[1] = g.edges[i].to
    BY <2>6, EdgeIsSound
  <2>8. /\ HeadOf(g, i) \in DOMAIN least /\ least[HeadOf(g, i)] \in Nat
        /\ least[HeadOf(g, i)] <= least[d[1]] + edge_weight(g, p, i) /\ least[d[1]] \in Nat
    BY <1>3, <2>5
  <2>9. e[1] = HeadOf(g, i) /\ e[2] = d[2] + edge_weight(g, p, i)
    BY <2>4
  <2>10. least[HeadOf(g, i)] <= d[2] + edge_weight(g, p, i)
    BY <2>5, <2>7, <2>8
  <2>11. e[2] \in Nat
    BY <2>5, <2>7, <2>9
  <2>. QED
    BY <2>4, <2>7, <2>8, <2>9, <2>10, <2>11
<1>6. Nat \subseteq T
  <2>. HIDE DEF T
  <2>. QED
    BY <1>4, <1>5, InductionOverNat
<1>7. \A d \in f[Len(path)] : Sound(Len(path), d)
  <2>1. PICK j \in Nat : Len(path) = j + 1
    BY <1>2
  <2>. QED
    BY <1>6, <2>1
<1>. QED
  BY <1>1, <1>7

(* A drive goes on along every exit of where it ends.                      *)
LEMMA DrivenFurther ==
    ASSUME NEW g, IsGraph(g), NEW p, IsProfile(p), NEW path \in Seq(Nat), path # <<>>,
           NEW k, NEW c, <<k, c>> \in DrivesAlong(g, p, path),
           NEW i \in exits(g, p, k),
           NEW q, q = Append(path, g.edges[i].to)
    PROVE  /\ q \in Seq(Nat) /\ q # <<>> /\ q[1] = path[1]
           /\ <<HeadOf(g, i), c + edge_weight(g, p, i)>> \in DrivesAlong(g, p, q)
<1>. DEFINE n == Len(path)
            d == <<k, c>>
            e == <<HeadOf(g, i), d[2] + edge_weight(g, p, i)>>
<1>1. g.edges[i].to \in Nat
  BY EdgeIsSound DEF exits, outgoing_edges
<1>2. /\ q \in Seq(Nat) /\ q # <<>> /\ Len(q) = n + 1 /\ n \in Nat \ {0}
      /\ q[n + 1] = g.edges[i].to /\ \A j \in 1 .. n : q[j] = path[j]
  BY <1>1
<1>3. q[1] = path[1]
  BY <1>2
<1>4. PICK f : AreLegs(f, g, p, path) /\ DrivesAlong(g, p, path) = f[n]
  BY DrivesAlongLegs
<1>5. PICK h : AreLegs(h, g, p, q) /\ DrivesAlong(g, p, q) = h[n + 1]
  <2>1. \E h : AreLegs(h, g, p, q) /\ DrivesAlong(g, p, q) = h[Len(q)]
    <3>1. q \in Seq(Nat) /\ q # <<>>
      BY <1>2
    <3>. QED
      BY <3>1, DrivesAlongLegs
  <2>2. Len(q) = n + 1
    BY <1>2
  <2>. QED
    BY <2>1, <2>2
<1>. DEFINE T == {j \in Nat : j + 1 <= n => h[j + 1] = f[j + 1]}
<1>6. 0 \in T
  <2>1. h[1] = f[1]
    BY <1>3, <1>4, <1>5 DEF AreLegs
  <2>2. h[0 + 1] = f[0 + 1]
    BY <2>1
  <2>. QED
    BY <2>2
<1>7. ASSUME NEW j \in Nat, j \in T PROVE j + 1 \in T
  <2>. SUFFICES ASSUME (j + 1) + 1 <= n PROVE h[(j + 1) + 1] = f[(j + 1) + 1]
    OBVIOUS
  <2>1. PICK m \in Nat : m = j + 1
    OBVIOUS
  <2>2. m \in Nat \ {0} /\ m + 1 \in 1 .. n /\ h[m] = f[m]
    BY <1>2, <1>7, <2>1
  <2>3. h[m + 1] = DrivenOn(g, p, q[m + 1], h[m]) /\ f[m + 1] = DrivenOn(g, p, path[m + 1], f[m])
    BY <1>4, <1>5, <2>2 DEF AreLegs
  <2>. QED
    BY <1>2, <2>1, <2>2, <2>3
<1>8. h[n] = f[n]
  <2>1. Nat \subseteq T
    <3>. HIDE DEF T
    <3>. QED
      BY <1>6, <1>7, InductionOverNat
  <2>2. n - 1 \in Nat /\ (n - 1) + 1 = n /\ n <= n
    BY <1>2
  <2>3. n - 1 \in T
    BY <2>1, <2>2
  <2>4. h[(n - 1) + 1] = f[(n - 1) + 1]
    BY <2>2, <2>3
  <2>. QED
    BY <2>2, <2>4
<1>9. h[n + 1] = DrivenOn(g, p, g.edges[i].to, h[n])
  BY <1>2, <1>5 DEF AreLegs
<1>10. d \in h[n] /\ d[1] = k /\ d[2] = c
  BY <1>4, <1>8
<1>. HIDE DEF d
<1>11. e \in DrivenOn(g, p, g.edges[i].to, h[n])
  BY <1>10 DEF DrivenOn
<1>. QED
  BY <1>2, <1>3, <1>5, <1>9, <1>10, <1>11

(* Least costs are what they are named for: each is the cost of a legal    *)
(* drive to its label, and no legal drive to a label costs less.           *)
THEOREM LeastCostsOfDrives ==
    ASSUME NEW g, IsGraph(g), NEW p, IsProfile(p), NEW s \in Nat,
           NEW least, least = LeastCosts(g, p, s)
    PROVE  /\ \A k \in DOMAIN least :
                 \E path \in Seq(Nat) :
                    /\ path # <<>> /\ path[1] = s
                    /\ <<k, least[k]>> \in DrivesAlong(g, p, path)
           /\ \A path \in Seq(Nat) :
                 path # <<>> /\ path[1] = s =>
                    \A d \in DrivesAlong(g, p, path) :
                       d[1] \in DOMAIN least /\ least[d[1]] <= d[2]
<1>. DEFINE Led(k, c, path) == /\ path # <<>> /\ path[1] = s
                               /\ <<k, c>> \in DrivesAlong(g, p, path)
            S == {d \in Label \X Nat : \E path \in Seq(Nat) : Led(d[1], d[2], path)}
<1>1. Start(s) \in Label
  BY DEF Start, Label
<1>2. <<Start(s), 0>> \in S
  <2>1. <<s>> \in Seq(Nat) /\ <<s>> # <<>> /\ <<s>>[1] = s /\ Len(<<s>>) = 1
    OBVIOUS
  <2>2. PICK f : AreLegs(f, g, p, <<s>>) /\ DrivesAlong(g, p, <<s>>) = f[1]
    BY <2>1, DrivesAlongLegs
  <2>3. <<Start(s), 0>> \in DrivesAlong(g, p, <<s>>)
    BY <2>2 DEF AreLegs
  <2>. QED
    BY <1>1, <2>1, <2>3
<1>3. ASSUME NEW k \in Label, NEW c \in Nat, NEW i \in exits(g, p, k), <<k, c>> \in S
      PROVE  <<HeadOf(g, i), c + edge_weight(g, p, i)>> \in S
  <2>1. PICK path \in Seq(Nat) : Led(k, c, path)
    BY <1>3
  <2>2. edge_weight(g, p, i) \in Nat /\ HeadOf(g, i) \in Label
    BY EdgeIsSound DEF exits, outgoing_edges
  <2>3. c + edge_weight(g, p, i) \in Nat
    BY <2>2
  <2>. DEFINE q == Append(path, g.edges[i].to)
  <2>4. q \in Seq(Nat) /\ q # <<>> /\ q[1] = path[1]
        /\ <<HeadOf(g, i), c + edge_weight(g, p, i)>> \in DrivesAlong(g, p, q)
    <3>. HIDE DEF q
    <3>. QED
      BY <2>1, DrivenFurther DEF q
  <2>. HIDE DEF q
  <2>. QED
    BY <2>1, <2>2, <2>3, <2>4
<1>4. \A k \in DOMAIN least : <<k, least[k]>> \in S
  <2>. HIDE DEF S
  <2>. QED
    BY <1>2, <1>3, LeastCostsByDriving
<1>5. ASSUME NEW k \in DOMAIN least
      PROVE  \E path \in Seq(Nat) : Led(k, least[k], path)
  <2>1. PICK c : c = least[k]
    OBVIOUS
  <2>2. <<k, c>> \in S
    BY <1>4, <2>1
  <2>. QED
    BY <2>1, <2>2
<1>6. ASSUME NEW path \in Seq(Nat), path # <<>>, path[1] = s, NEW d \in DrivesAlong(g, p, path)
      PROVE  d[1] \in DOMAIN least /\ least[d[1]] <= d[2]
  BY <1>6, DrivesCostAtLeast
<1>. QED
  BY <1>5, <1>6

(* Setting out, no way has been taken yet and no turn is banned.           *)
LEMMA StartMayTakeAny ==
    ASSUME NEW g, NEW p, NEW k PROVE exits(g, p, k) \subseteq exits(g, p, Start(k[1]))
BY DEF exits, turn_is_banned, Start

(* A chain of labels that lead one to the next by legal exits is a drive   *)
(* along its nodes, whatever way the first of them was entered by.         *)
Chain(g, p, path, ks, c) ==
    /\ ks \in [1 .. Len(path) -> Label] /\ c \in [1 .. Len(path) -> Nat]
    /\ c[1] = 0
    /\ \A j \in 1 .. Len(path) : ks[j][1] = path[j]
    /\ \A j \in 1 .. Len(path) - 1 :
          \E i \in exits(g, p, ks[j]) :
             HeadOf(g, i) = ks[j + 1] /\ c[j + 1] = c[j] + edge_weight(g, p, i)

THEOREM ChainsAreDrivable ==
    ASSUME NEW g, IsGraph(g), NEW p, IsProfile(p), NEW path \in Seq(Nat), path # <<>>,
           NEW ks, NEW c, Chain(g, p, path, ks, c)
    PROVE  Drivable(g, p, path, c[Len(path)])
<1>1. PICK f : AreLegs(f, g, p, path) /\ DrivesAlong(g, p, path) = f[Len(path)]
  BY DrivesAlongLegs
<1>2. path[1] \in Nat /\ Len(path) \in Nat \ {0}
  OBVIOUS
<1>. DEFINE At(j) == IF j = 1 THEN Start(path[1]) ELSE ks[j]
            T == {j \in Nat : j + 1 <= Len(path) => <<At(j + 1), c[j + 1]>> \in f[j + 1]}
<1>3. 0 \in T
  BY <1>1 DEF AreLegs, Chain
<1>4. ASSUME NEW j \in Nat, j \in T PROVE j + 1 \in T
  <2>. SUFFICES ASSUME (j + 1) + 1 <= Len(path)
                PROVE  <<At((j + 1) + 1), c[(j + 1) + 1]>> \in f[(j + 1) + 1]
    OBVIOUS
  <2>1. PICK m \in Nat : m = j + 1
    OBVIOUS
  <2>2. m \in 1 .. Len(path) - 1 /\ m # 0 /\ m + 1 # 1 /\ m \in 1 .. Len(path) /\ m + 1 \in 1 .. Len(path)
    BY <1>2, <2>1
  <2>3. PICK i \in exits(g, p, ks[m]) :
            HeadOf(g, i) = ks[m + 1] /\ c[m + 1] = c[m] + edge_weight(g, p, i)
    BY <2>2 DEF Chain
  <2>4. <<At(m), c[m]>> \in f[m]
    BY <1>4, <2>1, <2>2
  <2>5. i \in exits(g, p, At(m))
    BY <2>2, <2>3, StartMayTakeAny DEF Chain
  <2>6. g.edges[i].to = path[m + 1]
    <3>1. i \in DOMAIN g.edges
      BY DEF exits, outgoing_edges
    <3>. QED
      BY <2>2, <2>3, <3>1, EdgeIsSound DEF Chain
  <2>. DEFINE d == <<At(m), c[m]>>
  <2>7. d[1] = At(m) /\ d[2] = c[m] /\ d \in f[m]
    BY <2>4
  <2>. HIDE DEF d, At
  <2>8. <<HeadOf(g, i), d[2] + edge_weight(g, p, i)>> \in DrivenOn(g, p, path[m + 1], f[m])
    <3>1. i \in exits(g, p, d[1])
      BY <2>5, <2>7
    <3>. QED
      BY <2>6, <2>7, <3>1 DEF DrivenOn
  <2>9. <<ks[m + 1], c[m + 1]>> \in f[m + 1]
    BY <1>1, <2>2, <2>3, <2>7, <2>8 DEF AreLegs
  <2>. QED
    BY <2>1, <2>2, <2>9 DEF At
<1>5. Nat \subseteq T
  <2>. HIDE DEF T
  <2>. QED
    BY <1>3, <1>4, InductionOverNat
<1>6. <<At(Len(path)), c[Len(path)]>> \in f[Len(path)]
  <2>1. PICK j \in Nat : Len(path) = j + 1
    BY <1>2
  <2>. QED
    BY <1>5, <2>1
<1>7. <<At(Len(path)), c[Len(path)]>>[2] = c[Len(path)]
  OBVIOUS
<1>. QED
  BY <1>1, <1>6, <1>7 DEF Drivable
=================================================================================

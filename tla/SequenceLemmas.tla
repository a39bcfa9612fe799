--------------------------- MODULE SequenceLemmas ---------------------------
(***************************************************************************)
(* Facts about numbers, recursive definitions, sums and sequences that the *)
(* proofs share. They mention no state: what the program's tables are      *)
(* modelled by (sequences with an element inserted or removed) is counted  *)
(* and summed the same way wherever it appears.                            *)
(***************************************************************************)
EXTENDS Sums, SequencesExt, SequenceTheorems, NaturalsInduction, WellFoundedInduction, TLAPS

(* A set of natural numbers has a least element. This is how the proofs    *)
(* use induction: the least number for which a claim fails.                *)
LEMMA LeastNumber ==
    ASSUME NEW T \in SUBSET Nat, T # {}
    PROVE  \E n \in T : \A m \in T : n <= m
<1> DEFINE R == OpToRel(<, Nat)
<1>1. IsWellFoundedOn(R, Nat)
    BY NatLessThanWellFounded
<1>2. \A x, y \in Nat : y < x => <<y, x>> \in R
    BY DEF OpToRel
<1> HIDE DEF R
<1>3. PICK x \in T : \A y \in T : ~(<<y, x>> \in R)
    BY <1>1, WFMin
<1>4. ASSUME NEW y \in T PROVE x <= y
    <2>1. x \in Nat /\ y \in Nat
        OBVIOUS
    <2>2. ~(y < x)
        BY <1>2, <1>3, <2>1
    <2> QED
        BY <2>1, <2>2
<1> QED
    BY <1>4

(* What holds of the first number of an interval and is passed on from     *)
(* each number to the next holds of all of them.                           *)
LEMMA IntervalInduction ==
    ASSUME NEW a \in Nat, NEW b \in Nat, NEW S, a \in S,
           \A i \in a..b : i \in S /\ i < b => i + 1 \in S
    PROVE  \A i \in a..b : i \in S
<1> DEFINE T == {i \in a..b : i \notin S}
<1> SUFFICES ASSUME T # {} PROVE FALSE
    OBVIOUS
<1>1. T \in SUBSET Nat
    OBVIOUS
<1>2. PICK n \in T : \A m \in T : n <= m
    BY <1>1, LeastNumber
<1>3. n \in a..b /\ n \notin S /\ n # a
    OBVIOUS
<1>4. n - 1 \in a..b /\ n - 1 < b /\ ~(n <= n - 1)
    BY <1>3
<1>5. n - 1 \in S
    BY <1>2, <1>4
<1>6. (n - 1) + 1 \in S
    BY <1>4, <1>5
<1> QED
    BY <1>3, <1>6

(* F is a recursive definition of functions from D to V: the value at a    *)
(* point depends only on the values at points of smaller rank, and ranks   *)
(* are below R.                                                            *)
Defines(D, V, F, rank, R) ==
    /\ V # {} /\ F \in [[D -> V] -> [D -> V]]
    /\ rank \in [D -> Nat] /\ R \in Nat /\ \A x \in D : rank[x] < R
    /\ \A f, g \in [D -> V], x \in D :
          (\A y \in D : rank[y] < rank[x] => f[y] = g[y]) => F[f][x] = F[g][x]

(* Such a definition has a solution: applying F once more settles the      *)
(* points of one more rank.                                                *)
LEMMA SolutionExists ==
    ASSUME NEW D, NEW V, NEW F, NEW rank, NEW R, Defines(D, V, F, rank, R)
    PROVE  \E f \in [D -> V] : f = F[f]
<1> USE DEF Defines
<1> DEFINE Solves(f, n) == \A x \in D : rank[x] < n => f[x] = F[f][x]
           S == {n \in 0..R : \E f \in [D -> V] : Solves(f, n)}
<1>1. 0 \in S
    <2>1. PICK v \in V : TRUE
        OBVIOUS
    <2> DEFINE f == [x \in D |-> v]
    <2>2. f \in [D -> V] /\ Solves(f, 0)
        OBVIOUS
    <2> QED
        BY <2>2
<1>2. ASSUME NEW n \in 0..R, n \in S, n < R PROVE n + 1 \in S
    <2>1. PICK f \in [D -> V] : Solves(f, n)
        BY <1>2
    <2> DEFINE g == F[f]
    <2>2. g \in [D -> V]
        OBVIOUS
    <2> HIDE DEF g
    <2>3. ASSUME NEW x \in D, rank[x] < n + 1 PROVE g[x] = F[g][x]
        <3>1. ASSUME NEW y \in D, rank[y] < rank[x] PROVE f[y] = g[y]
            <4>1. rank[y] < n
                BY <2>3, <3>1
            <4> QED
                BY <2>1, <4>1 DEF g
        <3>2. F[f][x] = F[g][x]
            BY <2>2, <3>1
        <3> QED
            BY <3>2 DEF g
    <2>4. Solves(g, n + 1)
        BY <2>3
    <2>5. n + 1 \in 0..R
        BY <1>2
    <2> QED
        BY <2>2, <2>4, <2>5
<1>3. \A n \in 0..R : n \in S
    <2> HIDE DEF S
    <2>1. \A i \in 0..R : i \in S /\ i < R => i + 1 \in S
        BY <1>2
    <2> QED
        BY <1>1, <2>1, IntervalInduction
<1>4. PICK f \in [D -> V] : Solves(f, R)
    BY SMTT(30), <1>3
<1>5. F[f] \in [D -> V] /\ \A x \in D : f[x] = F[f][x]
    BY <1>4
<1> QED
    BY <1>5

(* g holds the running totals of the first n - 1 elements of b, after a.   *)
RunningTotal(g, n, a, b) ==
    /\ g \in [1..n -> Int]
    /\ \A i \in 1..n : g[i] = IF i = 1 THEN a ELSE g[i - 1] + b[i - 1]

(* The recursive definition of a running total has a solution.             *)
LEMMA RunningTotalExists ==
    ASSUME NEW N \in Nat, NEW a \in Int, NEW b \in [1..N -> Int]
    PROVE  \E g : RunningTotal(g, N + 1, a, b)
<1> DEFINE S == {n \in 1..(N + 1) : \E g : RunningTotal(g, n, a, b)}
<1>1. 1 \in S
    <2> DEFINE g == [i \in 1..1 |-> a]
    <2>1. g \in [1..1 -> Int] /\ \A i \in 1..1 : g[i] = a /\ i = 1
        OBVIOUS
    <2> HIDE DEF g
    <2>2. RunningTotal(g, 1, a, b)
        BY <2>1 DEF RunningTotal
    <2> QED
        BY <2>2
<1>2. ASSUME NEW n \in 1..(N + 1), n \in S, n < N + 1 PROVE n + 1 \in S
    <2>1. PICK g : RunningTotal(g, n, a, b)
        BY <1>2
    <2> DEFINE h == [i \in 1..(n + 1) |-> IF i <= n THEN g[i] ELSE g[n] + b[n]]
    <2>2. h \in [1..(n + 1) -> Int]
        BY <1>2, <2>1 DEF RunningTotal
    <2>3. \A i \in 1..(n + 1) : h[i] = IF i = 1 THEN a ELSE h[i - 1] + b[i - 1]
        BY SMTT(30), <1>2, <2>1 DEF RunningTotal
    <2> HIDE DEF h
    <2>4. RunningTotal(h, n + 1, a, b)
        BY <2>2, <2>3 DEF RunningTotal
    <2> QED
        BY <1>2, <2>4
<1> HIDE DEF S
<1>a. \A i \in 1..(N + 1) : i \in S /\ i < N + 1 => i + 1 \in S
    BY <1>2
<1>b. 1 \in Nat /\ N + 1 \in Nat
    OBVIOUS
<1>3. \A n \in 1..(N + 1) : n \in S
    BY <1>1, <1>a, <1>b, IntervalInduction
<1>4. N + 1 \in S
    BY <1>3
<1> QED
    BY <1>4 DEF S
----------------------------------------------------------------------------
(* Sums over a sequence: g holds the sums of the first elements of s.      *)
Adds(g, s) ==
    /\ g \in [0..Len(s) -> Int]
    /\ g[0] = 0
    /\ \A i \in 1..Len(s) : g[i] = g[i - 1] + s[i]

(* There is such a g: the running totals, counted from zero.               *)
LEMMA AddsExists ==
    ASSUME NEW s \in Seq(Int)
    PROVE  \E g : Adds(g, s)
<1> DEFINE b == [i \in 1..Len(s) |-> s[i]]
<1>1. Len(s) \in Nat /\ b \in [1..Len(s) -> Int] /\ 0 \in Int
    OBVIOUS
<1>2. PICK h : RunningTotal(h, Len(s) + 1, 0, b)
    <2> HIDE DEF b
    <2> QED
        BY <1>1, RunningTotalExists
<1> DEFINE g == [i \in 0..Len(s) |-> h[i + 1]]
<1>3. g \in [0..Len(s) -> Int]
    BY <1>2 DEF RunningTotal
<1>4. g[0] = 0
    BY <1>2 DEF RunningTotal
<1>5. ASSUME NEW i \in 1..Len(s) PROVE g[i] = g[i - 1] + s[i]
    <2>1. i + 1 \in 1..(Len(s) + 1) /\ i + 1 # 1 /\ (i + 1) - 1 = i
        OBVIOUS
    <2>2. h[i + 1] = h[i] + b[i]
        BY <1>2, <2>1 DEF RunningTotal
    <2>3. i \in 0..Len(s) /\ i - 1 \in 0..Len(s) /\ (i - 1) + 1 = i
        OBVIOUS
    <2>4. g[i] = h[i + 1] /\ g[i - 1] = h[i]
        BY <2>3
    <2> QED
        BY <2>2, <2>4
<1> HIDE DEF g
<1> QED
    BY <1>3, <1>4, <1>5 DEF Adds

(* What PrefixSums computes is one.                                        *)
LEMMA PrefixSumsAdds ==
    ASSUME NEW s \in Seq(Int)
    PROVE  Adds(PrefixSums(s), s)
<1>1. PICK g : Adds(g, s)
    BY AddsExists
<1> DEFINE Body(h) == [i \in 0..Len(s) |-> IF i = 0 THEN 0 ELSE h[i - 1] + s[i]]
<1>2. g = Body(g)
    BY <1>1 DEF Adds
<1>3. PrefixSums(s) = CHOOSE h : h = Body(h)
    BY Zenon DEF PrefixSums
<1> DEFINE P == PrefixSums(s)
<1>4. P = Body(P)
    <2> HIDE DEF Body
    <2> QED
        BY <1>2, <1>3, Zenon
<1> HIDE DEF P
<1>5. \A i \in 0..Len(s) : P[i] = IF i = 0 THEN 0 ELSE P[i - 1] + s[i]
    <2>1. \A i \in 0..Len(s) : Body(P)[i] = IF i = 0 THEN 0 ELSE P[i - 1] + s[i]
        BY Zenon
    <2> HIDE DEF Body
    <2> QED
        BY <1>4, <2>1, Zenon
<1>6. P = [i \in 0..Len(s) |-> P[i]]
    BY <1>4
<1> DEFINE S == {i \in 0..Len(s) : P[i] = g[i]}
<1>7. 0 \in S
    BY <1>1, <1>5 DEF Adds
<1>8. \A i \in 0..Len(s) : i \in S /\ i < Len(s) => i + 1 \in S
    <2> TAKE i \in 0..Len(s)
    <2> HAVE i \in S /\ i < Len(s)
    <2>1. i + 1 \in 0..Len(s) /\ i + 1 \in 1..Len(s) /\ (i + 1) - 1 = i /\ i + 1 # 0
        OBVIOUS
    <2>2. P[i + 1] = P[i] + s[i + 1]
        BY <1>5, <2>1
    <2>3. g[i + 1] = g[i] + s[i + 1]
        BY <1>1, <2>1 DEF Adds
    <2> QED
        BY <2>1, <2>2, <2>3
<1> HIDE DEF S
<1>9. 0 \in Nat /\ Len(s) \in Nat
    OBVIOUS
<1>10. \A i \in 0..Len(s) : i \in S
    BY <1>7, <1>8, <1>9, IntervalInduction
<1>11. \A i \in 0..Len(s) : P[i] = g[i]
    BY <1>10 DEF S
<1>12. P = g
    BY <1>1, <1>6, <1>11 DEF Adds
<1> QED
    BY <1>1, <1>12 DEF P

(* And they all agree, so the sum is the last number of any of them.       *)
LEMMA SumIs ==
    ASSUME NEW s \in Seq(Int), NEW g, Adds(g, s)
    PROVE  SumSeq(s) = g[Len(s)]
<1> DEFINE P == PrefixSums(s)
<1>1. Adds(P, s)
    BY PrefixSumsAdds
<1> HIDE DEF P
<1> DEFINE S == {i \in 0..Len(s) : P[i] = g[i]}
<1>2. 0 \in S
    BY <1>1 DEF Adds
<1>3. \A i \in 0..Len(s) : i \in S /\ i < Len(s) => i + 1 \in S
    <2> TAKE i \in 0..Len(s)
    <2> HAVE i \in S /\ i < Len(s)
    <2>1. i + 1 \in 0..Len(s) /\ i + 1 \in 1..Len(s) /\ (i + 1) - 1 = i
        OBVIOUS
    <2>2. P[i + 1] = P[i] + s[i + 1] /\ g[i + 1] = g[i] + s[i + 1]
        BY <1>1, <2>1 DEF Adds
    <2> QED
        BY <2>1, <2>2
<1> HIDE DEF S
<1>4. 0 \in Nat /\ Len(s) \in Nat
    OBVIOUS
<1>5. \A i \in 0..Len(s) : i \in S
    BY <1>2, <1>3, <1>4, IntervalInduction
<1>6. Len(s) \in S
    BY <1>4, <1>5
<1> QED
    BY <1>6 DEF S, P, SumSeq

(* A sum of integers is an integer, that of no elements zero.              *)
LEMMA SumType ==
    ASSUME NEW s \in Seq(Int)
    PROVE  SumSeq(s) \in Int /\ (s = <<>> => SumSeq(s) = 0)
<1>1. Adds(PrefixSums(s), s)
    BY PrefixSumsAdds
<1> QED
    BY <1>1 DEF Adds, SumSeq

(* An element at the end adds itself.                                      *)
LEMMA SumAppend ==
    ASSUME NEW s \in Seq(Int), NEW t \in Seq(Int), Len(t) = Len(s) + 1,
           \A j \in 1..Len(s) : t[j] = s[j]
    PROVE  SumSeq(t) = SumSeq(s) + t[Len(t)]
<1> DEFINE P == PrefixSums(s)
           g == [i \in 0..Len(t) |-> IF i <= Len(s) THEN P[i] ELSE P[Len(s)] + t[Len(t)]]
<1>1. Adds(P, s)
    BY PrefixSumsAdds
<1> HIDE DEF P
<1>a. Len(s) \in Nat /\ Len(t) \in 1..Len(t) /\ t[Len(t)] \in Int
    OBVIOUS
<1>b. g \in [0..Len(t) -> Int] /\ g[0] = 0
    <2>0. \A i \in 0..Len(s) : P[i] \in Int
        BY <1>1 DEF Adds
    <2>1. P[Len(s)] \in Int /\ \A i \in 0..Len(s) : P[i] \in Int
        BY <1>a, <2>0
    <2>2. \A i \in 0..Len(t) : i <= Len(s) => i \in 0..Len(s)
        BY <1>a
    <2>3. ASSUME NEW i \in 0..Len(t)
          PROVE  (IF i <= Len(s) THEN P[i] ELSE P[Len(s)] + t[Len(t)]) \in Int
        BY <1>a, <2>1, <2>2
    <2>4. g[0] = P[0]
        BY <1>a
    <2> QED
        BY <1>1, <2>3, <2>4 DEF Adds
<1>c. ASSUME NEW i \in 1..Len(t) PROVE g[i] = g[i - 1] + t[i]
    <2>1. CASE i <= Len(s)
        <3>1. i \in 1..Len(s) /\ i \in 0..Len(t) /\ i - 1 \in 0..Len(t) /\ i - 1 <= Len(s)
            BY <1>a, <2>1
        <3>2. g[i] = P[i] /\ g[i - 1] = P[i - 1] /\ t[i] = s[i]
            BY <2>1, <3>1
        <3> HIDE DEF g
        <3> QED
            BY <1>1, <3>1, <3>2 DEF Adds
    <2>2. CASE i > Len(s)
        <3>1. i = Len(t) /\ i - 1 = Len(s) /\ i - 1 \in 0..Len(t) /\ i \in 0..Len(t)
            BY <1>a, <2>2
        <3>2. g[i] = P[Len(s)] + t[i] /\ g[i - 1] = P[Len(s)]
            BY <1>a, <2>2, <3>1
        <3> HIDE DEF g
        <3> QED
            BY <3>2
    <2> QED
        BY <1>a, <2>1, <2>2
<1>2. Adds(g, t)
    <2> HIDE DEF g
    <2> QED
        BY <1>b, <1>c DEF Adds
<1> HIDE DEF g
<1>3. SumSeq(t) = g[Len(t)] /\ SumSeq(s) = P[Len(s)]
    BY <1>1, <1>2, SumIs
<1> QED
    BY <1>3 DEF g

(* An element taken out of the middle takes itself off the sum.            *)
LEMMA SumRemove ==
    ASSUME NEW s \in Seq(Int), NEW t \in Seq(Int), NEW k \in 1..Len(s),
           Len(t) = Len(s) - 1,
           \A j \in 1..Len(t) : t[j] = IF j < k THEN s[j] ELSE s[j + 1]
    PROVE  SumSeq(s) = SumSeq(t) + s[k]
<1> DEFINE P == PrefixSums(s)
           g == [i \in 0..Len(t) |-> IF i < k THEN P[i] ELSE P[i + 1] - s[k]]
<1>1. Adds(P, s)
    BY PrefixSumsAdds
<1> HIDE DEF P
<1>a. Len(s) \in Nat /\ Len(t) \in Nat /\ k \in 1..Len(s) /\ s[k] \in Int
    OBVIOUS
<1>b. \A i \in 0..Len(s) : P[i] \in Int
    BY <1>1 DEF Adds
<1>c. \A i \in 1..Len(s) : P[i] = P[i - 1] + s[i] /\ s[i] \in Int
    BY <1>1 DEF Adds
<1>d. \A i \in 0..Len(t) : g[i] = IF i < k THEN P[i] ELSE P[i + 1] - s[k]
    OBVIOUS
<1>e. \A i \in 0..Len(t) : i \in 0..Len(s) /\ i + 1 \in 0..Len(s)
    BY <1>a
<1>2. g \in [0..Len(t) -> Int]
    <2>1. ASSUME NEW i \in 0..Len(t)
          PROVE  (IF i < k THEN P[i] ELSE P[i + 1] - s[k]) \in Int
        <3>1. P[i] \in Int /\ P[i + 1] \in Int
            BY <1>b, <1>e
        <3> QED
            BY SMTT(30), <1>a, <3>1
    <2> QED
        BY <2>1
<1> HIDE DEF g
<1>z. g[0] = 0
    BY <1>a, <1>d, <1>1 DEF Adds
<1>3. ASSUME NEW i \in 1..Len(t) PROVE g[i] = g[i - 1] + t[i]
    <2>0. /\ i \in 0..Len(t) /\ i - 1 \in 0..Len(t) /\ (i - 1) + 1 = i
          /\ i \in 1..Len(s) /\ i + 1 \in 1..Len(s) /\ (i + 1) - 1 = i
        BY <1>a
    <2>1. CASE i < k
        <3>1. g[i] = P[i] /\ g[i - 1] = P[i - 1] /\ t[i] = s[i]
            BY <1>a, <1>d, <2>0, <2>1
        <3> QED
            BY <1>c, <2>0, <3>1
    <2>2. CASE i = k
        <3>1. g[i] = P[i + 1] - s[i] /\ g[i - 1] = P[i - 1] /\ t[i] = s[i + 1]
            BY SMTT(30), <1>a, <1>d, <2>0, <2>2
        <3>2. P[i + 1] = P[i] + s[i + 1] /\ P[i] = P[i - 1] + s[i]
            BY <1>c, <2>0
        <3>3. P[i - 1] \in Int /\ s[i] \in Int /\ s[i + 1] \in Int
            BY <1>b, <1>c, <1>e, <2>0
        <3> QED
            <4>1. \A a, b, c \in Int : ((a + b) + c) - b = a + c
                OBVIOUS
            <4>2. ((P[i - 1] + s[i]) + s[i + 1]) - s[i] = P[i - 1] + s[i + 1]
                BY <3>3, <4>1
            <4> QED
                BY <3>1, <3>2, <4>2, Zenon
    <2>3. CASE i > k
        <3>1. g[i] = P[i + 1] - s[k] /\ g[i - 1] = P[i] - s[k] /\ t[i] = s[i + 1]
            BY SMTT(30), <1>a, <1>d, <2>0, <2>3
        <3>2. P[i + 1] = P[i] + s[i + 1]
            BY <1>c, <2>0
        <3>3. P[i] \in Int /\ s[k] \in Int /\ s[i + 1] \in Int
            BY <1>a, <1>b, <1>c, <1>e, <2>0
        <3> QED
            <4>1. \A a, b, c \in Int : (a + b) - c = (a - c) + b
                OBVIOUS
            <4>2. (P[i] + s[i + 1]) - s[k] = (P[i] - s[k]) + s[i + 1]
                BY <3>3, <4>1
            <4> QED
                BY <3>1, <3>2, <4>2, Zenon
    <2> QED
        BY <1>a, <2>0, <2>1, <2>2, <2>3
<1>4. Adds(g, t)
    BY <1>2, <1>z, <1>3 DEF Adds
<1>5. SumSeq(t) = g[Len(t)] /\ SumSeq(s) = P[Len(s)]
    BY <1>1, <1>4, SumIs
<1>6. P[Len(s)] = g[Len(t)] + s[k]
    <2>0. Len(t) \in 0..Len(t) /\ Len(t) + 1 = Len(s) /\ Len(s) - 1 = Len(t)
        BY <1>a
    <2>1. CASE k = Len(s)
        <3>1. g[Len(t)] = P[Len(t)]
            BY <1>a, <1>d, <2>0, <2>1
        <3>2. P[k] = P[Len(t)] + s[k]
            BY <1>a, <1>c, <2>0, <2>1
        <3> QED
            BY <2>1, <3>1, <3>2
    <2>2. CASE k < Len(s)
        <3>1. g[Len(t)] = P[Len(s)] - s[k]
            <4>1. ~(Len(t) < k)
                BY <1>a, <2>0, <2>2
            <4>2. g[Len(t)] = P[Len(t) + 1] - s[k]
                BY <1>d, <2>0, <4>1
            <4> QED
                BY <2>0, <4>2
        <3>2. P[Len(s)] \in Int
            BY <1>a, <1>b
        <3> QED
            BY <1>a, <3>1, <3>2
    <2> QED
        BY <1>a, <2>1, <2>2
<1> QED
    BY <1>5, <1>6

(* A changed element changes the sum by as much.                           *)
LEMMA SumReplace ==
    ASSUME NEW s \in Seq(Int), NEW t \in Seq(Int), NEW k \in 1..Len(s),
           Len(t) = Len(s), \A j \in 1..Len(s) : j # k => t[j] = s[j]
    PROVE  SumSeq(t) = SumSeq(s) + t[k] - s[k]
<1> DEFINE P == PrefixSums(s)
           g == [i \in 0..Len(t) |-> IF i < k THEN P[i] ELSE P[i] + (t[k] - s[k])]
<1>1. Adds(P, s)
    BY PrefixSumsAdds
<1> HIDE DEF P
<1>a. Len(s) \in Nat /\ k \in 1..Len(s) /\ s[k] \in Int /\ t[k] \in Int
    OBVIOUS
<1>b. \A i \in 0..Len(s) : P[i] \in Int
    BY <1>1 DEF Adds
<1>c. \A i \in 1..Len(s) : P[i] = P[i - 1] + s[i] /\ s[i] \in Int
    BY <1>1 DEF Adds
<1>d. \A i \in 0..Len(t) : g[i] = IF i < k THEN P[i] ELSE P[i] + (t[k] - s[k])
    OBVIOUS
<1>2. g \in [0..Len(t) -> Int]
    BY <1>a, <1>b
<1> HIDE DEF g
<1>z. g[0] = 0
    BY <1>a, <1>d, <1>1 DEF Adds
<1>3. ASSUME NEW i \in 1..Len(t) PROVE g[i] = g[i - 1] + t[i]
    <2>0. i \in 0..Len(t) /\ i - 1 \in 0..Len(t) /\ i \in 1..Len(s) /\ i - 1 \in 0..Len(s)
        BY <1>a
    <2>a. P[i] = P[i - 1] + s[i] /\ P[i - 1] \in Int /\ s[i] \in Int
        BY <1>b, <1>c, <2>0
    <2>1. CASE i < k
        <3>1. g[i] = P[i] /\ g[i - 1] = P[i - 1] /\ t[i] = s[i]
            <4>1. i # k /\ i - 1 < k
                BY <1>a, <2>0, <2>1
            <4> QED
                BY <1>d, <2>0, <2>1, <4>1
        <3> QED
            BY <2>a, <3>1
    <2>2. CASE i = k
        <3>1. g[i] = P[i] + (t[i] - s[i]) /\ g[i - 1] = P[i - 1]
            BY <1>a, <1>d, <2>0, <2>2
        <3> QED
            BY <1>a, <2>2, <2>a, <3>1
    <2>3. CASE i > k
        <3>1. /\ g[i] = P[i] + (t[k] - s[k]) /\ g[i - 1] = P[i - 1] + (t[k] - s[k])
              /\ t[i] = s[i]
            <4>1. i # k /\ ~(i < k) /\ ~(i - 1 < k)
                BY <1>a, <2>0, <2>3
            <4> QED
                BY <1>d, <2>0, <4>1
        <3> QED
            BY SMTT(30), <1>a, <2>a, <3>1
    <2> QED
        BY <1>a, <2>0, <2>1, <2>2, <2>3
<1>4. Adds(g, t)
    BY <1>2, <1>z, <1>3 DEF Adds
<1>5. SumSeq(t) = g[Len(t)] /\ SumSeq(s) = P[Len(s)]
    BY <1>1, <1>4, SumIs
<1>6. g[Len(t)] = P[Len(s)] + (t[k] - s[k]) /\ P[Len(s)] \in Int
    BY <1>a, <1>b, <1>d
<1> QED
    BY <1>a, <1>5, <1>6

(* Of natural numbers none is larger than their sum.                       *)
LEMMA SumBound ==
    ASSUME NEW s \in Seq(Nat), NEW k \in 1..Len(s)
    PROVE  s[k] <= SumSeq(s)
<1> DEFINE P == PrefixSums(s)
<1>0. s \in Seq(Int)
    OBVIOUS
<1>1. Adds(P, s)
    BY <1>0, PrefixSumsAdds
<1>a. SumSeq(s) = P[Len(s)]
    BY DEF SumSeq
<1> HIDE DEF P
<1> DEFINE S == {i \in 0..Len(s) : P[i] >= 0 /\ (i >= k => P[i] >= s[k])}
<1>2. 0 \in S
    BY <1>1 DEF Adds
<1>3. \A i \in 0..Len(s) : i \in S /\ i < Len(s) => i + 1 \in S
    <2> TAKE i \in 0..Len(s)
    <2> HAVE i \in S /\ i < Len(s)
    <2>1. i + 1 \in 0..Len(s) /\ i + 1 \in 1..Len(s) /\ (i + 1) - 1 = i
        OBVIOUS
    <2>2. P[i + 1] = P[i] + s[i + 1] /\ P[i] \in Int /\ s[i + 1] \in Nat
        <3>1. P[i] \in Int
            BY <1>1 DEF Adds
        <3>2. P[i + 1] = P[(i + 1) - 1] + s[i + 1]
            BY <1>1, <2>1 DEF Adds
        <3>3. s[i + 1] \in Nat
            BY <2>1
        <3> QED
            BY <2>1, <3>1, <3>2, <3>3
    <2>3. P[i] >= 0 /\ (i >= k => P[i] >= s[k]) /\ k \in Nat /\ s[k] \in Nat
        OBVIOUS
    <2>4. P[i + 1] >= 0
        BY <2>2, <2>3
    <2>5. i + 1 >= k => P[i + 1] >= s[k]
        <3>1. CASE i + 1 = k
            BY <2>2, <2>3, <3>1
        <3>2. CASE i + 1 # k
            BY <2>2, <2>3, <3>2
        <3> QED
            BY <3>1, <3>2
    <2> QED
        BY <2>1, <2>4, <2>5
<1> HIDE DEF S
<1>4. 0 \in Nat /\ Len(s) \in Nat
    OBVIOUS
<1>5. \A i \in 0..Len(s) : i \in S
    BY <1>2, <1>3, <1>4, IntervalInduction
<1>6. Len(s) \in S
    BY <1>4, <1>5
<1> QED
    BY <1>6, <1>a DEF S
----------------------------------------------------------------------------
(* Removing an element moves the later ones down by one.                   *)
LEMMA RemoveAtElements ==
    ASSUME NEW S, NEW s \in Seq(S), NEW k \in 1..Len(s)
    PROVE  /\ RemoveAt(s, k) \in Seq(S)
           /\ Len(RemoveAt(s, k)) = Len(s) - 1
           /\ \A j \in 1..(Len(s) - 1) :
                 RemoveAt(s, k)[j] = IF j < k THEN s[j] ELSE s[j + 1]
<1> DEFINE u == SubSeq(s, 1, k - 1)
           v == SubSeq(s, k + 1, Len(s))
<1>1. u \in Seq(S) /\ Len(u) = k - 1 /\ \A j \in 1..(k - 1) : u[j] = s[j]
    OBVIOUS
<1>2. v \in Seq(S) /\ Len(v) = Len(s) - k /\ \A j \in 1..(Len(s) - k) : v[j] = s[k + j]
    OBVIOUS
<1>3. RemoveAt(s, k) = u \o v
    BY DEF RemoveAt
<1> HIDE DEF u, v
<1>4. u \o v \in Seq(S) /\ Len(u \o v) = Len(s) - 1
    BY <1>1, <1>2
<1>5. ASSUME NEW j \in 1..(Len(s) - 1)
      PROVE  (u \o v)[j] = IF j < k THEN s[j] ELSE s[j + 1]
    <2>1. CASE j < k
        BY <1>1, <1>2, <2>1
    <2>2. CASE j >= k
        <3>1. (u \o v)[j] = v[j - (k - 1)]
            BY <1>1, <1>2, <2>2
        <3>2. j - (k - 1) \in 1..(Len(s) - k) /\ k + (j - (k - 1)) = j + 1
            BY <2>2
        <3> QED
            BY <1>2, <2>2, <3>1, <3>2
    <2> QED
        <3>1. j < k \/ j >= k
            OBVIOUS
        <3> QED
            BY <2>1, <2>2, <3>1
<1> QED
    BY <1>3, <1>4, <1>5

(* Inserting one moves the later ones up.                                  *)
LEMMA InsertAtElements ==
    ASSUME NEW S, NEW s \in Seq(S), NEW k \in 1..(Len(s) + 1), NEW e \in S
    PROVE  /\ InsertAt(s, k, e) \in Seq(S)
           /\ Len(InsertAt(s, k, e)) = Len(s) + 1
           /\ \A j \in 1..(Len(s) + 1) :
                 InsertAt(s, k, e)[j] = IF j < k THEN s[j]
                                        ELSE IF j = k THEN e ELSE s[j - 1]
<1> DEFINE u == SubSeq(s, 1, k - 1)
           v == SubSeq(s, k, Len(s))
           w == u \o <<e>>
<1>1. u \in Seq(S) /\ Len(u) = k - 1 /\ \A j \in 1..(k - 1) : u[j] = s[j]
    OBVIOUS
<1>2. /\ v \in Seq(S) /\ Len(v) = Len(s) - k + 1
      /\ \A j \in 1..(Len(s) - k + 1) : v[j] = s[k + j - 1]
    OBVIOUS
<1>3. InsertAt(s, k, e) = w \o v
    BY DEF InsertAt
<1> HIDE DEF u, v
<1>4. w \in Seq(S) /\ Len(w) = k /\ w[k] = e /\ \A j \in 1..(k - 1) : w[j] = s[j]
    BY SMTT(30), <1>1
<1> HIDE DEF w
<1>5. w \o v \in Seq(S) /\ Len(w \o v) = Len(s) + 1
    <2>0. \A c, d \in Seq(S) : c \o d \in Seq(S) /\ Len(c \o d) = Len(c) + Len(d)
        OBVIOUS
    <2>1. w \o v \in Seq(S) /\ Len(w \o v) = Len(w) + Len(v)
        BY <1>2, <1>4, <2>0
    <2> QED
        BY <1>2, <1>4, <2>1
<1>6. ASSUME NEW j \in 1..(Len(s) + 1)
      PROVE  (w \o v)[j] = IF j < k THEN s[j] ELSE IF j = k THEN e ELSE s[j - 1]
    <2>1. CASE j <= k
        <3>1. (w \o v)[j] = w[j]
            BY <1>2, <1>4, <2>1
        <3> QED
            BY <1>4, <2>1, <3>1
    <2>2. CASE j > k
        <3>1. (w \o v)[j] = v[j - k]
            BY SMTT(30), <1>2, <1>4, <2>2
        <3>2. j - k \in 1..(Len(s) - k + 1) /\ k + (j - k) - 1 = j - 1
            BY <2>2
        <3> QED
            BY <1>2, <2>2, <3>1, <3>2
    <2> QED
        <3>1. j <= k \/ j > k
            OBVIOUS
        <3> QED
            BY <2>1, <2>2, <3>1
<1> QED
    BY <1>3, <1>5, <1>6
----------------------------------------------------------------------------
(* More recursive definitions, and sequences put together from pieces:     *)
(* what the decoders read and what the loggers write.                      *)

(* A least element of a set of numbers is its minimum.                     *)
LEMMA MinIs ==
    ASSUME NEW S \in SUBSET Nat, S # {}
    PROVE  Min(S) \in S /\ \A k \in S : Min(S) <= k
BY LeastNumber DEF Min

(* F is such a definition on positions up to L, where the value at a       *)
(* position depends only on the values behind it.                          *)
DefinesDownward(L, V, F) ==
    /\ L \in Nat /\ V # {} /\ F \in [[0..L -> V] -> [0..L -> V]]
    /\ \A f, g \in [0..L -> V], p \in 0..L :
          (\A q \in 0..L : p < q => f[q] = g[q]) => F[f][p] = F[g][p]

(* It has a solution, too.                                                 *)
LEMMA DownwardSolution ==
    ASSUME NEW L, NEW V, NEW F, DefinesDownward(L, V, F)
    PROVE  \E f \in [0..L -> V] : f = F[f]
<1> DEFINE D == 0..L
           rank == [p \in D |-> L - p]
           R == L + 1
<1>0. L \in Nat /\ V # {}
    BY Zenon DEF DefinesDownward
<1>1. rank \in [D -> Nat] /\ R \in Nat /\ \A p \in D : rank[p] = L - p /\ rank[p] < R
    BY <1>0
<1>2. \A p, q \in D : rank[q] < rank[p] <=> p < q
    BY <1>0, <1>1
<1>3. F \in [[D -> V] -> [D -> V]]
      /\ \A f, g \in [D -> V], p \in D :
               (\A q \in D : p < q => f[q] = g[q]) => F[f][p] = F[g][p]
    BY Zenon DEF DefinesDownward
<1> HIDE DEF D, rank, R
<1>4. \A f, g \in [D -> V], p \in D :
         (\A q \in D : rank[q] < rank[p] => f[q] = g[q]) => F[f][p] = F[g][p]
    <2> SUFFICES ASSUME NEW f \in [D -> V], NEW g \in [D -> V], NEW p \in D,
                        \A q \in D : rank[q] < rank[p] => f[q] = g[q]
                 PROVE  F[f][p] = F[g][p]
        OBVIOUS
    <2>1. \A q \in D : p < q => f[q] = g[q]
        BY <1>2
    <2> QED BY <1>3, <2>1
<1>5. Defines(D, V, F, rank, R)
    BY <1>0, <1>1, <1>3, <1>4, Zenon DEF Defines
<1>6. \E f \in [D -> V] : f = F[f]
    BY <1>5, SolutionExists
<1> QED BY <1>6 DEF D

(* The largest of a bounded set of numbers.                                *)
LEMMA MaxIs ==
    ASSUME NEW n \in Nat, NEW S \in SUBSET (0..n), S # {}
    PROVE  Max(S) \in S /\ \A k \in S : k <= Max(S)
<1> DEFINE T == {k \in 0..n : n - k \in S}
<1>1. T \in SUBSET Nat /\ T # {}
    <2>1. PICK x \in S : TRUE
        OBVIOUS
    <2>2. x \in 0..n
        OBVIOUS
    <2>3. n - x \in 0..n /\ n - (n - x) = x
        BY <2>2
    <2>4. n - x \in T
        BY <2>1, <2>3
    <2>5. T \in SUBSET Nat
        OBVIOUS
    <2> QED BY <2>4, <2>5, Zenon
<1>2. PICK k \in T : \A j \in T : k <= j
    <2> HIDE DEF T
    <2> QED BY <1>1, LeastNumber
<1>3. n - k \in S /\ \A y \in S : n - k >= y
    <2> SUFFICES ASSUME NEW y \in S PROVE n - k >= y
        OBVIOUS
    <2>1. y \in 0..n /\ n - (n - y) = y /\ k \in 0..n
        OBVIOUS
    <2>2. n - y \in T
        BY <2>1
    <2> QED BY <1>2, <2>1, <2>2
<1>4. \E x \in S : \A y \in S : x >= y
    BY <1>3
<1>5. Max(S) \in S /\ \A y \in S : Max(S) >= y
    <2>1. Max(S) = CHOOSE x \in S : \A y \in S : x >= y
        BY DEF Max
    <2> QED BY <1>4, <2>1, Zenon
<1> QED BY <1>5

(* And on numbers from a to b, where the value at a number depends only on *)
(* the values before it.                                                   *)
DefinesUpward(a, b, V, F) ==
    /\ a \in Nat /\ b \in Nat /\ V # {} /\ F \in [[a..b -> V] -> [a..b -> V]]
    /\ \A f, g \in [a..b -> V], p \in a..b :
          (\A q \in a..b : q < p => f[q] = g[q]) => F[f][p] = F[g][p]

(* Such a definition has a solution.                                       *)
LEMMA UpwardSolution ==
    ASSUME NEW a, NEW b, NEW V, NEW F, DefinesUpward(a, b, V, F)
    PROVE  \E f \in [a..b -> V] : f = F[f]
<1> DEFINE D == a..b
           rank == [p \in D |-> p]
           R == b + 1
<1>0. a \in Nat /\ b \in Nat /\ V # {}
    BY Zenon DEF DefinesUpward
<1>1. rank \in [D -> Nat] /\ R \in Nat /\ \A p \in D : rank[p] = p /\ rank[p] < R
    BY <1>0
<1>2. \A p, q \in D : rank[q] < rank[p] <=> q < p
    BY <1>0, <1>1
<1>3. F \in [[D -> V] -> [D -> V]]
      /\ \A f, g \in [D -> V], p \in D :
               (\A q \in D : q < p => f[q] = g[q]) => F[f][p] = F[g][p]
    BY Zenon DEF DefinesUpward
<1> HIDE DEF D, rank, R
<1>4. \A f, g \in [D -> V], p \in D :
         (\A q \in D : rank[q] < rank[p] => f[q] = g[q]) => F[f][p] = F[g][p]
    <2> SUFFICES ASSUME NEW f \in [D -> V], NEW g \in [D -> V], NEW p \in D,
                        \A q \in D : rank[q] < rank[p] => f[q] = g[q]
                 PROVE  F[f][p] = F[g][p]
        OBVIOUS
    <2>1. \A q \in D : q < p => f[q] = g[q]
        BY <1>2
    <2> QED BY <1>3, <2>1
<1>5. Defines(D, V, F, rank, R)
    BY <1>0, <1>1, <1>3, <1>4, Zenon DEF Defines
<1>6. \E f \in [D -> V] : f = F[f]
    BY <1>5, SolutionExists
<1> QED BY <1>6 DEF D

(* Two functions that follow the same definition are the same.             *)
SameStepUp(f, g, a, b) ==
    \A p \in a..b : (\A q \in a..b : q < p => f[q] = g[q]) => f[p] = g[p]

AgreeBehind(f, g, L, p) == \A q \in 0..L : p < q => f[q] = g[q]

SameStepDown(f, g, L) == \A p \in 0..L : AgreeBehind(f, g, L, p) => f[p] = g[p]

(* Functions that follow the same definition upward agree.                 *)
LEMMA UpwardSame ==
    ASSUME NEW a \in Nat, NEW b \in Nat, NEW f, NEW g, SameStepUp(f, g, a, b)
    PROVE  \A p \in a..b : f[p] = g[p]
<1> DEFINE T == {p \in a..b : f[p] # g[p]}
<1> SUFFICES ASSUME T # {} PROVE FALSE
    OBVIOUS
<1>1. T \in SUBSET Nat
    OBVIOUS
<1>2. PICK p \in T : \A q \in T : p <= q
    <2> HIDE DEF T
    <2> QED BY <1>1, LeastNumber
<1>3. p \in a..b /\ f[p] # g[p]
    OBVIOUS
<1>4. \A q \in a..b : q < p => f[q] = g[q]
    BY <1>2, <1>3
<1> HIDE DEF T
<1> QED BY <1>3, <1>4, Zenon DEF SameStepUp

(* And so do those that follow it downward.                                *)
LEMMA DownwardSame ==
    ASSUME NEW L \in Nat, NEW f, NEW g, SameStepDown(f, g, L)
    PROVE  \A p \in 0..L : f[p] = g[p]
<1> DEFINE T == {k \in 0..L : f[L - k] # g[L - k]}
<1>1. T = {}
    <2> SUFFICES ASSUME T # {} PROVE FALSE
        OBVIOUS
    <2>1. T \in SUBSET Nat
        OBVIOUS
    <2>2. PICK k \in T : \A j \in T : k <= j
        <3> HIDE DEF T
        <3> QED BY <2>1, LeastNumber
    <2> DEFINE p == L - k
    <2>3. p \in 0..L /\ f[p] # g[p] /\ k \in 0..L
        OBVIOUS
    <2>4. \A q \in 0..L : p < q => f[q] = g[q]
        <3> SUFFICES ASSUME NEW q \in 0..L, p < q PROVE f[q] = g[q]
            OBVIOUS
        <3>1. L - q \in 0..L /\ ~(k <= L - q) /\ L - (L - q) = q
            BY <2>3
        <3>2. L - q \notin T
            <4> HIDE DEF T
            <4> QED BY <2>2, <3>1
        <3> QED BY <3>1, <3>2
    <2> HIDE DEF T, p
    <2> QED BY <2>3, <2>4, Zenon DEF SameStepDown, AgreeBehind
<1>2. ASSUME NEW p \in 0..L PROVE f[p] = g[p]
    <2>1. L - p \in 0..L /\ L - (L - p) = p
        OBVIOUS
    <2> QED BY <1>1, <2>1
<1> QED BY <1>2

----------------------------------------------------------------------------
(* Two sequences, one behind the other.                                    *)
LEMMA ConcatIs ==
    ASSUME NEW S, NEW a \in Seq(S), NEW b \in Seq(S)
    PROVE  /\ a \o b \in Seq(S) /\ Len(a \o b) = Len(a) + Len(b)
           /\ \A j \in 1..Len(a) : (a \o b)[j] = a[j]
           /\ \A j \in 1..Len(b) : (a \o b)[Len(a) + j] = b[j]
<1>1. Len(a) \in Nat /\ Len(b) \in Nat
    OBVIOUS
<1> QED BY <1>1

(* Flattening a sequence of pieces: where each piece stands in the whole.  *)
LaidOut(pieces, whole, at) ==
    /\ at \in [0..Len(pieces) -> Nat] /\ at[0] = 0 /\ at[Len(pieces)] = Len(whole)
    /\ \A k \in 1..Len(pieces) :
          /\ at[k] = at[k - 1] + Len(pieces[k]) /\ at[k] <= Len(whole)
          /\ \A j \in 1..Len(pieces[k]) : whole[at[k - 1] + j] = pieces[k][j]

(* FlattenSeq gives a sequence in which each piece has its place.          *)
LEMMA FlattenIs ==
    ASSUME NEW S, NEW s \in Seq(Seq(S))
    PROVE  FlattenSeq(s) \in Seq(S) /\ \E at : LaidOut(s, FlattenSeq(s), at)
<1> DEFINE n == Len(s)
<1>0. n \in Nat /\ \A k \in 1..n : s[k] \in Seq(S) /\ Len(s[k]) \in Nat
    OBVIOUS
<1>1. CASE n = 0
    <2>1. FlattenSeq(s) = s /\ s = <<>>
        BY <1>1 DEF FlattenSeq
    <2> DEFINE at == [k \in 0..0 |-> 0]
    <2>2. LaidOut(<<>>, <<>>, at)
        <3>1. at \in [0..0 -> Nat] /\ at[0] = 0
            OBVIOUS
        <3>2. Len(<<>>) = 0
            OBVIOUS
        <3> HIDE DEF at
        <3> QED BY <3>1, <3>2 DEF LaidOut
    <2>3. <<>> \in Seq(S)
        BY EmptySeq
    <2> QED BY <2>1, <2>2, <2>3
<1>2. CASE n # 0
    <2> DEFINE D == 1..n
               V == Seq(S)
               step(f, i) == IF i = 1 THEN s[i] ELSE f[i - 1] \o s[i]
               body(f) == [i \in D |-> step(f, i)]
               F == [f \in [D -> V] |-> body(f)]
               flatten == CHOOSE f : f = body(f)
    <2>1. FlattenSeq(s) = flatten[n]
        BY <1>2 DEF FlattenSeq
    <2>2. ASSUME NEW f \in [D -> V], NEW i \in D PROVE step(f, i) \in V
        <3>1. s[i] \in Seq(S)
            BY <1>0
        <3>2. CASE i = 1
            BY <3>1, <3>2
        <3>3. CASE i # 1
            <4>1. i - 1 \in D
                BY <1>0, <3>3
            <4>2. f[i - 1] \in Seq(S)
                BY <4>1
            <4> QED BY <3>1, <3>3, <4>2
        <3> QED BY <3>2, <3>3
    <2>3. ASSUME NEW f, NEW g, NEW i \in D, \A q \in D : q < i => f[q] = g[q]
          PROVE  step(f, i) = step(g, i)
        <3>1. CASE i = 1
            BY <3>1
        <3>2. CASE i # 1
            <4>1. i - 1 \in D /\ i - 1 < i
                BY <1>0, <3>2
            <4> QED BY <2>3, <3>2, <4>1
        <3> QED BY <3>1, <3>2
    <2>4. F \in [[D -> V] -> [D -> V]] /\ \A f \in [D -> V] : F[f] = body(f)
        BY <2>2
    <2>5. \A f, g \in [D -> V], p \in D :
             (\A q \in D : q < p => f[q] = g[q]) => F[f][p] = F[g][p]
        <3> SUFFICES ASSUME NEW f \in [D -> V], NEW g \in [D -> V], NEW p \in D,
                            \A q \in D : q < p => f[q] = g[q]
                     PROVE  F[f][p] = F[g][p]
            OBVIOUS
        <3>1. F[f][p] = step(f, p) /\ F[g][p] = step(g, p)
            <4> HIDE DEF F, step
            <4> QED BY ZenonT(30), <2>4
        <3>2. step(f, p) = step(g, p)
            <4> HIDE DEF step
            <4> QED BY <2>3
        <3> QED BY <3>1, <3>2, Zenon
    <2>6. V # {}
        <3>1. <<>> \in V
            BY EmptySeq
        <3> QED BY <3>1
    <2>7. PICK h \in [D -> V] : h = body(h)
        <3>1. 1 \in Nat
            OBVIOUS
        <3> HIDE DEF F, V, body, n
        <3>2. DefinesUpward(1, n, V, F)
            BY <1>0, <2>4, <2>5, <2>6, <3>1, Zenon DEF DefinesUpward
        <3>3. \E f \in [D -> V] : f = F[f]
            BY <3>2, UpwardSolution
        <3> QED BY <2>4, <3>3
    <2>8. flatten = body(flatten)
        <3> HIDE DEF body
        <3> QED BY <2>7, Zenon
    <2>9. \A p \in D : flatten[p] = step(flatten, p) /\ h[p] = step(h, p)
        <3> HIDE DEF flatten
        <3> QED BY <2>7, <2>8
    <2> HIDE DEF flatten, step
    <2>10. \A p \in D : flatten[p] \in V
        <3>1. SameStepUp(flatten, h, 1, n)
            BY <2>3, <2>9, Zenon DEF SameStepUp
        <3>2. \A p \in D : flatten[p] = h[p]
            BY <1>0, <3>1, UpwardSame
        <3> QED BY <3>2
    <2> DEFINE at == [k \in 0..n |-> IF k = 0 THEN 0 ELSE Len(flatten[k])]
    <2>11. /\ at \in [0..n -> Nat] /\ at[0] = 0
           /\ \A k \in 1..n : at[k] = Len(flatten[k]) /\ at[k] \in Nat
        <3>1. \A k \in 1..n : Len(flatten[k]) \in Nat
            BY <2>10
        <3> QED BY <1>0, <3>1
    <2> HIDE DEF at
    <2>12. \A k \in 1..n : /\ at[k] = at[k - 1] + Len(s[k])
                           /\ \A j \in 1..Len(s[k]) : flatten[k][at[k - 1] + j] = s[k][j]
        <3> SUFFICES ASSUME NEW k \in 1..n
                     PROVE  /\ at[k] = at[k - 1] + Len(s[k])
                            /\ \A j \in 1..Len(s[k]) : flatten[k][at[k - 1] + j] = s[k][j]
            OBVIOUS
        <3>1. CASE k = 1
            <4>0. flatten[k] = step(flatten, k)
                BY <2>9
            <4>1. flatten[k] = s[k] /\ k - 1 = 0
                BY <3>1, <4>0 DEF step
            <4>2. Len(s[k]) \in Nat /\ at[k - 1] = 0
                BY <1>0, <2>11, <4>1
            <4> QED BY <2>11, <4>1, <4>2
        <3>2. CASE k # 1
            <4>1. k - 1 \in 1..n
                BY <1>0, <3>2
            <4>2. flatten[k] = flatten[k - 1] \o s[k]
                BY <2>9, <3>2 DEF step
            <4>3. flatten[k - 1] \in Seq(S) /\ s[k] \in Seq(S) /\ at[k - 1] = Len(flatten[k - 1])
                BY <1>0, <2>10, <2>11, <4>1
            <4>4. Len(flatten[k]) = Len(flatten[k - 1]) + Len(s[k])
                BY <4>2, <4>3
            <4>5. \A j \in 1..Len(s[k]) : flatten[k][Len(flatten[k - 1]) + j] = s[k][j]
                <5> DEFINE x == flatten[k - 1]
                           y == s[k]
                <5>1. x \in Seq(S) /\ y \in Seq(S) /\ flatten[k] = x \o y
                    BY <4>2, <4>3, Zenon
                <5> HIDE DEF x, y
                <5>2. \A j \in 1..Len(y) : (x \o y)[Len(x) + j] = y[j]
                    BY <5>1, ConcatIs
                <5> QED BY <5>1, <5>2, Zenon DEF x, y
            <4> QED BY <2>11, <4>3, <4>4, <4>5
        <3> QED BY <3>1, <3>2
    <2>13. \A m \in 1..n : m \in {i \in 1..n : \A k \in 1..i :
               /\ at[k] <= at[i]
               /\ \A j \in 1..Len(s[k]) : flatten[i][at[k - 1] + j] = s[k][j]}
        <3> DEFINE G(i, k) == /\ at[k] <= at[i]
                              /\ \A j \in 1..Len(s[k]) : flatten[i][at[k - 1] + j] = s[k][j]
                   T == {i \in 1..n : \A k \in 1..i : G(i, k)}
        <3>1. 1 \in T
            <4>1. 1 \in 1..n /\ \A k \in 1..1 : k = 1
                BY <1>0, <1>2
            <4>2. G(1, 1)
                BY <2>11, <2>12, <4>1
            <4> HIDE DEF G
            <4> QED BY <4>1, <4>2
        <3>2. ASSUME NEW i \in 1..n, i \in T, i < n PROVE i + 1 \in T
            <4>1. i + 1 \in 1..n /\ (i + 1) - 1 = i /\ i + 1 # 1
                BY <1>0, <3>2
            <4>2. \A k \in 1..(i + 1) : k = i + 1 \/ k \in 1..i
                BY <4>1
            <4>3. G(i + 1, i + 1)
                <5>1. /\ at[i + 1] \in Nat
                      /\ \A j \in 1..Len(s[i + 1]) :
                            flatten[i + 1][at[(i + 1) - 1] + j] = s[i + 1][j]
                    BY <2>11, <2>12, <4>1, Zenon
                <5>2. at[i + 1] <= at[i + 1]
                    BY <5>1
                <5> QED BY <5>1, <5>2, Zenon
            <4>4. ASSUME NEW k \in 1..i PROVE G(i + 1, k)
                <5>1. /\ at[k] <= at[i]
                      /\ \A j \in 1..Len(s[k]) : flatten[i][at[k - 1] + j] = s[k][j]
                    BY <3>2
                <5> HIDE DEF G, T
                <5>2. at[i + 1] = at[i] + Len(s[i + 1]) /\ Len(s[i + 1]) \in Nat
                      /\ at[i] \in Nat /\ at[k] \in Nat /\ at[i] = Len(flatten[i])
                    BY SMTT(30), <1>0, <2>11, <2>12, <4>1
                <5>3. at[k] <= at[i + 1]
                    <6>1. at[k] <= at[i]
                        BY <5>1, Zenon
                    <6> DEFINE x == at[k]
                               y == at[i]
                               z == at[i + 1]
                               l == Len(s[i + 1])
                    <6>2. x \in Nat /\ y \in Nat /\ l \in Nat /\ z = y + l /\ x <= y
                        BY <5>2, <6>1, Zenon
                    <6> HIDE DEF x, y, z, l
                    <6>3. x <= z
                        BY <6>2
                    <6> QED BY <6>3 DEF x, z
                <5>4. flatten[i + 1] = flatten[i] \o s[i + 1]
                    BY <2>9, <4>1 DEF step
                <5>5. flatten[i] \in Seq(S) /\ s[i + 1] \in Seq(S)
                    BY <1>0, <2>10, <4>1
                <5>6. \A q \in 1..Len(flatten[i]) : flatten[i + 1][q] = flatten[i][q]
                    <6> DEFINE x == flatten[i]
                               y == s[i + 1]
                    <6>1. x \in Seq(S) /\ y \in Seq(S) /\ flatten[i + 1] = x \o y
                        BY <5>4, <5>5, Zenon
                    <6> HIDE DEF x, y
                    <6>2. \A j \in 1..Len(x) : (x \o y)[j] = x[j]
                        BY <6>1, ConcatIs
                    <6> QED BY <6>1, <6>2, Zenon DEF x
                <5>7. k \in 1..n /\ at[k] = at[k - 1] + Len(s[k]) /\ k - 1 \in 0..n
                      /\ Len(s[k]) \in Nat
                    BY <1>0, <2>12
                <5>8. at[k - 1] \in Nat
                    BY <2>11, <5>7
                <5>9. \A j \in 1..Len(s[k]) : at[k - 1] + j \in 1..Len(flatten[i])
                    <6> DEFINE x == at[k]
                               y == at[i]
                               z == at[k - 1]
                               l == Len(s[k])
                    <6>1. /\ x \in Nat /\ y \in Nat /\ z \in Nat /\ l \in Nat /\ x = z + l /\ x <= y
                          /\ y = Len(flatten[i])
                        BY <5>1, <5>2, <5>7, <5>8, Zenon
                    <6> HIDE DEF x, y, z, l
                    <6>2. \A j \in 1..l : z + j \in 1..y
                        BY <6>1
                    <6> QED BY <6>1, <6>2, Zenon DEF z, l
                <5>10. \A j \in 1..Len(s[k]) : flatten[i + 1][at[k - 1] + j] = s[k][j]
                    BY <5>1, <5>6, <5>9
                <5> QED BY <5>3, <5>10, Zenon DEF G
            <4> HIDE DEF G
            <4> QED BY <4>1, <4>2, <4>3, <4>4
        <3>3. \A i \in 1..n : i \in T /\ i < n => i + 1 \in T
            BY <3>2
        <3> HIDE DEF T
        <3>4. \A i \in 1..n : i \in T
            <4>1. 1 \in Nat
                OBVIOUS
            <4> QED BY <1>0, <3>1, <3>3, <4>1, IntervalInduction
        <3> QED BY <3>4 DEF T
    <2>14. n \in 1..n
        BY <1>0, <1>2
    <2>15. \A k \in 1..n : /\ at[k] <= at[n]
                           /\ \A j \in 1..Len(s[k]) : flatten[n][at[k - 1] + j] = s[k][j]
        BY <2>13, <2>14
    <2>16. LaidOut(s, flatten[n], at)
        BY <2>11, <2>12, <2>14, <2>15 DEF LaidOut
    <2> QED BY <2>1, <2>10, <2>14, <2>16
<1> QED BY <1>1, <1>2

(* Lists read from a buffer: what is read at p is head[p], followed by     *)
(* what is read at next[p], which lies behind p, unless that is outside.   *)
Chain(L, S, head, next) ==
    /\ L \in Nat /\ head \in [0..L -> Seq(S)] /\ next \in [0..L -> Nat]
    /\ \A p \in 0..L : next[p] > p

Link(f, L, head, next, p) == IF next[p] > L THEN head[p] ELSE head[p] \o f[next[p]]

(* A link depends only on what is read further on.                         *)
LEMMA LinkLocal ==
    ASSUME NEW L, NEW S, NEW head, NEW next, Chain(L, S, head, next), NEW p \in 0..L,
           NEW f, NEW g, AgreeBehind(f, g, L, p)
    PROVE  Link(f, L, head, next, p) = Link(g, L, head, next, p)
<1>0. L \in Nat /\ next[p] \in Nat /\ next[p] > p
    BY DEF Chain
<1>1. CASE next[p] > L
    BY <1>1, Zenon DEF Link
<1>2. CASE ~(next[p] > L)
    <2>1. next[p] \in 0..L /\ p < next[p]
        BY <1>0, <1>2
    <2>2. f[next[p]] = g[next[p]]
        BY <2>1 DEF AgreeBehind
    <2> QED BY <1>2, <2>2, Zenon DEF Link
<1> QED BY <1>1, <1>2

(* A link of lists of S is a list of S.                                    *)
LEMMA LinkType ==
    ASSUME NEW L, NEW S, NEW head, NEW next, Chain(L, S, head, next), NEW p \in 0..L,
           NEW f \in [0..L -> Seq(S)]
    PROVE  Link(f, L, head, next, p) \in Seq(S)
<1>0. L \in Nat /\ next[p] \in Nat /\ next[p] > p /\ head[p] \in Seq(S)
    BY DEF Chain
<1>1. CASE next[p] > L
    BY <1>0, <1>1, Zenon DEF Link
<1>2. CASE ~(next[p] > L)
    <2>1. next[p] \in 0..L
        BY <1>0, <1>2
    <2>2. f[next[p]] \in Seq(S)
        BY <2>1
    <2>3. head[p] \o f[next[p]] \in Seq(S)
        BY <1>0, <2>2, ConcatIs, Zenon
    <2> QED BY <1>2, <2>3, Zenon DEF Link
<1> QED BY <1>1, <1>2

(* There is such a list.                                                   *)
LEMMA ChainSolution ==
    ASSUME NEW L, NEW S, NEW head, NEW next, Chain(L, S, head, next)
    PROVE  \E f \in [0..L -> Seq(S)] : f = [p \in 0..L |-> Link(f, L, head, next, p)]
<1> DEFINE V == Seq(S)
           body(f) == [p \in 0..L |-> Link(f, L, head, next, p)]
           F == [f \in [0..L -> V] |-> body(f)]
<1>0. L \in Nat
    BY DEF Chain
<1>1. V # {}
    <2>1. <<>> \in V
        BY EmptySeq
    <2> QED BY <2>1
<1>2. \A f \in [0..L -> V] : body(f) \in [0..L -> V]
    BY LinkType
<1>3. F \in [[0..L -> V] -> [0..L -> V]] /\ \A f \in [0..L -> V] : F[f] = body(f)
    <2> HIDE DEF body, V
    <2> QED BY <1>2
<1>4. \A f, g \in [0..L -> V], p \in 0..L :
         (\A q \in 0..L : p < q => f[q] = g[q]) => F[f][p] = F[g][p]
    <2> SUFFICES ASSUME NEW f \in [0..L -> V], NEW g \in [0..L -> V], NEW p \in 0..L,
                        \A q \in 0..L : p < q => f[q] = g[q]
                 PROVE  F[f][p] = F[g][p]
        OBVIOUS
    <2>1. F[f] = body(f) /\ F[g] = body(g)
        BY <1>3
    <2>2. F[f][p] = Link(f, L, head, next, p) /\ F[g][p] = Link(g, L, head, next, p)
        <3> HIDE DEF F
        <3> QED BY <2>1
    <2>3. Link(f, L, head, next, p) = Link(g, L, head, next, p)
        <3>1. AgreeBehind(f, g, L, p)
            BY Zenon DEF AgreeBehind
        <3> QED BY <3>1, LinkLocal
    <2> QED BY <2>2, <2>3, Zenon
<1> HIDE DEF F, V
<1>5. DefinesDownward(L, V, F)
    BY <1>0, <1>1, <1>3, <1>4, Zenon DEF DefinesDownward
<1>6. \E f \in [0..L -> V] : f = F[f]
    BY <1>5, DownwardSolution
<1> QED BY <1>3, <1>6 DEF V

(* And every such list is one of S.                                        *)
LEMMA ChainType ==
    ASSUME NEW L, NEW S, NEW head, NEW next, Chain(L, S, head, next), NEW f,
           \A p \in 0..L : f[p] = Link(f, L, head, next, p)
    PROVE  \A p \in 0..L : f[p] \in Seq(S)
<1>0. L \in Nat
    BY DEF Chain
<1>1. PICK g \in [0..L -> Seq(S)] : g = [p \in 0..L |-> Link(g, L, head, next, p)]
    BY ChainSolution
<1>2. \A p \in 0..L : g[p] = Link(g, L, head, next, p)
    BY <1>1
<1>3. SameStepDown(f, g, L)
    <2> SUFFICES ASSUME NEW p \in 0..L, AgreeBehind(f, g, L, p)
                 PROVE  f[p] = g[p]
        BY Zenon DEF SameStepDown
    <2> QED BY <1>2, LinkLocal
<1>4. \A p \in 0..L : f[p] = g[p]
    BY <1>0, <1>3, DownwardSame
<1> QED BY <1>1, <1>4

\* The octets of c stand in w at p.
StandsAt(w, p, c) == p + Len(c) <= Len(w) /\ \A j \in 1..Len(c) : w[p + j] = c[j]

(* An octet in front of the octets of u behind k.                          *)
LEMMA SuffixStep ==
    ASSUME NEW S, NEW u \in Seq(S), NEW k \in 1..Len(u)
    PROVE  <<u[k]>> \o SubSeq(u, k + 1, Len(u)) = SubSeq(u, k, Len(u))
<1> DEFINE a == SubSeq(u, k + 1, Len(u))
           b == SubSeq(u, k, Len(u))
           c == <<u[k]>> \o a
<1>1. Len(u) \in Nat /\ u[k] \in S /\ k \in Nat
    OBVIOUS
<1>2. a \in Seq(S) /\ Len(a) = Len(u) - k /\ \A i \in 1..(Len(u) - k) : a[i] = u[k + i]
    BY <1>1
<1>3. b \in Seq(S) /\ Len(b) = Len(u) - k + 1 /\ \A i \in 1..(Len(u) - k + 1) : b[i] = u[k + i - 1]
    BY <1>1
<1> HIDE DEF a, b
<1>4. c \in Seq(S) /\ Len(c) = Len(a) + 1 /\ c[1] = u[k] /\ \A i \in 1..Len(a) : c[i + 1] = a[i]
    <2> DEFINE x == <<u[k]>>
    <2>1. x \in Seq(S) /\ Len(x) = 1 /\ x[1] = u[k] /\ 1 \in 1..1
        BY <1>1
    <2> HIDE DEF x
    <2>2. /\ x \o a \in Seq(S) /\ Len(x \o a) = Len(x) + Len(a)
          /\ \A j \in 1..Len(x) : (x \o a)[j] = x[j]
          /\ \A j \in 1..Len(a) : (x \o a)[Len(x) + j] = a[j]
        <3>1. a \in Seq(S) /\ x \in Seq(S)
            BY <1>2, <2>1, Zenon
        <3> HIDE DEF c
        <3> QED BY <3>1, ConcatIs
    <2>3. Len(x \o a) = Len(a) + 1 /\ \A i \in 1..Len(a) : (x \o a)[i + 1] = a[i]
        <3>1. Len(a) \in Nat /\ \A i \in 1..Len(a) : i + 1 = 1 + i
            BY <1>2
        <3> QED BY <2>1, <2>2, <3>1
    <2> QED BY <2>1, <2>2, <2>3 DEF x
<1> HIDE DEF c
<1>5. Len(c) = Len(b)
    BY <1>1, <1>2, <1>3, <1>4
<1>6. ASSUME NEW i \in 1..Len(b) PROVE c[i] = b[i]
    <2>1. CASE i = 1
        <3>1. b[1] = u[k]
            BY <1>1, <1>3
        <3> QED BY <1>4, <2>1, <3>1
    <2>2. CASE i # 1
        <3>1. i - 1 \in 1..Len(a) /\ (i - 1) + 1 = i /\ i \in 1..(Len(u) - k + 1)
            BY <1>1, <1>2, <1>3, <2>2
        <3>2. c[i] = a[i - 1]
            BY <1>4, <3>1
        <3>3. a[i - 1] = u[k + (i - 1)] /\ b[i] = u[k + i - 1] /\ k + (i - 1) = k + i - 1
            BY <1>1, <1>2, <1>3, <3>1
        <3> QED BY <3>2, <3>3
    <2> QED BY <2>1, <2>2
<1>7. c = b
    BY <1>3, <1>4, <1>5, <1>6, SeqEqual
<1> QED BY <1>7 DEF a, b, c

(* Each piece stands in the flattened whole.                               *)
LEMMA PlacedAt ==
    ASSUME NEW S, NEW s \in Seq(Seq(S)), NEW w, NEW at, LaidOut(s, w, at), NEW k \in 0..(Len(s) - 1)
    PROVE  /\ at[k] \in Nat /\ at[k + 1] = at[k] + Len(s[k + 1]) /\ StandsAt(w, at[k], s[k + 1])
           /\ at[k + 1] <= Len(w)
<1>1. k + 1 \in 1..Len(s) /\ (k + 1) - 1 = k /\ k \in 0..Len(s)
    OBVIOUS
<1>2. /\ at[k] \in Nat /\ at[k + 1] = at[k] + Len(s[k + 1]) /\ at[k + 1] <= Len(w)
      /\ \A j \in 1..Len(s[k + 1]) : w[at[k] + j] = s[k + 1][j]
    BY <1>1 DEF LaidOut
<1> QED BY <1>2 DEF StandsAt

(* One piece for each octet of a text.                                     *)
LEMMA PiecesAre ==
    ASSUME NEW X, NEW S, NEW t \in Seq(X), NEW f, \A x \in X : f[x] \in Seq(S)
    PROVE  LET s == [i \in 1..Len(t) |-> f[t[i]]]
           IN  s \in Seq(Seq(S)) /\ Len(s) = Len(t) /\ \A i \in 1..Len(t) : s[i] = f[t[i]] /\ t[i] \in X
<1> DEFINE s == [i \in 1..Len(t) |-> f[t[i]]]
           V == Seq(S)
<1>1. Len(t) \in Nat /\ \A i \in 1..Len(t) : t[i] \in X
    OBVIOUS
<1>2. \A i \in 1..Len(t) : f[t[i]] \in V
    BY <1>1
<1> HIDE DEF V
<1>3. s \in Seq(V) /\ Len(s) = Len(t) /\ \A i \in 1..Len(t) : s[i] = f[t[i]]
    BY <1>1, <1>2
<1> QED BY <1>1, <1>3 DEF V

(* The octets of a flattened text are octets of its pieces.                *)
LEMMA FlattenOctets ==
    ASSUME NEW S, NEW s \in Seq(Seq(S))
    PROVE  ToSet(FlattenSeq(s)) \subseteq S
<1> DEFINE w == FlattenSeq(s)
<1>1. w \in Seq(S)
    BY FlattenIs
<1> HIDE DEF w
<1>2. \A i \in DOMAIN w : w[i] \in S
    BY <1>1
<1> QED BY <1>2 DEF ToSet, w

(* What is gathered along a list.                                          *)
Gathered(f, n, first, step) ==
    f = [i \in 0..n |-> IF i = 0 THEN first ELSE step[i][f[i - 1]]]

(* There are such values.                                                  *)
LEMMA GatheredExists ==
    ASSUME NEW n \in Nat, NEW V, NEW first \in V, NEW step \in [1..n -> [V -> V]]
    PROVE  \E f \in [0..n -> V] : Gathered(f, n, first, step)
<1> DEFINE body(f) == [i \in 0..n |-> IF i = 0 THEN first ELSE step[i][f[i - 1]]]
           F == [f \in [0..n -> V] |-> body(f)]
<1>1. ASSUME NEW f \in [0..n -> V], NEW i \in 0..n
      PROVE  (IF i = 0 THEN first ELSE step[i][f[i - 1]]) \in V
    <2>1. CASE i = 0
        BY <2>1
    <2>2. CASE i # 0
        <3>1. i - 1 \in 0..n /\ i \in 1..n
            BY <2>2
        <3>2. f[i - 1] \in V /\ step[i] \in [V -> V]
            BY <3>1
        <3> QED BY <2>2, <3>2
    <2> QED BY <2>1, <2>2
<1>2. F \in [[0..n -> V] -> [0..n -> V]] /\ \A f \in [0..n -> V] : F[f] = body(f)
    BY <1>1
<1>3. \A f, g \in [0..n -> V], p \in 0..n :
         (\A q \in 0..n : q < p => f[q] = g[q]) => F[f][p] = F[g][p]
    <2> SUFFICES ASSUME NEW f \in [0..n -> V], NEW g \in [0..n -> V], NEW p \in 0..n,
                        \A q \in 0..n : q < p => f[q] = g[q]
                 PROVE  F[f][p] = F[g][p]
        OBVIOUS
    <2>0. F[f] = body(f) /\ F[g] = body(g)
        BY <1>2
    <2>1. /\ F[f][p] = IF p = 0 THEN first ELSE step[p][f[p - 1]]
          /\ F[g][p] = IF p = 0 THEN first ELSE step[p][g[p - 1]]
        <3> HIDE DEF F
        <3> QED BY <2>0
    <2> HIDE DEF F, body
    <2>2. CASE p = 0
        BY <2>1, <2>2
    <2>3. CASE p # 0
        <3>1. p - 1 \in 0..n /\ p - 1 < p
            BY <2>3
        <3>2. f[p - 1] = g[p - 1]
            BY <3>1
        <3> QED BY <2>1, <2>3, <3>2
    <2> QED BY <2>2, <2>3
<1>4. \E f \in [0..n -> V] : f = F[f]
    <2> DEFINE a == 0
    <2>1. /\ a \in Nat /\ n \in Nat /\ V # {} /\ F \in [[a..n -> V] -> [a..n -> V]]
          /\ \A f, g \in [a..n -> V], p \in a..n :
                (\A q \in a..n : q < p => f[q] = g[q]) => F[f][p] = F[g][p]
        <3> HIDE DEF F
        <3> QED BY <1>2, <1>3
    <2>2. \A f \in [a..n -> V] : f = F[f] => f \in [0..n -> V]
        OBVIOUS
    <2> HIDE DEF a, F
    <2>3. DefinesUpward(a, n, V, F)
        BY <2>1, Zenon DEF DefinesUpward
    <2>4. \E f \in [a..n -> V] : f = F[f]
        BY <2>3, UpwardSolution
    <2> QED BY <2>2, <2>4
<1> HIDE DEF F
<1> QED BY <1>2, <1>4 DEF Gathered

(* Whatever is gathered that way is of the same kind.                      *)
LEMMA GatheredType ==
    ASSUME NEW n \in Nat, NEW V, NEW f, f[0] \in V,
           \A i \in 1..n : f[i - 1] \in V => f[i] \in V
    PROVE  f[n] \in V
<1> DEFINE T == {i \in 0..n : f[i] \in V}
<1>0. 0 \in Nat /\ 0 \in T
    OBVIOUS
<1>1. \A i \in 0..n : i \in T /\ i < n => i + 1 \in T
    <2> SUFFICES ASSUME NEW i \in 0..n, i \in T, i < n PROVE i + 1 \in T
        OBVIOUS
    <2>1. i + 1 \in 1..n /\ (i + 1) - 1 = i /\ i + 1 \in 0..n
        OBVIOUS
    <2>2. f[(i + 1) - 1] \in V
        BY <2>1
    <2> QED BY <2>1, <2>2
<1> HIDE DEF T
<1>2. \A i \in 0..n : i \in T
    BY <1>0, <1>1, IntervalInduction
<1> QED BY <1>2 DEF T

\* What stands in one of two sequences stands in both of them together.
LEMMA StandsInFirst ==
    ASSUME NEW a \in Seq(Nat), NEW b \in Seq(Nat), NEW w \in Seq(Nat), NEW p \in Nat,
           StandsAt(w, p, a \o b)
    PROVE  StandsAt(w, p, a) /\ StandsAt(w, p + Len(a), b) /\ Len(a \o b) = Len(a) + Len(b)
<1> DEFINE c == a \o b
<1>1. /\ c \in Seq(Nat) /\ Len(c) = Len(a) + Len(b)
      /\ \A j \in 1..Len(a) : c[j] = a[j]
      /\ \A j \in 1..Len(b) : c[Len(a) + j] = b[j]
    BY ConcatIs
<1>2. Len(a) \in Nat /\ Len(b) \in Nat
    OBVIOUS
<1>3. p + Len(c) <= Len(w) /\ \A j \in 1..Len(c) : w[p + j] = c[j]
    BY DEF StandsAt
<1> HIDE DEF c
<1>4. StandsAt(w, p, a)
    <2>1. p + Len(a) <= Len(w)
        BY <1>1, <1>2, <1>3
    <2>2. ASSUME NEW j \in 1..Len(a) PROVE w[p + j] = a[j]
        <3>1. j \in 1..Len(c)
            BY <1>1, <1>2
        <3> QED BY <1>1, <1>3, <3>1
    <2> QED BY <2>1, <2>2 DEF StandsAt
<1>5. StandsAt(w, p + Len(a), b)
    <2>1. p + Len(a) + Len(b) <= Len(w)
        BY <1>1, <1>2, <1>3
    <2>2. ASSUME NEW j \in 1..Len(b) PROVE w[p + Len(a) + j] = b[j]
        <3> DEFINE i == Len(a) + j
        <3>0. Len(c) = Len(a) + Len(b)
            BY <1>1
        <3>1. i \in 1..Len(c) /\ p + i = p + Len(a) + j
            BY <1>2, <3>0
        <3>2. c[i] = b[j]
            BY <1>1
        <3> HIDE DEF i
        <3>3. w[p + i] = c[i]
            BY <1>3, <3>1
        <3> QED BY <3>1, <3>2, <3>3
    <2>3. \A j \in 1..Len(b) : w[p + Len(a) + j] = b[j]
        BY <2>2
    <2> DEFINE q == p + Len(a)
    <2>4. q + Len(b) <= Len(w) /\ \A j \in 1..Len(b) : w[q + j] = b[j]
        BY <2>1, <2>3, Zenon
    <2> HIDE DEF q
    <2>5. StandsAt(w, q, b)
        BY <2>4, Zenon DEF StandsAt
    <2> QED BY <2>5, Zenon DEF q
<1> QED BY <1>1, <1>4, <1>5 DEF c

(* A sequence stands at the start of itself.                               *)
LEMMA StandsAtNothing ==
    ASSUME NEW w \in Seq(Nat)
    PROVE  StandsAt(w, 0, w)
    BY DEF StandsAt

\* What stands in a part stands in the whole.
LEMMA StandsWithin ==
    ASSUME NEW w \in Seq(Nat), NEW p \in Nat, NEW a \in Seq(Nat), StandsAt(w, p, a),
           NEW k \in Nat, NEW b \in Seq(Nat), StandsAt(a, k, b)
    PROVE  StandsAt(w, p + k, b)
<1>1. Len(a) \in Nat /\ Len(b) \in Nat /\ k + Len(b) <= Len(a) /\ p + Len(a) <= Len(w) /\ Len(w) \in Nat
    BY DEF StandsAt
<1>2. ASSUME NEW j \in 1..Len(b) PROVE w[p + k + j] = b[j]
    <2>1. k + j \in 1..Len(a) /\ p + (k + j) = p + k + j
        BY <1>1
    <2> QED BY <2>1 DEF StandsAt
<1> QED BY <1>1, <1>2 DEF StandsAt
=============================================================================

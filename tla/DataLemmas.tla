------------------------------ MODULE DataLemmas ------------------------------
(***************************************************************************)
(* What the proofs about the data of pdfgrep keep needing: least elements, *)
(* functions defined by recursion over the naturals, sums over finite sets *)
(* and concatenations of lists of sequences, as the community modules      *)
(* define them, and how such concatenations grow and can be regrouped.     *)
(***************************************************************************)
EXTENDS Integers, Sequences, SequencesExt, FiniteSetsExt, FiniteSetTheorems,
        SequenceTheorems, WellFoundedInduction, TLAPS

\* Every set of naturals that is not empty has a least element.
LEMMA LeastElement ==
  ASSUME NEW S \in SUBSET Nat, S # {}
  PROVE  \E x \in S : \A y \in S : x <= y
<1> DEFINE R == {ij \in Nat \X Nat : ij[1] < ij[2]}
<1>1. OpToRel(<, Nat) = R
  BY DEF OpToRel
<1>2. IsWellFoundedOn(R, Nat)
  BY <1>1, NatLessThanWellFounded
<1>3. \E x \in S : \A y \in S : ~ (<<y, x>> \in R)
  <2> HIDE DEF R
  <2> QED BY <1>2, WFMin
<1>4. PICK x \in S : \A y \in S : ~ (<<y, x>> \in R)
  BY <1>3
<1>5. ASSUME NEW y \in S PROVE x <= y
  <2>1. ~ (<<y, x>> \in R)
    BY <1>4
  <2>2. x \in Nat /\ y \in Nat
    OBVIOUS
  <2>3. ~ (y < x)
    BY <2>1, <2>2
  <2> QED BY <2>2, <2>3
<1> QED
  BY <1>5

\* Induction over the naturals: a set that holds 0 and the successor of each of
\* its numbers holds all of them.
LEMMA Induction ==
  ASSUME NEW S, 0 \in S, \A n \in Nat : n \in S => n + 1 \in S
  PROVE  Nat \subseteq S
<1> SUFFICES ASSUME Nat \ S # {} PROVE FALSE
  OBVIOUS
<1>1. PICK x \in Nat \ S : \A y \in Nat \ S : x <= y
  <2> DEFINE bad == Nat \ S
  <2>1. bad \in SUBSET Nat /\ bad # {}
    OBVIOUS
  <2> HIDE DEF bad
  <2>2. \E x \in bad : \A y \in bad : x <= y
    BY <2>1, LeastElement
  <2> QED BY <2>2 DEF bad
<1>2. x # 0 /\ x \in Nat
  BY <1>1
<1>3. x - 1 \in Nat /\ (x - 1) + 1 = x
  BY <1>2
<1>4. x - 1 \notin S
  BY <1>1, <1>3
<1> QED BY <1>1, <1>3, <1>4

-----------------------------------------------------------------------------
\* The beginning, up to n, of the function with f[0] = base and
\* f[k + 1] = step[k][f[k]].
Approximates(g, n, T, base, step) ==
  /\ g \in [0..n -> T]
  /\ g[0] = base
  /\ \A k \in 0..(n - 1) : g[k + 1] = step[k][g[k]]

LEMMA ApproximationExists ==
  ASSUME NEW T, NEW base \in T, NEW step \in [Nat -> [T -> T]]
  PROVE  \A n \in Nat : \E g : Approximates(g, n, T, base, step)
<1> DEFINE S == {n \in Nat : \E g : Approximates(g, n, T, base, step)}
<1>1. 0 \in S
  <2> DEFINE h == [k \in 0..0 |-> base]
  <2>1. h \in [0..0 -> T] /\ h[0] = base /\ 0..(0 - 1) = {}
    OBVIOUS
  <2>2. Approximates(h, 0, T, base, step)
    BY <2>1 DEF Approximates
  <2> QED BY <2>2
<1>2. ASSUME NEW n \in Nat, n \in S PROVE n + 1 \in S
  <2>1. PICK g : Approximates(g, n, T, base, step)
    BY <1>2
  <2> DEFINE v == step[n][g[n]]
             h == [k \in 0..(n + 1) |-> IF k = n + 1 THEN v ELSE g[k]]
  <2>2. /\ g \in [0..n -> T] /\ g[0] = base
        /\ \A k \in 0..(n - 1) : g[k + 1] = step[k][g[k]]
    BY <2>1 DEF Approximates
  <2>3. v \in T
    <3>1. n \in 0..n
      OBVIOUS
    <3>2. g[n] \in T /\ step[n] \in [T -> T]
      BY <2>2, <3>1
    <3> QED BY <3>2
  <2>4. v = step[n][g[n]]
    OBVIOUS
  <2> HIDE DEF v
  <2>5. \A k \in 0..n : k \in 0..(n + 1) /\ k # n + 1
    OBVIOUS
  <2>6. \A k \in 0..n : h[k] = g[k] /\ g[k] \in T
    BY <2>2, <2>5
  <2>7. h[n + 1] = v
    <3>1. n + 1 \in 0..(n + 1)
      OBVIOUS
    <3> QED BY <3>1
  <2>8. \A k \in 0..(n + 1) : k \in 0..n \/ k = n + 1
    OBVIOUS
  <2>9. DOMAIN h = 0..(n + 1) /\ h = [k \in 0..(n + 1) |-> h[k]]
    OBVIOUS
  <2>10. n \in 0..n /\ 0 \in 0..n
    OBVIOUS
  <2> HIDE DEF h
  <2>11. h \in [0..(n + 1) -> T] /\ h[0] = base
    BY <2>2, <2>3, <2>6, <2>7, <2>8, <2>9, <2>10, <2>5
  <2>12. ASSUME NEW k \in 0..((n + 1) - 1) PROVE h[k + 1] = step[k][h[k]]
    <3>1. CASE k = n
      BY <2>6, <2>7, <2>10, <2>4, <3>1
    <3>2. CASE k # n
      <4>1. k \in 0..(n - 1) /\ k \in 0..n /\ k + 1 \in 0..n
        BY <3>2
      <4>2. h[k] = g[k] /\ h[k + 1] = g[k + 1]
        BY <2>6, <4>1
      <4> QED BY <2>2, <4>1, <4>2
    <3> QED BY <3>1, <3>2
  <2>13. Approximates(h, n + 1, T, base, step)
    BY <2>11, <2>12 DEF Approximates
  <2> QED BY <2>13
<1> HIDE DEF S
<1>3. Nat \subseteq S
  BY <1>1, <1>2, Induction
<1> QED BY <1>3 DEF S

LEMMA ApproximationsAgree ==
  ASSUME NEW T, NEW base, NEW step,
         NEW m \in Nat, NEW n \in Nat, NEW g, NEW h, m <= n,
         Approximates(g, m, T, base, step), Approximates(h, n, T, base, step)
  PROVE  \A k \in 0..m : g[k] = h[k]
<1> DEFINE S == {k \in Nat : k <= m => g[k] = h[k]}
<1>1. 0 \in S
  BY DEF Approximates
<1>2. ASSUME NEW k \in Nat, k \in S PROVE k + 1 \in S
  <2>1. CASE k + 1 <= m
    <3>1. k \in 0..(m - 1) /\ k \in 0..(n - 1)
      BY <2>1
    <3>2. g[k + 1] = step[k][g[k]] /\ h[k + 1] = step[k][h[k]]
      BY <3>1 DEF Approximates
    <3>3. g[k] = h[k]
      BY <1>2, <2>1
    <3>4. g[k + 1] = h[k + 1]
      BY <3>2, <3>3
    <3> QED BY <3>4
  <2>2. CASE ~(k + 1 <= m)
    BY <2>2
  <2> QED BY <2>1, <2>2
<1> HIDE DEF S
<1>3. Nat \subseteq S
  BY <1>1, <1>2, Induction
<1> QED BY <1>3 DEF S

\* A function may be defined by recursion over the naturals.
Recurses(f, T, base, step) ==
  /\ f \in [Nat -> T]
  /\ f[0] = base
  /\ \A n \in Nat : f[n + 1] = step[n][f[n]]

LEMMA RecursionExists ==
  ASSUME NEW T, NEW base, NEW step, base \in T, step \in [Nat -> [T -> T]]
  PROVE  \E f : Recurses(f, T, base, step)
<1> DEFINE g(n) == CHOOSE h : Approximates(h, n, T, base, step)
           f == [n \in Nat |-> g(n)[n]]
<1>1. \A n \in Nat : Approximates(g(n), n, T, base, step)
  BY ApproximationExists
<1> HIDE DEF g
<1>2. ASSUME NEW n \in Nat
      PROVE  /\ g(n)[n] \in T /\ g(n)[0] = base /\ g(n + 1)[n] = g(n)[n]
             /\ g(n + 1)[n + 1] = step[n][g(n + 1)[n]]
  <2>1. n \in 0..n /\ n + 1 \in Nat /\ n <= n + 1 /\ n \in 0..((n + 1) - 1)
    OBVIOUS
  <2>2. Approximates(g(n), n, T, base, step) /\ Approximates(g(n + 1), n + 1, T, base, step)
    BY <1>1, <2>1
  <2>3. \A k \in 0..n : g(n)[k] = g(n + 1)[k]
    <3> DEFINE m == n + 1
    <3>1. m \in Nat /\ n <= m /\ Approximates(g(m), m, T, base, step)
      BY <2>1, <2>2
    <3> HIDE DEF m
    <3>2. \A k \in 0..n : g(n)[k] = g(m)[k]
      BY <2>2, <3>1, ApproximationsAgree
    <3> QED BY <3>2 DEF m
  <2>4. g(n) \in [0..n -> T] /\ g(n)[0] = base
    BY <2>2 DEF Approximates
  <2>5. g(n + 1)[n + 1] = step[n][g(n + 1)[n]]
    BY <2>1, <2>2 DEF Approximates
  <2> QED BY <2>1, <2>3, <2>4, <2>5
<1>3. f \in [Nat -> T]
  BY <1>2
<1>4. f[0] = base
  BY <1>2
<1>5. ASSUME NEW n \in Nat PROVE f[n + 1] = step[n][f[n]]
  <2>1. n + 1 \in Nat
    OBVIOUS
  <2>2. f[n + 1] = g(n + 1)[n + 1] /\ f[n] = g(n)[n]
    BY <2>1
  <2> QED BY <1>2, <2>2
<1> HIDE DEF f
<1>6. Recurses(f, T, base, step)
  BY <1>3, <1>4, <1>5 DEF Recurses
<1> QED BY <1>6

-----------------------------------------------------------------------------
\* The function behind MapThenSumSet: the sum of w over each subset of D, its
\* elements taken in the order CHOOSE takes them.
Chosen(s) == CHOOSE x \in s : TRUE
Weight(w, D) == w \in [D -> Nat]
SumsUp(iter, w, D) ==
  iter = [s \in SUBSET D |-> IF s = {} THEN 0 ELSE w[Chosen(s)] + iter[s \ {Chosen(s)}]]

LEMMA SubsetsFinite ==
  ASSUME NEW D, IsFiniteSet(D), NEW s \in SUBSET D
  PROVE  /\ IsFiniteSet(s) /\ Cardinality(s) \in Nat
         /\ Cardinality(s) = 0 <=> s = {}
         /\ \A x \in s : /\ s \ {x} \in SUBSET D
                         /\ Cardinality(s \ {x}) = Cardinality(s) - 1
<1>1. IsFiniteSet(s) /\ Cardinality(s) \in Nat
  BY FS_Subset, FS_CardinalityType
<1> QED BY <1>1, FS_EmptySet, FS_RemoveElement

LEMMA SumExists ==
  ASSUME NEW D, IsFiniteSet(D), NEW w, Weight(w, D)
  PROVE  \E iter : SumsUp(iter, w, D)
<1> DEFINE T == [SUBSET D -> Nat]
           next(g) == [s \in SUBSET D |-> IF s = {} THEN 0
                                          ELSE w[Chosen(s)] + g[s \ {Chosen(s)}]]
           base == [s \in SUBSET D |-> 0]
           step == [n \in Nat |-> [g \in T |-> next(g)]]
<1>1. \A s \in SUBSET D : s # {} => Chosen(s) \in s /\ w[Chosen(s)] \in Nat
                                    /\ s \ {Chosen(s)} \in SUBSET D
  BY DEF Chosen, Weight
<1>2. \A g \in T : next(g) \in T
  <2> TAKE g \in T
  <2>1. ASSUME NEW s \in SUBSET D, s # {}
        PROVE  w[Chosen(s)] + g[s \ {Chosen(s)}] \in Nat
    <3>1. w[Chosen(s)] \in Nat /\ g[s \ {Chosen(s)}] \in Nat
      BY <1>1, <2>1
    <3> QED BY <3>1
  <2> QED BY <2>1
<1>3. base \in T /\ step \in [Nat -> [T -> T]] /\ \A n \in Nat, g \in T : step[n][g] = next(g)
  BY <1>2
<1>4. PICK f : Recurses(f, T, base, step)
  <2>1. base \in T /\ step \in [Nat -> [T -> T]]
    BY <1>3
  <2> HIDE DEF base, step, T
  <2> QED BY <2>1, RecursionExists
<1>5. f \in [Nat -> T] /\ f[0] = base /\ \A n \in Nat : f[n + 1] = step[n][f[n]]
  <2> HIDE DEF base, step, T
  <2> QED BY <1>4 DEF Recurses
<1> DEFINE iter == [s \in SUBSET D |-> f[Cardinality(s)][s]]
<1>6. ASSUME NEW s \in SUBSET D
      PROVE  iter[s] = IF s = {} THEN 0 ELSE w[Chosen(s)] + iter[s \ {Chosen(s)}]
  <2>1. CASE s = {}
    <3>1. Cardinality(s) = 0 /\ f[0][s] = 0
      BY <1>5, <2>1, FS_EmptySet
    <3> QED BY <2>1, <3>1
  <2>2. CASE s # {}
    <3> DEFINE r == s \ {Chosen(s)}
               n == Cardinality(r)
    <3>1. /\ r \in SUBSET D /\ n \in Nat /\ Cardinality(s) = n + 1
      <4>1. r \in SUBSET D /\ Chosen(s) \in s
        BY <1>1, <2>2
      <4>2. Cardinality(s) \in Nat /\ n = Cardinality(s) - 1 /\ n \in Nat
        BY <4>1, SubsetsFinite
      <4> QED BY <4>1, <4>2
    <3>2. f[n] \in T /\ f[n + 1] = next(f[n])
      <4> HIDE DEF n, T, next, step, base
      <4>1. f[n] \in T
        BY <1>5, <3>1
      <4> QED BY <1>3, <1>5, <3>1, <4>1
    <3>3. f[n + 1][s] = w[Chosen(s)] + f[n][r]
      BY <2>2, <3>2
    <3>4. iter[s] = f[n + 1][s] /\ iter[r] = f[n][r]
      BY <3>1
    <3> QED BY <2>2, <3>3, <3>4
  <2> QED BY <2>1, <2>2
<1>7. SumsUp(iter, w, D)
  <2>1. iter = [s \in SUBSET D |-> iter[s]]
    OBVIOUS
  <2> HIDE DEF iter
  <2> QED BY <1>6, <2>1, Zenon DEF SumsUp
<1> QED BY <1>7

\* On what two weights share, they have the same sums.
AgreeOn(D, w1, w2) == \A x \in D : w1[x] = w2[x]

LEMMA SumsAgree ==
  ASSUME NEW D, IsFiniteSet(D), NEW D1, NEW D2, D \subseteq D1, D \subseteq D2,
         NEW w1, NEW w2, AgreeOn(D, w1, w2),
         NEW iter1, NEW iter2, SumsUp(iter1, w1, D1), SumsUp(iter2, w2, D2)
  PROVE  \A s \in SUBSET D : iter1[s] = iter2[s]
<1> DEFINE S == {n \in Nat : \A s \in SUBSET D : Cardinality(s) = n => iter1[s] = iter2[s]}
<1>1. \A s \in SUBSET D : /\ s \in SUBSET D1 /\ s \in SUBSET D2
                          /\ s # {} => Chosen(s) \in s
  BY DEF Chosen
<1>2. \A s \in SUBSET D :
        /\ iter1[s] = IF s = {} THEN 0 ELSE w1[Chosen(s)] + iter1[s \ {Chosen(s)}]
        /\ iter2[s] = IF s = {} THEN 0 ELSE w2[Chosen(s)] + iter2[s \ {Chosen(s)}]
  BY <1>1 DEF SumsUp
<1>3. 0 \in S
  <2>1. \A s \in SUBSET D : Cardinality(s) = 0 => s = {}
    BY SubsetsFinite
  <2> QED BY <1>2, <2>1
<1>4. ASSUME NEW n \in Nat, n \in S PROVE n + 1 \in S
  <2> SUFFICES ASSUME NEW s \in SUBSET D, Cardinality(s) = n + 1
               PROVE  iter1[s] = iter2[s]
    OBVIOUS
  <2>1. s # {}
    BY FS_EmptySet
  <2>2. Chosen(s) \in s /\ Chosen(s) \in D
    BY <1>1, <2>1
  <2>3. s \ {Chosen(s)} \in SUBSET D /\ Cardinality(s \ {Chosen(s)}) = n
    BY <2>2, SubsetsFinite
  <2>4. iter1[s \ {Chosen(s)}] = iter2[s \ {Chosen(s)}]
    BY <1>4, <2>3
  <2>5. w1[Chosen(s)] = w2[Chosen(s)]
    BY <2>2 DEF AgreeOn
  <2> QED BY <1>2, <2>1, <2>4, <2>5
<1> HIDE DEF S
<1>5. Nat \subseteq S
  BY <1>3, <1>4, Induction
<1> QED BY <1>5, SubsetsFinite DEF S

\* The order does not matter: any element may be taken out first.
LEMMA SumAnyOrder ==
  ASSUME NEW D, IsFiniteSet(D), NEW w, Weight(w, D), NEW iter, SumsUp(iter, w, D)
  PROVE  \A s \in SUBSET D : /\ iter[s] \in Nat
                             /\ s = {} => iter[s] = 0
                             /\ \A x \in s : iter[s] = w[x] + iter[s \ {x}]
<1> DEFINE P(s) == /\ iter[s] \in Nat
                   /\ \A x \in s : iter[s] = w[x] + iter[s \ {x}] /\ iter[s \ {x}] \in Nat
           S == {n \in Nat : \A s \in SUBSET D : Cardinality(s) = n => P(s)}
<1>1. \A s \in SUBSET D :
        iter[s] = IF s = {} THEN 0 ELSE w[Chosen(s)] + iter[s \ {Chosen(s)}]
  BY DEF SumsUp
<1>2. 0 \in S
  <2>1. \A s \in SUBSET D : Cardinality(s) = 0 => s = {}
    BY SubsetsFinite
  <2>2. \A s \in SUBSET D : s = {} => iter[s] = 0
    BY <1>1
  <2> QED BY <2>1, <2>2
<1>3. ASSUME NEW n \in Nat, n \in S PROVE n + 1 \in S
  <2> SUFFICES ASSUME NEW s \in SUBSET D, Cardinality(s) = n + 1 PROVE P(s)
    OBVIOUS
  <2>1. s # {}
    BY FS_EmptySet
  <2> DEFINE y == Chosen(s)
  <2>2. y \in s
    BY <2>1 DEF Chosen
  <2>3. iter[s] = w[y] + iter[s \ {y}]
    BY <1>1, <2>1
  <2> HIDE DEF y, P
  <2>4. \A x \in s : /\ s \ {x} \in SUBSET D /\ Cardinality(s \ {x}) = n /\ w[x] \in Nat
                     /\ P(s \ {x})
    <3> TAKE x \in s
    <3>1. s \ {x} \in SUBSET D /\ Cardinality(s \ {x}) = n /\ w[x] \in Nat
      BY SubsetsFinite DEF Weight
    <3> QED BY <1>3, <3>1
  <2>5. ASSUME NEW x \in s PROVE iter[s] = w[x] + iter[s \ {x}]
    <3>1. CASE x = y
      BY <2>3, <3>1
    <3>2. CASE x # y
      <4>1. iter[s \ {y}] = w[x] + iter[(s \ {y}) \ {x}]
        BY <2>2, <2>4, <3>2 DEF P
      <4>2. iter[s \ {x}] = w[y] + iter[(s \ {x}) \ {y}]
        BY <2>2, <2>4, <3>2 DEF P
      <4>3. (s \ {x}) \ {y} = (s \ {y}) \ {x}
        OBVIOUS
      <4>4. iter[(s \ {y}) \ {x}] \in Nat
        BY <2>2, <2>4, <3>2 DEF P
      <4>5. w[x] \in Nat /\ w[y] \in Nat
        BY <2>2, <2>4
      <4>6. iter[s \ {x}] = w[y] + iter[(s \ {y}) \ {x}]
        BY <4>2, <4>3
      <4> QED BY <2>3, <4>1, <4>4, <4>5, <4>6
    <3> QED BY <3>1, <3>2
  <2>6. \A x \in s : iter[s \ {x}] \in Nat
    BY <2>4 DEF P
  <2>7. iter[s] \in Nat
    <3>1. iter[s \ {y}] \in Nat /\ w[y] \in Nat
      BY <2>2, <2>4, <2>6
    <3> QED BY <2>3, <3>1
  <2> QED BY <2>5, <2>6, <2>7 DEF P
<1> HIDE DEF S
<1>4. Nat \subseteq S
  BY <1>2, <1>3, Induction
<1>5. \A s \in SUBSET D : P(s)
  BY <1>4, SubsetsFinite DEF S
<1> QED BY <1>1, <1>5 DEF P

\* The sum of w over D.
Total(w, D) == (CHOOSE iter : SumsUp(iter, w, D))[D]

LEMMA TotalIs ==
  ASSUME NEW D, IsFiniteSet(D), NEW w, Weight(w, D)
  PROVE  /\ SumsUp(CHOOSE iter : SumsUp(iter, w, D), w, D)
         /\ \A iter : SumsUp(iter, w, D) => iter[D] = Total(w, D)
<1> DEFINE sums == CHOOSE iter : SumsUp(iter, w, D)
<1>1. SumsUp(sums, w, D)
  BY SumExists
<1>2. sums[D] = Total(w, D)
  BY DEF Total
<1> HIDE DEF sums
<1>3. ASSUME NEW iter, SumsUp(iter, w, D) PROVE iter[D] = sums[D]
  <2>1. D \subseteq D /\ D \in SUBSET D /\ AgreeOn(D, w, w)
    BY DEF AgreeOn
  <2>2. \A s \in SUBSET D : iter[s] = sums[s]
    BY <1>1, <1>3, <2>1, SumsAgree
  <2> QED BY <2>1, <2>2
<1> QED BY <1>1, <1>2, <1>3 DEF sums

LEMMA TotalEmpty ==
  ASSUME NEW w, Weight(w, {})
  PROVE  Total(w, {}) = 0
<1>1. PICK iter : SumsUp(iter, w, {}) /\ iter[{}] = Total(w, {})
  BY TotalIs, FS_EmptySet
<1>2. iter[{}] = 0
  BY <1>1 DEF SumsUp
<1> QED BY <1>1, <1>2

\* The sum is a natural number, and every summand is a part of it.
LEMMA TotalType ==
  ASSUME NEW D, IsFiniteSet(D), NEW w, Weight(w, D)
  PROVE  Total(w, D) \in Nat /\ \A x \in D : w[x] <= Total(w, D)
<1>1. PICK iter : SumsUp(iter, w, D) /\ iter[D] = Total(w, D)
  BY TotalIs
<1>2. iter[D] \in Nat /\ \A x \in D : iter[D] = w[x] + iter[D \ {x}] /\ iter[D \ {x}] \in Nat
  <2>1. D \in SUBSET D /\ \A x \in D : D \ {x} \in SUBSET D
    OBVIOUS
  <2> QED BY <1>1, <2>1, SumAnyOrder
<1>3. ASSUME NEW x \in D PROVE w[x] <= iter[D]
  <2>1. iter[D] = w[x] + iter[D \ {x}] /\ iter[D \ {x}] \in Nat /\ w[x] \in Nat
    BY <1>2 DEF Weight
  <2> QED BY <2>1
<1> QED BY <1>1, <1>2, <1>3

\* One more summand.
LEMMA TotalAdd ==
  ASSUME NEW E, IsFiniteSet(E), NEW x \in E, NEW D, D = E \ {x},
         NEW w1, NEW w2, Weight(w1, D), Weight(w2, E), AgreeOn(D, w1, w2)
  PROVE  Total(w2, E) = Total(w1, D) + w2[x]
<1>1. IsFiniteSet(D) /\ D \in SUBSET E /\ D \in SUBSET D /\ E \in SUBSET E
  BY FS_RemoveElement
<1>2. PICK iter1 : SumsUp(iter1, w1, D) /\ iter1[D] = Total(w1, D)
  BY <1>1, TotalIs
<1>3. PICK iter2 : SumsUp(iter2, w2, E) /\ iter2[E] = Total(w2, E)
  BY TotalIs
<1>4. iter1[D] = iter2[D]
  <2>1. D \subseteq D /\ D \subseteq E
    BY <1>1
  <2>2. SumsUp(iter1, w1, D) /\ SumsUp(iter2, w2, E)
    BY <1>2, <1>3
  <2>3. \A s \in SUBSET D : iter1[s] = iter2[s]
    BY <1>1, <2>1, <2>2, SumsAgree
  <2> QED BY <1>1, <2>3
<1>5. \A s \in SUBSET E : /\ iter2[s] \in Nat
                          /\ \A y \in s : iter2[s] = w2[y] + iter2[s \ {y}]
  <2>1. SumsUp(iter2, w2, E)
    BY <1>3
  <2> QED BY <2>1, SumAnyOrder
<1>6. iter2[E] = w2[x] + iter2[D] /\ iter2[D] \in Nat /\ w2[x] \in Nat
  BY <1>1, <1>5 DEF Weight
<1> QED BY <1>2, <1>3, <1>4, <1>6

-----------------------------------------------------------------------------
\* The function behind FlattenSeq: what the first i sequences of s give, joined.
JoinsUp(join, s) ==
  join = [i \in 1..Len(s) |-> IF i = 1 THEN s[i] ELSE join[i - 1] \o s[i]]

LEMMA JoinExists ==
  ASSUME NEW T, NEW s \in Seq(Seq(T)), s # <<>>
  PROVE  \E join : JoinsUp(join, s) /\ \A i \in 1..Len(s) : join[i] \in Seq(T)
<1> DEFINE S == Seq(T)
           base == s[1]
           more(n, x) == IF n + 2 \in 1..Len(s) THEN x \o s[n + 2] ELSE x
           step == [n \in Nat |-> [x \in S |-> more(n, x)]]
<1>1. Len(s) \in Nat /\ Len(s) >= 1 /\ \A i \in 1..Len(s) : s[i] \in S
  OBVIOUS
<1>2. \A n \in Nat, x \in S : more(n, x) \in S
  BY <1>1
<1>3. base \in S /\ step \in [Nat -> [S -> S]] /\ \A n \in Nat, x \in S : step[n][x] = more(n, x)
  BY <1>1, <1>2
<1>4. PICK f : Recurses(f, S, base, step)
  <2>1. base \in S /\ step \in [Nat -> [S -> S]]
    BY <1>3
  <2> HIDE DEF base, step, S
  <2> QED BY <2>1, RecursionExists
<1>5. f \in [Nat -> S] /\ f[0] = base /\ \A n \in Nat : f[n + 1] = step[n][f[n]]
  <2> HIDE DEF base, step, S
  <2> QED BY <1>4 DEF Recurses
<1>6. \A n \in Nat : f[n] \in S /\ f[n + 1] = more(n, f[n])
  <2> HIDE DEF base, step, S, more
  <2> QED BY <1>3, <1>5
<1> DEFINE join == [i \in 1..Len(s) |-> f[i - 1]]
<1>7. ASSUME NEW i \in 1..Len(s)
      PROVE  join[i] \in S /\ join[i] = IF i = 1 THEN s[i] ELSE join[i - 1] \o s[i]
  <2>1. CASE i = 1
    <3>1. join[1] = f[0] /\ f[0] = s[1]
      BY <1>1, <1>5
    <3> QED BY <1>1, <2>1, <3>1
  <2>2. CASE i # 1
    <3> DEFINE n == i - 2
    <3>1. n \in Nat /\ n + 1 = i - 1 /\ n + 2 = i /\ i - 1 \in 1..Len(s) /\ (i - 1) - 1 = n
      BY <1>1, <2>2
    <3>2. join[i] = f[n + 1] /\ join[i - 1] = f[n]
      BY <3>1
    <3>3. f[n + 1] = f[n] \o s[i] /\ f[n + 1] \in S
      <4>1. more(n, f[n]) = f[n] \o s[i]
        BY <3>1
      <4> HIDE DEF n, S, more
      <4>2. f[n + 1] = more(n, f[n]) /\ n + 1 \in Nat
        BY <1>6, <3>1
      <4>3. f[n + 1] \in S
        BY <1>6, <4>2
      <4> QED BY <4>1, <4>2, <4>3
    <3> QED BY <2>2, <3>2, <3>3
  <2> QED BY <2>1, <2>2
<1>8. JoinsUp(join, s)
  <2>1. join = [i \in 1..Len(s) |-> join[i]]
    OBVIOUS
  <2> HIDE DEF join
  <2> QED BY <1>7, <2>1, Zenon DEF JoinsUp
<1> HIDE DEF join
<1> QED BY <1>7, <1>8

LEMMA JoinsAgree ==
  ASSUME NEW s, NEW r, NEW f, NEW g, Len(s) \in Nat, Len(r) \in Nat, Len(s) <= Len(r),
         JoinsUp(f, s), JoinsUp(g, r), AgreeOn(1..Len(s), s, r)
  PROVE  \A i \in 1..Len(s) : f[i] = g[i]
<1> DEFINE S == {n \in Nat : n \in 1..Len(s) => f[n] = g[n]}
<1>1. 0 \in S
  OBVIOUS
<1>2. ASSUME NEW n \in Nat, n \in S PROVE n + 1 \in S
  <2> SUFFICES ASSUME n + 1 \in 1..Len(s) PROVE f[n + 1] = g[n + 1]
    OBVIOUS
  <2> DEFINE m == n + 1
  <2>1. m \in 1..Len(s) /\ m \in 1..Len(r) /\ m - 1 = n /\ (m # 1 => n \in 1..Len(s))
    OBVIOUS
  <2> HIDE DEF m
  <2>2. /\ f[m] = IF m = 1 THEN s[m] ELSE f[m - 1] \o s[m]
        /\ g[m] = IF m = 1 THEN r[m] ELSE g[m - 1] \o r[m]
    BY <2>1 DEF JoinsUp
  <2>3. m # 1 => f[n] = g[n]
    BY <1>2, <2>1
  <2>4. f[m] = g[m]
    BY <2>1, <2>2, <2>3 DEF AgreeOn
  <2> QED BY <2>4 DEF m
<1> HIDE DEF S
<1>3. Nat \subseteq S
  BY <1>1, <1>2, Induction
<1> QED BY <1>3 DEF S

LEMMA FlattenJoins ==
  ASSUME NEW T, NEW s \in Seq(Seq(T)), s # <<>>
  PROVE  \E join : /\ JoinsUp(join, s) /\ FlattenSeq(s) = join[Len(s)]
                   /\ FlattenSeq(s) \in Seq(T)
<1> DEFINE join == CHOOSE g : g = [i \in 1..Len(s) |-> IF i = 1 THEN s[i] ELSE g[i - 1] \o s[i]]
<1>1. Len(s) # 0 /\ Len(s) \in Nat
  OBVIOUS
<1>2. FlattenSeq(s) = join[Len(s)]
  BY <1>1, Zenon DEF FlattenSeq
<1>3. PICK f : JoinsUp(f, s) /\ \A i \in 1..Len(s) : f[i] \in Seq(T)
  BY JoinExists
<1>4. \E g : g = [i \in 1..Len(s) |-> IF i = 1 THEN s[i] ELSE g[i - 1] \o s[i]]
  BY <1>3, Zenon DEF JoinsUp
<1>5. JoinsUp(join, s)
  BY <1>4, Zenon DEF JoinsUp
<1> HIDE DEF join
<1>6. \A i \in 1..Len(s) : join[i] = f[i]
  <2>1. AgreeOn(1..Len(s), s, s)
    BY DEF AgreeOn
  <2>2. Len(s) <= Len(s)
    BY <1>1
  <2>3. JoinsUp(join, s) /\ JoinsUp(f, s) /\ Len(s) \in Nat
    BY <1>1, <1>3, <1>5
  <2> QED BY <2>1, <2>2, <2>3, JoinsAgree, SMTT(30)
<1>7. Len(s) \in 1..Len(s)
  BY <1>1
<1> QED BY <1>2, <1>3, <1>5, <1>6, <1>7

LEMMA FlattenEmpty == FlattenSeq(<<>>) = <<>>
BY DEF FlattenSeq

LEMMA FlattenType ==
  ASSUME NEW T, NEW s \in Seq(Seq(T))
  PROVE  FlattenSeq(s) \in Seq(T)
<1>1. CASE s = <<>>
  <2>1. FlattenSeq(s) = <<>>
    BY <1>1, FlattenEmpty, Zenon
  <2> QED BY <2>1
<1>2. CASE s # <<>>
  BY <1>2, FlattenJoins
<1> QED BY <1>1, <1>2

\* One more sequence goes to the end.
LEMMA FlattenAppend ==
  ASSUME NEW T, NEW s \in Seq(Seq(T)), NEW e \in Seq(T)
  PROVE  FlattenSeq(Append(s, e)) = FlattenSeq(s) \o e
<1> DEFINE r == Append(s, e)
<1>1. /\ r \in Seq(Seq(T)) /\ r # <<>> /\ Len(r) = Len(s) + 1 /\ r[Len(r)] = e
      /\ \A i \in 1..Len(s) : s[i] = r[i]
  <2> DEFINE S == Seq(T)
  <2>1. r \in Seq(Seq(T)) /\ Len(r) = Len(s) + 1 /\ Len(s) \in Nat
    <3>1. s \in Seq(S) /\ e \in S
      OBVIOUS
    <3> HIDE DEF S
    <3>2. r \in Seq(S) /\ Len(r) = Len(s) + 1 /\ Len(s) \in Nat
      BY <3>1, SMTT(30)
    <3> HIDE DEF r
    <3> QED BY <3>2, Zenon DEF S
  <2>2. r # <<>>
    <3> HIDE DEF r, S
    <3> QED BY <2>1, SMTT(30)
  <2>3. r[Len(s) + 1] = e /\ \A i \in 1..Len(s) : s[i] = r[i]
    <3>1. s \in Seq(S) /\ e \in S
      OBVIOUS
    <3> HIDE DEF S
    <3> QED BY <3>1
  <2> HIDE DEF r
  <2> QED BY <2>1, <2>2, <2>3
<1>2. Len(s) \in Nat /\ Len(r) \in Nat /\ Len(s) <= Len(r) /\ Len(r) \in 1..Len(r)
  BY <1>1
<1> HIDE DEF r
<1>3. PICK g : JoinsUp(g, r) /\ FlattenSeq(r) = g[Len(r)]
  BY <1>1, FlattenJoins
<1>4. g[Len(r)] = IF Len(r) = 1 THEN r[Len(r)] ELSE g[Len(r) - 1] \o r[Len(r)]
  BY <1>2, <1>3 DEF JoinsUp
<1>5. CASE s = <<>>
  <2>1. Len(r) = 1 /\ FlattenSeq(s) = <<>>
    BY <1>1, <1>5, FlattenEmpty
  <2>2. <<>> \o e = e
    OBVIOUS
  <2> QED BY <1>1, <1>3, <1>4, <2>1, <2>2 DEF r
<1>6. CASE s # <<>>
  <2>1. PICK f : JoinsUp(f, s) /\ FlattenSeq(s) = f[Len(s)]
    BY <1>6, FlattenJoins
  <2>2. Len(s) \in 1..Len(s) /\ Len(r) # 1 /\ Len(r) - 1 = Len(s)
    BY <1>1, <1>2, <1>6
  <2>3. \A i \in 1..Len(s) : f[i] = g[i]
    <3>1. AgreeOn(1..Len(s), s, r)
      BY <1>1 DEF AgreeOn
    <3> QED BY <1>2, <1>3, <2>1, <3>1, JoinsAgree
  <2> QED BY <1>1, <1>3, <1>4, <2>1, <2>2, <2>3 DEF r
<1> QED BY <1>5, <1>6

\* An element more at the end of what is joined.
AppendsLast(a, b, e) == a \o Append(b, e) = Append(a \o b, e)
LEMMA ConcatAppend ==
  ASSUME NEW S, NEW a, NEW b, NEW e, a \in Seq(S), b \in Seq(S), e \in S
  PROVE  AppendsLast(a, b, e)
<1>1. a \o b \in Seq(S) /\ <<e>> \in Seq(S)
  BY ConcatProperties
<1>2. Append(b, e) = b \o <<e>> /\ Append(a \o b, e) = (a \o b) \o <<e>>
  BY <1>1, AppendIsConcat
<1>3. (a \o b) \o <<e>> = a \o (b \o <<e>>)
  BY <1>1, ConcatAssociative
<1> QED BY <1>2, <1>3 DEF AppendsLast

-----------------------------------------------------------------------------
\* The first n of the sequences g[1], g[2], ... joined.
Joined(g, n) == FlattenSeq([k \in 1..n |-> g[k]])
JoinIn(g, n, T) == n \in Nat /\ \A k \in 1..n : g[k] \in Seq(T)

LEMMA JoinedNone ==
  ASSUME NEW g
  PROVE  Joined(g, 0) = <<>>
<1>1. [k \in 1..0 |-> g[k]] = <<>>
  OBVIOUS
<1> QED BY <1>1, FlattenEmpty DEF Joined

LEMMA JoinedType ==
  ASSUME NEW g, NEW n, NEW T, JoinIn(g, n, T)
  PROVE  Joined(g, n) \in Seq(T)
<1> DEFINE S == Seq(T)
           h == [k \in 1..n |-> g[k]]
<1>1. n \in Nat /\ h \in [1..n -> S]
  BY DEF JoinIn
<1> HIDE DEF S, h
<1>2. h \in Seq(S)
  BY <1>1
<1>3. FlattenSeq(h) \in Seq(T)
  BY <1>2, FlattenType DEF S
<1> QED BY <1>3 DEF Joined, h

LEMMA JoinedMore ==
  ASSUME NEW g, NEW n, NEW T, JoinIn(g, n + 1, T), n \in Nat
  PROVE  Joined(g, n + 1) = Joined(g, n) \o g[n + 1] /\ JoinIn(g, n, T)
<1> DEFINE S == Seq(T)
           h == [k \in 1..n |-> g[k]]
           r == [k \in 1..(n + 1) |-> g[k]]
           e == g[n + 1]
<1>1. h \in [1..n -> S] /\ e \in S /\ JoinIn(g, n, T) /\ n \in Nat
  BY DEF JoinIn
<1>2. h \in Seq(S) /\ Len(h) = n /\ e \in Seq(T)
  <2>1. e \in Seq(T)
    BY <1>1
  <2> HIDE DEF S, h, e
  <2>2. h \in Seq(S) /\ Len(h) = n
    BY <1>1
  <2> QED BY <2>1, <2>2
<1>3. Append(h, e) = r
  <2> DEFINE q == Append(h, e)
  <2>1. /\ \A k \in 1..(n + 1) : k \in 1..n \/ k = n + 1
        /\ \A k \in 1..n : h[k] = g[k]
    BY <1>1
  <2>2. q = [k \in 1..(n + 1) |-> q[k]] /\ q[n + 1] = e /\ \A k \in 1..n : q[k] = h[k]
    <3> HIDE DEF S, h, e
    <3>1. q \in Seq(S) /\ Len(q) = n + 1
      BY <1>1, <1>2
    <3>2. q[n + 1] = e /\ \A k \in 1..n : q[k] = h[k]
      BY <1>1, <1>2
    <3> HIDE DEF q
    <3>3. q = [k \in 1..(n + 1) |-> q[k]]
      BY <1>1, <3>1
    <3> QED BY <3>2, <3>3
  <2> HIDE DEF q, h
  <2>3. \A k \in 1..(n + 1) : q[k] = g[k]
    BY <2>1, <2>2
  <2>4. q = r
    BY <2>2, <2>3
  <2> QED BY <2>4 DEF q, h
<1>4. FlattenSeq(Append(h, e)) = FlattenSeq(h) \o e
  <2>1. h \in Seq(Seq(T)) /\ e \in Seq(T)
    BY <1>2
  <2> HIDE DEF h, e
  <2> QED BY <2>1, FlattenAppend
<1> QED BY <1>1, <1>3, <1>4 DEF Joined

\* Sequences of two, and with an empty part.
JoinTwo(a, b) == <<a>> \o <<b>> = <<a, b>> /\ <<>> \o <<b>> = <<b>>
LEMMA TwoElements ==
  ASSUME NEW S, NEW a, NEW b, a \in S, b \in S
  PROVE  /\ JoinTwo(a, b)
         /\ <<>> \in Seq(S) /\ <<a>> \in Seq(S) /\ <<a, b>> \in Seq(S)
<1>1. <<a>> \in Seq(S) /\ <<b>> \in Seq(S)
  OBVIOUS
<1>2. Append(<<a>>, b) = <<a>> \o <<b>>
  BY <1>1, AppendIsConcat
<1>3. Append(<<a>>, b) = <<a, b>>
  <2>1. <<a, b>> \in Seq(S) /\ Append(<<a>>, b) \in Seq(S)
    OBVIOUS
  <2>2. Len(<<a, b>>) = 2 /\ Len(Append(<<a>>, b)) = 2
    OBVIOUS
  <2>3. \A i \in 1..2 : <<a, b>>[i] = Append(<<a>>, b)[i]
    OBVIOUS
  <2> QED BY <2>1, <2>2, <2>3, SeqEqual
<1>4. <<>> \o <<b>> = <<b>>
  OBVIOUS
<1>5. <<>> \in Seq(S) /\ <<a, b>> \in Seq(S)
  OBVIOUS
<1> QED BY <1>1, <1>2, <1>3, <1>4, <1>5, Zenon DEF JoinTwo

\* Concatenation is associative, for sequences whose element type is known.
Associates(u, v, w) == (u \o v) \o w = u \o (v \o w)
LEMMA Regroup ==
  ASSUME NEW T, NEW u, NEW v, NEW w, u \in Seq(T), v \in Seq(T), w \in Seq(T)
  PROVE  Associates(u, v, w)
BY ConcatAssociative, SMTT(30) DEF Associates

LEMMA Joining ==
  ASSUME NEW T, NEW u, NEW v, u \in Seq(T), v \in Seq(T)
  PROVE  u \o v \in Seq(T) /\ u \o <<>> = u /\ <<>> \o u = u
BY ConcatProperties, ConcatEmptySeq, Zenon

\* u \o ((c1 \o s) \o c2) \o x, regrouped from the left.
AllRegrouped(u, c1, s, c2, x) == (u \o ((c1 \o s) \o c2)) \o x = (((u \o c1) \o s) \o c2) \o x
LEMMA RegroupFour ==
  ASSUME NEW T, NEW u, NEW c1, NEW s, NEW c2, NEW x, u \in Seq(T), c1 \in Seq(T),
         s \in Seq(T), c2 \in Seq(T)
  PROVE  AllRegrouped(u, c1, s, c2, x)
<1>1. c1 \o s \in Seq(T)
  BY Joining, Zenon
<1>2. Associates(u, c1 \o s, c2)
  BY <1>1, Regroup, Zenon
<1>3. Associates(u, c1, s)
  BY Regroup, Zenon
<1> QED BY <1>2, <1>3, Zenon DEF Associates, AllRegrouped
=============================================================================

---------------------------- MODULE NumberLemmas ----------------------------
(***************************************************************************)
(* Least and greatest elements, for the proofs about the machines: a CHOOSE *)
(* over a set of numbers names one only if there is one.  And sums: a      *)
(* recursive definition names a function only if one fits it.              *)
(***************************************************************************)
EXTENDS Integers, FiniteSets, WellFoundedInduction, TLAPS

\* A set of numbers has a least element: no induction but on that "less" is well-founded.
LEMMA LeastOf == ASSUME NEW S \in SUBSET Nat, S # {} PROVE \E m \in S : \A x \in S : m <= x
<1> DEFINE R == OpToRel(<, Nat)
<1>1. IsWellFoundedOn(R, Nat) BY NatLessThanWellFounded
<1>2. \A x, y \in Nat : x < y => <<x, y>> \in R BY DEF OpToRel
<1> HIDE DEF R
<1>3. PICK m \in S : \A y \in S : ~(<<y, m>> \in R) BY <1>1, WFMin, Zenon
<1>4. \A x \in S : m <= x
  <2>1. SUFFICES ASSUME NEW x \in S PROVE m <= x OBVIOUS
  <2>2. ~(x < m) BY <1>2, <1>3
  <2>3. QED BY <2>2
<1>5. QED BY <1>4

\* A bounded one has a greatest.
LEMMA GreatestOf ==
    ASSUME NEW n \in Nat, NEW S \in SUBSET (1 .. n), S # {}
    PROVE  \E m \in S : \A x \in S : x <= m
<1> DEFINE Below == {n - x : x \in S}
<1>1. Below \in SUBSET Nat /\ Below # {}
  <2>1. \A x \in S : n - x \in Nat OBVIOUS
  <2>2. QED BY <2>1
<1> HIDE DEF Below
<1>2. PICK b \in Below : \A y \in Below : b <= y BY <1>1, LeastOf
<1>3. PICK m \in S : b = n - m BY DEF Below
<1>4. \A x \in S : x <= m
  <2>1. SUFFICES ASSUME NEW x \in S PROVE x <= m OBVIOUS
  <2>2. n - x \in Below BY DEF Below
  <2>3. b <= n - x BY <1>2, <2>2
  <2>4. QED BY <1>3, <2>3
<1>5. QED BY <1>4

\* Of finitely many rows one has the greatest figure: the first prefix of rows without
\* one would be one row longer than a prefix that has it.
LEMMA GreatestValue ==
    ASSUME NEW n \in Nat, NEW f \in [1 .. n -> Nat], NEW S \in SUBSET (1 .. n), S # {}
    PROVE  \E m \in S : \A x \in S : f[x] <= f[m]
<1> DEFINE Top(T) == \E m \in T : \A x \in T : f[x] <= f[m]
           Bad == {b \in 0 .. n : \E T \in SUBSET (1 .. b) : T # {} /\ ~Top(T)}
<1>1. SUFFICES ASSUME Bad # {} PROVE FALSE
  <2>1. n \in 0 .. n OBVIOUS
  <2>2. ASSUME Bad = {} PROVE Top(S) BY <2>1, <2>2
  <2>3. QED BY <2>2
<1>2. Bad \in SUBSET Nat OBVIOUS
<1>3. PICK b \in Bad : \A y \in Bad : b <= y
  <2> HIDE DEF Bad
  <2>1. QED BY <1>1, <1>2, LeastOf
<1>4. PICK T \in SUBSET (1 .. b) : T # {} /\ ~Top(T) OBVIOUS
<1>5. b \in 1 .. n
  <2>1. PICK x \in T : TRUE BY <1>4
  <2>2. x \in 1 .. b /\ b \in 0 .. n OBVIOUS
  <2>3. QED BY <2>2
<1>6. b - 1 \in 0 .. n /\ ~(b <= b - 1) BY <1>5
<1>7. b - 1 \notin Bad BY <1>3, <1>6
<1>8. T \ {b} \in SUBSET (1 .. b - 1) BY <1>5
<1>9. T \ {b} = {} \/ Top(T \ {b}) BY <1>6, <1>7, <1>8
<1>10. \A x \in T : f[x] \in Nat BY <1>5
<1>11. CASE T \ {b} = {}
  <2>1. T = {b} BY <1>4, <1>11
  <2>2. f[b] <= f[b] BY <1>5
  <2>3. Top(T) BY <2>1, <2>2
  <2>4. QED BY <1>4, <2>3
<1>12. CASE Top(T \ {b}) /\ T \ {b} # {}
  <2>1. PICK m \in T \ {b} : \A x \in T \ {b} : f[x] <= f[m] BY <1>12
  <2>2. CASE b \in T /\ f[m] <= f[b]
    <3>1. \A x \in T : f[x] <= f[b] BY <1>10, <2>1, <2>2
    <3>2. QED BY <1>4, <2>2, <3>1
  <2>3. CASE ~(b \in T /\ f[m] <= f[b])
    <3>1. \A x \in T : f[x] <= f[m] BY <1>10, <2>1, <2>3
    <3>2. QED BY <1>4, <2>1, <3>1
  <2>4. QED BY <2>2, <2>3
<1>13. QED BY <1>9, <1>11, <1>12

\* g adds up the first n figures of d, one by one.
Adds(g, d, n) == g[0] = 0 /\ \A m \in 1 .. n : g[m] = g[m - 1] + d[m - 1]

\* The sums of one figure less are among those of all.
LEMMA AddsOnce ==
    ASSUME NEW d \in [Nat -> Int], NEW n \in Nat \ {0},
           NEW g \in [0 .. n -> Int], NEW h \in [0 .. n - 1 -> Int], Adds(g, d, n), Adds(h, d, n - 1)
    PROVE  g[n - 1] = h[n - 1]
<1> DEFINE Differ == {m \in 0 .. n - 1 : g[m] # h[m]}
<1>1. SUFFICES ASSUME Differ # {} PROVE FALSE
  <2>1. n - 1 \in 0 .. n - 1 OBVIOUS
  <2>2. QED BY <2>1
<1>2. PICK m \in Differ : \A x \in Differ : m <= x
  <2>1. Differ \in SUBSET Nat OBVIOUS
  <2> HIDE DEF Differ
  <2>2. QED BY <1>1, <2>1, LeastOf
<1>3. m \in 0 .. n - 1 /\ g[m] # h[m] OBVIOUS
<1>4. m \in 1 .. n - 1 /\ m \in 1 .. n BY <1>3 DEF Adds
<1>5. m - 1 \in 0 .. n - 1 /\ ~(m <= m - 1) BY <1>4
<1>6. g[m - 1] = h[m - 1] BY <1>2, <1>5
<1>7. g[m] = g[m - 1] + d[m - 1] /\ h[m] = h[m - 1] + d[m - 1] BY <1>4 DEF Adds
<1>8. QED BY <1>3, <1>6, <1>7

\* However many figures there are, they have sums: the first number of them that had none
\* would be one more than a number that has.
LEMMA AddsSome ==
    ASSUME NEW d \in [Nat -> Int], NEW n \in Nat
    PROVE  \E g \in [0 .. n -> Int] : Adds(g, d, n)
<1> DEFINE Bad == {k \in Nat : ~\E g \in [0 .. k -> Int] : Adds(g, d, k)}
<1>1. SUFFICES ASSUME Bad # {} PROVE FALSE OBVIOUS
<1>2. PICK k \in Bad : \A x \in Bad : k <= x
  <2>1. Bad \in SUBSET Nat OBVIOUS
  <2> HIDE DEF Bad
  <2>2. QED BY <1>1, <2>1, LeastOf
<1>3. k \in Nat /\ ~\E g \in [0 .. k -> Int] : Adds(g, d, k) OBVIOUS
<1>4. k # 0
  <2> DEFINE g == [m \in 0 .. 0 |-> 0]
  <2>1. g \in [0 .. 0 -> Int] /\ g[0] = 0 OBVIOUS
  <2> HIDE DEF g
  <2>2. 1 .. 0 = {} OBVIOUS
  <2>3. Adds(g, d, 0) BY <2>1, <2>2 DEF Adds
  <2>4. QED BY <1>3, <2>1, <2>3
<1>5. k - 1 \in Nat /\ ~(k <= k - 1) BY <1>3, <1>4
<1>6. PICK h \in [0 .. k - 1 -> Int] : Adds(h, d, k - 1)
  <2>1. k - 1 \notin Bad BY <1>2, <1>5
  <2>2. QED BY <1>5, <2>1
<1> HIDE DEF Bad
<1> DEFINE g == [m \in 0 .. k |-> IF m < k THEN h[m] ELSE h[k - 1] + d[k - 1]]
<1>7. \A m \in 0 .. k : m < k => m \in 0 .. k - 1 BY <1>3
<1>8. g \in [0 .. k -> Int] /\ (\A m \in 0 .. k - 1 : g[m] = h[m]) /\ g[k] = h[k - 1] + d[k - 1]
  <2>1. k - 1 \in 0 .. k - 1 /\ k \in 0 .. k /\ ~(k < k) BY <1>3, <1>5
  <2>2. h[k - 1] + d[k - 1] \in Int BY <1>5, <2>1
  <2>3. g \in [0 .. k -> Int] BY <1>7, <2>2
  <2>4. \A m \in 0 .. k - 1 : m \in 0 .. k /\ m < k BY <1>3
  <2>5. QED BY <2>1, <2>3, <2>4
<1> HIDE DEF g
<1>9. Adds(g, d, k)
  <2>1. g[0] = 0
    <3>1. 0 \in 0 .. k - 1 BY <1>5
    <3>2. QED BY <1>6, <1>8, <3>1 DEF Adds
  <2>2. ASSUME NEW m \in 1 .. k PROVE g[m] = g[m - 1] + d[m - 1]
    <3>1. m - 1 \in 0 .. k - 1 BY <1>3
    <3>2. CASE m = k BY <1>8, <3>1, <3>2
    <3>3. CASE m # k
      <4>1. m \in 1 .. k - 1 /\ m \in 0 .. k - 1 BY <1>3, <3>3
      <4>2. QED BY <1>6, <1>8, <3>1, <4>1 DEF Adds
    <3>4. QED BY <3>2, <3>3
  <2>3. QED BY <2>1, <2>2 DEF Adds
<1>10. QED BY <1>3, <1>8, <1>9

\* The recursive function that adds up all figures exists.
LEMMA Sums ==
    ASSUME NEW d \in [Nat -> Int]
    PROVE  \E g \in [Nat -> Int] : g = [m \in Nat |-> IF m = 0 THEN 0 ELSE g[m - 1] + d[m - 1]]
<1> DEFINE Some(n) == CHOOSE g \in [0 .. n -> Int] : Adds(g, d, n)
           g == [n \in Nat |-> Some(n)[n]]
<1>1. ASSUME NEW n \in Nat PROVE Some(n) \in [0 .. n -> Int] /\ Adds(Some(n), d, n) BY AddsSome
<1> HIDE DEF Some
<1>2. g \in [Nat -> Int]
  <2>1. ASSUME NEW n \in Nat PROVE Some(n)[n] \in Int
    <3>1. n \in 0 .. n OBVIOUS
    <3>2. QED BY <1>1, <3>1
  <2>2. QED BY <2>1
<1>3. \A n \in Nat : g[n] = Some(n)[n] OBVIOUS
<1> HIDE DEF g
<1>4. g[0] = 0 BY <1>1, <1>3 DEF Adds
<1>5. ASSUME NEW m \in Nat \ {0} PROVE g[m] = g[m - 1] + d[m - 1]
  <2>1. m - 1 \in Nat /\ m - 1 <= m /\ m \in 1 .. m OBVIOUS
  <2>2. Some(m)[m] = Some(m)[m - 1] + d[m - 1] BY <1>1, <2>1 DEF Adds
  <2>3. Some(m)[m - 1] = Some(m - 1)[m - 1]
    <3>1. Some(m) \in [0 .. m -> Int] /\ Adds(Some(m), d, m) BY <1>1
    <3>2. Some(m - 1) \in [0 .. m - 1 -> Int] /\ Adds(Some(m - 1), d, m - 1) BY <1>1, <2>1
    <3>3. QED BY <3>1, <3>2, AddsOnce
  <2>4. QED BY <1>3, <2>1, <2>2, <2>3
<1>6. \A m \in Nat : g[m] = IF m = 0 THEN 0 ELSE g[m - 1] + d[m - 1] BY <1>4, <1>5
<1>7. g = [m \in Nat |-> IF m = 0 THEN 0 ELSE g[m - 1] + d[m - 1]] BY <1>2, <1>6
<1>8. QED BY <1>2, <1>7
=============================================================================

----------------------------- MODULE SumProofs -----------------------------
(***************************************************************************)
(* What is computed by recursion over the places of a sequence.  That a    *)
(* recursion has a solution, and that a fact holds up to every place, is   *)
(* proved by the least place at which it would not.                        *)
(***************************************************************************)
EXTENDS Sums, WellFoundedInduction, TLAPS

(* A set of numbers has a least one. *)
LEMMA LeastExists ==
  ASSUME NEW T \in SUBSET Nat, T # {}
  PROVE  \E x \in T : \A y \in T : x <= y
  <1> DEFINE Less == OpToRel(<, Nat)
  <1>1. \A x, y \in Nat : <<x, y>> \in Less <=> x < y
    BY DEF OpToRel
  <1>2. IsWellFoundedOn(Less, Nat)
    BY NatLessThanWellFounded, Zenon
  <1> HIDE DEF Less
  <1>3. PICK x \in T : \A y \in T : ~(<<y, x>> \in Less)
    BY <1>2, WFMin
  <1>4. ASSUME NEW y \in T PROVE x <= y
    <2>1. x \in Nat /\ y \in Nat /\ ~(<<y, x>> \in Less)
      BY <1>3
    <2>2. ~(y < x)
      BY <1>1, <2>1
    <2> QED
      BY <2>1, <2>2
  <1> QED
    BY <1>4

(* Induction over positions, for a set of them in place of a predicate.    *)
LEMMA UpToAll ==
  ASSUME NEW n \in Nat, NEW good, 0 \in good, \A i \in 1..n : i - 1 \in good => i \in good
  PROVE  \A i \in 0..n : i \in good
  <1> DEFINE T == {i \in Nat : i <= n /\ i \notin good}
  <1> SUFFICES ASSUME T # {} PROVE FALSE
    OBVIOUS
  <1>1. PICK x \in T : \A y \in T : x <= y
    BY LeastExists
  <1>2. x \in 1..n /\ x - 1 \in Nat
    OBVIOUS
  <1>3. x - 1 \in good
    BY <1>1, <1>2
  <1> QED
    BY <1>2, <1>3

(* A recursion by position has a solution.                                 *)
Recursion(V) ==
    \A n \in Nat : \A base \in V : \A step \in [(1..n) \X V -> V] :
        \E f \in [0..n -> V] : f[0] = base /\ \A i \in 1..n : f[i] = step[<<i, f[i - 1]>>]

LEMMA RecursionExists ==
  ASSUME NEW V
  PROVE  Recursion(V)
  <1> SUFFICES ASSUME NEW n \in Nat, NEW base \in V, NEW step \in [(1..n) \X V -> V]
               PROVE  \E f \in [0..n -> V] :
                         f[0] = base /\ \A i \in 1..n : f[i] = step[<<i, f[i - 1]>>]
    BY DEF Recursion
  <1> DEFINE Solves(f, m) ==
               f \in [0..m -> V] /\ f[0] = base /\ \A i \in 1..m : f[i] = step[<<i, f[i - 1]>>]
             good == {m \in 0..n : \E f : Solves(f, m)}
  <1>1. 0 \in good
    <2>1. Solves([i \in 0..0 |-> base], 0)
      OBVIOUS
    <2> HIDE DEF Solves
    <2> QED
      BY <2>1
  <1>2. ASSUME NEW m \in 1..n, m - 1 \in good PROVE m \in good
    <2>1. PICK f : Solves(f, m - 1)
      BY <1>2
    <2> DEFINE v == step[<<m, f[m - 1]>>]
               g == [i \in 0..m |-> IF i = m THEN v ELSE f[i]]
    <2>2. v \in V
      BY <2>1
    <2> HIDE DEF v
    <2>3. g \in [0..m -> V] /\ g[m] = v /\ \A i \in 0..(m - 1) : g[i] = f[i]
      BY <2>1, <2>2
    <2> HIDE DEF g
    <2>4. \A i \in 1..(m - 1) : g[i] = step[<<i, g[i - 1]>>]
      BY <2>1, <2>3
    <2>5. m - 1 \in 0..(m - 1) /\ g[m] = step[<<m, g[m - 1]>>]
      <3>1. m - 1 \in 0..(m - 1)
        OBVIOUS
      <3> QED
        BY <2>3, <3>1 DEF v
    <2>6. g[0] = base
      BY <2>1, <2>3
    <2>7. \A i \in 1..m : g[i] = step[<<i, g[i - 1]>>]
      <3>1. \A i \in 1..m : i \in 1..(m - 1) \/ i = m
        OBVIOUS
      <3> QED
        BY <2>4, <2>5, <3>1
    <2>8. Solves(g, m)
      BY <2>3, <2>6, <2>7
    <2> HIDE DEF Solves
    <2> QED
      BY <2>8
  <1> HIDE DEF good
  <1>3. \A i \in 0..n : i \in good
    BY <1>1, <1>2, UpToAll
  <1>4. n \in good
    BY <1>3
  <1>5. PICK f : Solves(f, n)
    <2> HIDE DEF Solves
    <2> QED
      BY <1>4 DEF good
  <1> QED
    BY <1>5

LEMMA NumberRecursion ==
  ASSUME NEW n \in Nat, NEW base \in Nat, NEW step \in [(1..n) \X Nat -> Nat]
  PROVE  \E f \in [0..n -> Nat] : f[0] = base /\ \A i \in 1..n : f[i] = step[<<i, f[i - 1]>>]
  <1>1. Recursion(Nat)
    BY RecursionExists
  <1> QED
    BY <1>1 DEF Recursion

(* Sum adds up the members of a sequence of numbers, one after the other.  *)
LEMMA SumIs ==
  ASSUME NEW n \in Nat, NEW s \in [1..n -> Nat]
  PROVE  \E f \in [0..n -> Nat] :
            f[0] = 0 /\ (\A i \in 1..n : f[i] = f[i - 1] + s[i]) /\ Sum(s) = f[n]
  <1> DEFINE Eq(u) == u = [i \in 0..n |-> IF i = 0 THEN 0 ELSE u[i - 1] + s[i]]
             step == [p \in (1..n) \X Nat |-> p[2] + s[p[1]]]
             chosen == CHOOSE u : Eq(u)
  <1>1. Sum(s) = chosen[n]
    <2>1. Len(s) = n
      OBVIOUS
    <2> QED
      BY <2>1, Zenon DEF Sum
  <1>2. step \in [(1..n) \X Nat -> Nat] /\ \A i \in 1..n, x \in Nat : step[<<i, x>>] = x + s[i]
    OBVIOUS
  <1> HIDE DEF step
  <1>3. PICK f \in [0..n -> Nat] : f[0] = 0 /\ \A i \in 1..n : f[i] = step[<<i, f[i - 1]>>]
    <2>1. 0 \in Nat
      OBVIOUS
    <2> QED
      BY <1>2, <2>1, NumberRecursion, Zenon
  <1>4. ASSUME NEW i \in 1..n PROVE f[i] = f[i - 1] + s[i]
    <2>1. f[i - 1] \in Nat
      OBVIOUS
    <2>2. step[<<i, f[i - 1]>>] = f[i - 1] + s[i]
      BY <1>2, <2>1
    <2> QED
      BY <1>3, <2>2
  <1>5. Eq(f)
    BY <1>3, <1>4
  <1>6. Eq(chosen)
    <2> HIDE DEF Eq
    <2> QED
      BY <1>5
  <1> HIDE DEF chosen
  <1>7. chosen[0] = 0 /\ \A i \in 1..n : chosen[i] = chosen[i - 1] + s[i]
    BY <1>6
  <1> DEFINE good == {i \in 0..n : chosen[i] = f[i]}
  <1>8. 0 \in good /\ \A i \in 1..n : i - 1 \in good => i \in good
    BY <1>3, <1>4, <1>7
  <1> HIDE DEF good
  <1>9. \A i \in 0..n : i \in good
    BY <1>8, UpToAll
  <1>10. Sum(s) = f[n]
    BY <1>1, <1>9 DEF good
  <1> QED
    BY <1>3, <1>4, <1>10

LEMMA SumType ==
  ASSUME NEW n \in Nat, NEW s \in [1..n -> Nat]
  PROVE  Sum(s) \in Nat
  BY SumIs

(* One more term.                                                          *)
LEMMA SumStep ==
  ASSUME NEW n \in Nat, NEW s \in [1..n -> Nat], NEW k \in 1..n
  PROVE  Sum([i \in 1..k |-> s[i]]) = Sum([i \in 1..(k - 1) |-> s[i]]) + s[k]
  <1> DEFINE t == [i \in 1..k |-> s[i]]
             u == [i \in 1..(k - 1) |-> s[i]]
  <1>1. /\ k \in Nat /\ k - 1 \in Nat /\ t \in [1..k -> Nat] /\ u \in [1..(k - 1) -> Nat]
        /\ \A i \in 1..(k - 1) : t[i] = u[i] /\ i \in 1..k
        /\ t[k] = s[k]
    OBVIOUS
  <1> HIDE DEF t, u
  <1>2. PICK f \in [0..k -> Nat] :
            f[0] = 0 /\ (\A i \in 1..k : f[i] = f[i - 1] + t[i]) /\ Sum(t) = f[k]
    BY <1>1, SumIs
  <1>3. PICK g \in [0..(k - 1) -> Nat] :
            g[0] = 0 /\ (\A i \in 1..(k - 1) : g[i] = g[i - 1] + u[i]) /\ Sum(u) = g[k - 1]
    BY <1>1, SumIs
  <1> DEFINE good == {i \in 0..(k - 1) : f[i] = g[i]}
  <1>4. 0 \in good
    BY <1>1, <1>2, <1>3
  <1>5. ASSUME NEW i \in 1..(k - 1), i - 1 \in good PROVE i \in good
    BY <1>1, <1>2, <1>3, <1>5
  <1> HIDE DEF good
  <1>6. \A i \in 0..(k - 1) : i \in good
    BY <1>1, <1>4, <1>5, UpToAll
  <1>7. f[k - 1] = g[k - 1]
    BY <1>1, <1>6 DEF good
  <1>8. f[k] = f[k - 1] + t[k]
    BY <1>2
  <1> QED
    BY <1>1, <1>2, <1>3, <1>7, <1>8 DEF t, u

(* Where nothing is above and one member is below, so is the sum.          *)
LEMMA SumLess ==
  ASSUME NEW n \in Nat, NEW s \in [1..n -> Nat], NEW t \in [1..n -> Nat], NEW k \in 1..n,
         \A i \in 1..n : s[i] <= t[i], s[k] < t[k]
  PROVE  Sum(s) < Sum(t)
  <1>1. PICK f \in [0..n -> Nat] :
            f[0] = 0 /\ (\A i \in 1..n : f[i] = f[i - 1] + s[i]) /\ Sum(s) = f[n]
    BY SumIs
  <1>2. PICK g \in [0..n -> Nat] :
            g[0] = 0 /\ (\A i \in 1..n : g[i] = g[i - 1] + t[i]) /\ Sum(t) = g[n]
    BY SumIs
  <1>3. \A a, b, c, d \in Nat : /\ a <= b /\ c <= d => a + c <= b + d
                               /\ a <= b /\ c < d => a + c < b + d
    OBVIOUS
  <1> DEFINE good == {i \in 0..n : f[i] <= g[i] /\ (i >= k => f[i] < g[i])}
  <1>4. 0 \in good
    BY <1>1, <1>2
  <1>5. ASSUME NEW i \in 1..n, i - 1 \in good PROVE i \in good
    <2>1. /\ f[i - 1] \in Nat /\ g[i - 1] \in Nat /\ s[i] \in Nat /\ t[i] \in Nat
          /\ f[i] = f[i - 1] + s[i] /\ g[i] = g[i - 1] + t[i] /\ s[i] <= t[i]
          /\ f[i - 1] <= g[i - 1] /\ (i - 1 >= k => f[i - 1] < g[i - 1])
      BY <1>1, <1>2, <1>5
    <2> HIDE DEF good
    <2>2. f[i] <= g[i]
      <3>1. f[i - 1] + s[i] <= g[i - 1] + t[i]
        BY <2>1, <1>3
      <3> QED
        BY <2>1, <3>1
    <2>3. CASE i = k
      <3>1. f[i] < g[i]
        BY <2>1, <2>3, <1>3
      <3> QED
        BY <2>2, <3>1 DEF good
    <2>4. CASE i > k
      <3>1. i - 1 >= k
        BY <2>4
      <3>2. f[i - 1] < g[i - 1]
        BY <2>1, <3>1
      <3>3. \A a, b, c, d \in Nat : a < b /\ c <= d => a + c < b + d
        OBVIOUS
      <3>4. f[i - 1] + s[i] < g[i - 1] + t[i]
        BY <2>1, <3>2, <3>3
      <3> QED
        BY <2>1, <2>2, <3>4 DEF good
    <2>5. CASE i < k
      BY <2>2, <2>5 DEF good
    <2> QED
      BY <2>3, <2>4, <2>5
  <1> HIDE DEF good
  <1>6. \A i \in 0..n : i \in good
    BY <1>4, <1>5, UpToAll
  <1> QED
    BY <1>1, <1>2, <1>6 DEF good

(* A sum with one member that is not zero, and with none.                  *)
LEMMA SumOne ==
  ASSUME NEW n \in Nat, NEW s \in [1..n -> Nat], NEW k \in 1..n, \A i \in 1..n : i # k => s[i] = 0
  PROVE  Sum(s) = s[k]
  <1>1. PICK f \in [0..n -> Nat] :
            f[0] = 0 /\ (\A i \in 1..n : f[i] = f[i - 1] + s[i]) /\ Sum(s) = f[n]
    BY SumIs
  <1> DEFINE good == {i \in 0..n : f[i] = IF i < k THEN 0 ELSE s[k]}
  <1>2. 0 \in good
    BY <1>1
  <1>3. ASSUME NEW i \in 1..n, i - 1 \in good PROVE i \in good
    <2>1. /\ f[i] = f[i - 1] + s[i] /\ s[i] \in Nat /\ s[k] \in Nat
          /\ f[i - 1] = IF i - 1 < k THEN 0 ELSE s[k]
      BY <1>1, <1>3
    <2>2. CASE i = k
      BY <2>1, <2>2
    <2>3. CASE i > k
      BY <2>1, <2>3
    <2>4. CASE i < k
      BY <2>1, <2>4
    <2> QED
      BY <2>2, <2>3, <2>4
  <1> HIDE DEF good
  <1>4. \A i \in 0..n : i \in good
    BY <1>2, <1>3, UpToAll
  <1> QED
    BY <1>1, <1>4 DEF good

LEMMA SumNone ==
  ASSUME NEW n \in Nat, NEW s \in [1..n -> Nat], \A i \in 1..n : s[i] = 0
  PROVE  Sum(s) = 0
  <1>1. PICK f \in [0..n -> Nat] :
            f[0] = 0 /\ (\A i \in 1..n : f[i] = f[i - 1] + s[i]) /\ Sum(s) = f[n]
    BY SumIs
  <1> DEFINE good == {i \in 0..n : f[i] = 0}
  <1>2. 0 \in good /\ \A i \in 1..n : i - 1 \in good => i \in good
    BY <1>1
  <1> HIDE DEF good
  <1>3. \A i \in 0..n : i \in good
    BY <1>2, UpToAll
  <1> QED
    BY <1>1, <1>3 DEF good

(* Product multiplies the members of a sequence of positive numbers.       *)
LEMMA ProductIs ==
  ASSUME NEW n \in Nat, NEW s \in [1..n -> Nat]
  PROVE  \E f \in [0..n -> Nat] :
            f[0] = 1 /\ (\A i \in 1..n : f[i] = f[i - 1] * s[i]) /\ Product(s) = f[n]
  <1> DEFINE Eq(u) == u = [i \in 0..n |-> IF i = 0 THEN 1 ELSE u[i - 1] * s[i]]
             step == [p \in (1..n) \X Nat |-> p[2] * s[p[1]]]
             chosen == CHOOSE u : Eq(u)
  <1>1. Product(s) = chosen[n]
    <2>1. Len(s) = n
      OBVIOUS
    <2> QED
      BY <2>1, Zenon DEF Product
  <1>2. step \in [(1..n) \X Nat -> Nat] /\ \A i \in 1..n, x \in Nat : step[<<i, x>>] = x * s[i]
    <2>1. \A x, y \in Nat : x * y \in Nat
      OBVIOUS
    <2> QED
      BY <2>1
  <1> HIDE DEF step
  <1>3. PICK f \in [0..n -> Nat] : f[0] = 1 /\ \A i \in 1..n : f[i] = step[<<i, f[i - 1]>>]
    <2>1. 1 \in Nat
      OBVIOUS
    <2> QED
      BY <1>2, <2>1, NumberRecursion, Zenon
  <1>4. ASSUME NEW i \in 1..n PROVE f[i] = f[i - 1] * s[i]
    <2>1. f[i - 1] \in Nat
      OBVIOUS
    <2>2. step[<<i, f[i - 1]>>] = f[i - 1] * s[i]
      BY <1>2, <2>1
    <2> QED
      BY <1>3, <2>2
  <1>5. Eq(f)
    BY <1>3, <1>4
  <1>6. Eq(chosen)
    <2> HIDE DEF Eq
    <2> QED
      BY <1>5
  <1> HIDE DEF chosen
  <1>7. chosen[0] = 1 /\ \A i \in 1..n : chosen[i] = chosen[i - 1] * s[i]
    BY <1>6
  <1> DEFINE good == {i \in 0..n : chosen[i] = f[i]}
  <1>8. 0 \in good /\ \A i \in 1..n : i - 1 \in good => i \in good
    BY <1>3, <1>4, <1>7
  <1> HIDE DEF good
  <1>9. \A i \in 0..n : i \in good
    BY <1>8, UpToAll
  <1>10. Product(s) = f[n]
    BY <1>1, <1>9 DEF good
  <1> QED
    BY <1>3, <1>4, <1>10

(* A factor left out, and put back.                                        *)
LEMMA ProductWithout ==
  ASSUME NEW n \in Nat, NEW s \in [1..n -> Nat \ {0}], NEW k \in 1..n
  PROVE  LET t == [i \in 1..n |-> IF i = k THEN 1 ELSE s[i]]
         IN  Product(t) \in Nat \ {0} /\ Product(t) * s[k] = Product(s)
  <1> DEFINE t == [i \in 1..n |-> IF i = k THEN 1 ELSE s[i]]
             c == s[k]
  <1>1. s \in [1..n -> Nat] /\ t \in [1..n -> Nat] /\ c \in Nat \ {0}
        /\ t[k] = 1 /\ \A i \in 1..n : t[i] \in Nat \ {0} /\ (i # k => t[i] = s[i])
    OBVIOUS
  <1> HIDE DEF t
  <1>2. PICK f \in [0..n -> Nat] :
            f[0] = 1 /\ (\A i \in 1..n : f[i] = f[i - 1] * s[i]) /\ Product(s) = f[n]
    BY <1>1, ProductIs
  <1>3. PICK g \in [0..n -> Nat] :
            g[0] = 1 /\ (\A i \in 1..n : g[i] = g[i - 1] * t[i]) /\ Product(t) = g[n]
    BY <1>1, ProductIs
  <1>4. \A x, y \in Nat \ {0} : x * y \in Nat \ {0}
    OBVIOUS
  <1>5. \A x, y, z \in Nat : (x * y) * z = (x * z) * y /\ x * 1 = x
    OBVIOUS
  <1> DEFINE good == {i \in 0..n : g[i] # 0 /\ f[i] = IF i < k THEN g[i] ELSE g[i] * c}
  <1>6. 0 \in good
    BY <1>2, <1>3
  <1>7. ASSUME NEW i \in 1..n, i - 1 \in good PROVE i \in good
    <2>1. /\ f[i - 1] \in Nat /\ g[i - 1] \in Nat \ {0} /\ s[i] \in Nat /\ t[i] \in Nat \ {0}
          /\ f[i] = f[i - 1] * s[i] /\ g[i] = g[i - 1] * t[i]
          /\ f[i - 1] = IF i - 1 < k THEN g[i - 1] ELSE g[i - 1] * c
      BY <1>1, <1>2, <1>3, <1>7
    <2>2. g[i] \in Nat \ {0}
      BY <1>4, <2>1
    <2> HIDE DEF c
    <2>3. CASE i = k
      <3>1. g[i] = g[i - 1] /\ f[i] = g[i - 1] * c
        BY <1>1, <1>5, <2>1, <2>3 DEF c
      <3> QED
        BY <2>2, <2>3, <3>1
    <2>4. CASE i < k
      <3>1. f[i] = g[i]
        BY <1>1, <2>1, <2>4
      <3> QED
        BY <2>2, <2>4, <3>1
    <2>5. CASE i > k
      <3>1. f[i - 1] = g[i - 1] * c /\ t[i] = s[i]
        BY <1>1, <2>1, <2>5
      <3>2. f[i] = (g[i - 1] * c) * s[i] /\ g[i] = g[i - 1] * s[i]
        BY <2>1, <3>1
      <3>3. f[i] = g[i] * c
        BY <1>1, <1>5, <2>1, <3>2
      <3> QED
        BY <2>2, <2>5, <3>3
    <2> QED
      BY <2>3, <2>4, <2>5
  <1> HIDE DEF good
  <1>8. \A i \in 0..n : i \in good
    BY <1>6, <1>7, UpToAll
  <1>9. g[n] # 0 /\ f[n] = g[n] * c /\ g[n] \in Nat
    BY <1>8 DEF good
  <1>10. Product(t) \in Nat \ {0} /\ Product(t) * c = Product(s)
    BY <1>2, <1>3, <1>9
  <1> QED
    BY <1>10 DEF t
=============================================================================

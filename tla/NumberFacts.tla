------------------------------- MODULE NumberFacts -------------------------------
(***************************************************************************)
(* Facts that several proofs need: induction and recursion over the        *)
(* natural numbers in a form without operator parameters, and division.    *)
(***************************************************************************)
EXTENDS Integers, Powers, WellFoundedInduction, TLAPS

(* A set of natural numbers has a least element, hence induction.          *)
LEMMA LeastNumber ==
  ASSUME NEW S, S \subseteq Nat, S # {}
  PROVE  \E m \in S : \A n \in S : m <= n
<1>1. PICK m \in S : \A n \in S : ~(<<n, m>> \in OpToRel(<, Nat))
  BY WFMin, NatLessThanWellFounded
<1>2. ASSUME NEW n \in S PROVE m <= n
  <2>1. <<n, m>> \notin OpToRel(<, Nat)
    BY <1>1
  <2>2. ~(n < m)
    BY <2>1 DEF OpToRel
  <2> QED
    BY <2>2
<1> QED
  BY <1>2

LEMMA Induction ==
  ASSUME NEW S, 0 \in S, \A n \in Nat : n \in S => n + 1 \in S
  PROVE  Nat \subseteq S
<1> SUFFICES ASSUME Nat \ S # {} PROVE FALSE
  OBVIOUS
<1>1. PICK m \in Nat \ S : \A n \in Nat \ S : m <= n
  BY LeastNumber
<1>2. m # 0 /\ m - 1 \in Nat
  BY <1>1
<1>3. m - 1 \in S
  BY <1>1, <1>2
<1> QED
  BY <1>1, <1>2, <1>3

(* A first value and a step to the next determine a function on the        *)
(* natural numbers: so far, ...                                            *)
Solves(f, k, a, step) == f[0] = a /\ \A n \in 0 .. k - 1 : f[n + 1] = step[n][f[n]]

LEMMA SolutionsAgree ==
  ASSUME NEW a, NEW step, NEW k \in Nat, NEW f, NEW g,
         Solves(f, k, a, step), Solves(g, k, a, step)
  PROVE  f[k] = g[k]
<1> DEFINE S == {n \in Nat : n <= k => f[n] = g[n]}
<1>1. 0 \in S
  BY DEF Solves
<1>2. ASSUME NEW n \in Nat, n \in S PROVE n + 1 \in S
  <2> SUFFICES ASSUME n + 1 <= k PROVE f[n + 1] = g[n + 1]
    OBVIOUS
  <2>1. f[n] = g[n]
    BY <1>2
  <2>2. f[n + 1] = step[n][f[n]] /\ g[n + 1] = step[n][g[n]]
    BY DEF Solves
  <2> QED
    BY <2>1, <2>2
<1> HIDE DEF S
<1>3. Nat \subseteq S
  BY <1>1, <1>2, Induction
<1>4. k <= k
  OBVIOUS
<1> QED
  BY <1>3, <1>4 DEF S

LEMMA SolutionExists ==
  ASSUME NEW T, NEW a \in T, NEW step \in [Nat -> [T -> T]]
  PROVE  \A k \in Nat : \E f \in [0 .. k -> T] : Solves(f, k, a, step)
<1> DEFINE S == {k \in Nat : \E f \in [0 .. k -> T] : Solves(f, k, a, step)}
<1>1. 0 \in S
  <2>1. [i \in 0 .. 0 |-> a] \in [0 .. 0 -> T] /\ Solves([i \in 0 .. 0 |-> a], 0, a, step)
    BY DEF Solves
  <2> QED
    BY <2>1
<1>2. ASSUME NEW k \in Nat, k \in S PROVE k + 1 \in S
  <2>1. PICK f \in [0 .. k -> T] : Solves(f, k, a, step)
    BY <1>2
  <2> DEFINE g == [i \in 0 .. k + 1 |-> IF i <= k THEN f[i] ELSE step[k][f[k]]]
  <2>2. step[k][f[k]] \in T
    BY <2>1
  <2>3. g \in [0 .. k + 1 -> T]
    BY <2>1, <2>2
  <2>4. \A i \in 0 .. k : g[i] = f[i]
    BY <2>1
  <2>5. g[k + 1] = step[k][g[k]]
    <3>1. k + 1 \in 0 .. k + 1 /\ ~(k + 1 <= k) /\ k \in 0 .. k
      OBVIOUS
    <3>2. g[k + 1] = step[k][f[k]] /\ g[k] = f[k]
      BY <2>4, <3>1
    <3> QED
      BY <3>2
  <2> HIDE DEF g
  <2>6. ASSUME NEW n \in 0 .. k PROVE g[n + 1] = step[n][g[n]]
    <3>1. CASE n = k
      BY <2>5, <3>1
    <3>2. CASE n \in 0 .. k - 1
      <4>1. n + 1 \in 0 .. k /\ n \in 0 .. k
        BY <3>2
      <4> QED
        BY <2>1, <2>4, <3>2, <4>1 DEF Solves
    <3> QED
      BY <3>1, <3>2
  <2>7. g[0] = a
    BY <2>1, <2>4 DEF Solves
  <2>8. Solves(g, k + 1, a, step)
    BY <2>6, <2>7 DEF Solves
  <2> QED
    BY <2>3, <2>8
<1> HIDE DEF S
<1>3. Nat \subseteq S
  BY <1>1, <1>2, Induction
<1> QED
  BY <1>3 DEF S

(* ... and all the way.                                                    *)
Recurses(f, T, a, step) ==
  f \in [Nat -> T] /\ f[0] = a /\ \A n \in Nat : f[n + 1] = step[n][f[n]]

LEMMA Recursion ==
  ASSUME NEW T, NEW a \in T, NEW step \in [Nat -> [T -> T]]
  PROVE  \E f : Recurses(f, T, a, step)
<1> DEFINE part(k) == CHOOSE f \in [0 .. k -> T] : Solves(f, k, a, step)
           f == [n \in Nat |-> part(n)[n]]
<1>1. ASSUME NEW k \in Nat PROVE part(k) \in [0 .. k -> T] /\ Solves(part(k), k, a, step)
  BY SolutionExists
<1> HIDE DEF part
<1>2. f \in [Nat -> T]
  BY <1>1
<1>3. f[0] = a
  BY <1>1 DEF Solves
<1>4. ASSUME NEW n \in Nat PROVE f[n + 1] = step[n][f[n]]
  <2>1. part(n)[n] = part(n + 1)[n]
    <3>1. n + 1 \in Nat /\ \A i \in 0 .. n - 1 : i \in 0 .. (n + 1) - 1
      OBVIOUS
    <3>2. Solves(part(n), n, a, step) /\ Solves(part(n + 1), n, a, step)
      BY <1>1, <3>1 DEF Solves
    <3> QED
      BY <3>2, SolutionsAgree
  <2>2. part(n + 1)[n + 1] = step[n][part(n + 1)[n]]
    BY <1>1 DEF Solves
  <2> QED
    BY <2>1, <2>2
<1> HIDE DEF f
<1> QED
  BY <1>2, <1>3, <1>4 DEF Recurses

(* So Power is what its definition says.                                   *)
LEMMA PowerDef ==
  ASSUME NEW b \in Nat
  PROVE  /\ Power(b) \in [Nat -> Nat] /\ Power(b)[0] = 1
         /\ \A n \in Nat : Power(b)[n + 1] = b * Power(b)[n]
<1> DEFINE step == [n \in Nat |-> [m \in Nat |-> b * m]]
           Defines(f) == f = [n \in Nat |-> IF n = 0 THEN 1 ELSE b * f[n - 1]]
<1>0. 1 \in Nat
  OBVIOUS
<1>1. step \in [Nat -> [Nat -> Nat]] /\ \A m, n \in Nat : step[n][m] = b * m
  OBVIOUS
<1> HIDE DEF step
<1>2. PICK f : Recurses(f, Nat, 1, step)
  BY <1>0, <1>1, Recursion, Zenon
<1>3. Defines(f)
  <2>1. ASSUME NEW n \in Nat PROVE f[n] = IF n = 0 THEN 1 ELSE b * f[n - 1]
    <3>1. CASE n # 0
      <4>1. n - 1 \in Nat /\ (n - 1) + 1 = n
        BY <3>1
      <4>2. f[n] = step[n - 1][f[n - 1]]
        BY <1>2, <4>1 DEF Recurses
      <4>3. f[n - 1] \in Nat
        BY <1>2, <4>1 DEF Recurses
      <4> QED
        BY <1>1, <3>1, <4>1, <4>2, <4>3
    <3> QED
      BY <1>2, <3>1 DEF Recurses
  <2> QED
    BY <1>2, <2>1 DEF Recurses
<1>4. Power(b) = CHOOSE g : Defines(g)
  BY DEF Power
<1>5. Defines(Power(b))
  BY <1>3, <1>4
<1>6. /\ DOMAIN Power(b) = Nat /\ Power(b)[0] = 1
      /\ \A n \in Nat : Power(b)[n + 1] = b * Power(b)[n]
  <2>1. \A n \in Nat : n + 1 \in Nat /\ n + 1 # 0 /\ (n + 1) - 1 = n
    OBVIOUS
  <2> QED
    BY <1>5, <2>1
<1> DEFINE S == {n \in Nat : Power(b)[n] \in Nat}
<1>7. Nat \subseteq S
  <2>1. 0 \in S
    BY <1>6
  <2>2. ASSUME NEW n \in Nat, n \in S PROVE n + 1 \in S
    BY <1>6, <2>2
  <2> HIDE DEF S
  <2> QED
    BY <2>1, <2>2, Induction
<1>8. Power(b) = [n \in Nat |-> Power(b)[n]]
  BY <1>5
<1> QED
  BY <1>6, <1>7, <1>8

LEMMA PowerPositive ==
  ASSUME NEW b \in Nat \ {0}
  PROVE  \A n \in Nat : Power(b)[n] \in Nat \ {0}
<1> DEFINE S == {n \in Nat : Power(b)[n] \in Nat \ {0}}
<1>0. b \in Nat /\ 1 \in Nat \ {0} /\ \A m \in Nat \ {0} : b * m \in Nat \ {0}
  OBVIOUS
<1>1. 0 \in S
  BY <1>0, PowerDef
<1>2. ASSUME NEW n \in Nat, n \in S PROVE n + 1 \in S
  <2>1. Power(b)[n + 1] = b * Power(b)[n]
    BY <1>0, PowerDef
  <2> QED
    BY <1>0, <1>2, <2>1
<1> HIDE DEF S
<1>3. Nat \subseteq S
  BY <1>1, <1>2, Induction
<1> QED
  BY <1>3 DEF S
------------------------------------------------------------------------------
(* What division does.                                                     *)
LEMMA Divides ==
  ASSUME NEW w \in Nat, NEW b \in Nat \ {0}
  PROVE  /\ w \div b \in Nat /\ w % b \in 0 .. b - 1
         /\ w = b * (w \div b) + (w % b)
<1>1. /\ w = b * (w \div b) + (w % b)
      /\ 0 <= w % b /\ w % b < b
  OBVIOUS
<1>2. w \div b \in Nat
  OBVIOUS
<1>3. w % b \in Int
  OBVIOUS
<1> QED
  BY <1>1, <1>2, <1>3

LEMMA DividesOnce ==
  ASSUME NEW w \in Nat, NEW b \in Nat \ {0}, NEW q \in Nat, NEW r \in 0 .. b - 1, w = b * q + r
  PROVE  q = w \div b /\ r = w % b
OBVIOUS

LEMMA ProductType ==
  ASSUME NEW a \in Nat, NEW b \in Nat, NEW c \in Nat
  PROVE  a * b \in Nat /\ a * b + c \in Nat /\ c + a * b \in Nat
<1>1. a * b \in Nat
  OBVIOUS
<1> QED
  BY <1>1

(* Dividing by a product is dividing twice.                                *)
LEMMA TwoDivisions ==
  ASSUME NEW u \in Nat, NEW b \in Nat \ {0}, NEW m \in Nat \ {0}
  PROVE  /\ u % (b * m) = (u % m) + ((u \div m) % b) * m
         /\ u \div (b * m) = (u \div m) \div b
<1> DEFINE q == u \div m
           r == u % m
           p == q \div b
           d == q % b
<1>1. q \in Nat /\ r \in 0 .. m - 1 /\ u = m * q + r
  BY Divides
<1> HIDE DEF q, r
<1>2. p \in Nat /\ d \in 0 .. b - 1 /\ q = b * p + d
  BY <1>1, Divides
<1> HIDE DEF p, d
<1>3. u = (b * m) * p + (r + d * m)
  <2>1. m * q = m * (b * p) + m * d
    BY <1>1, <1>2
  <2>2. m * (b * p) = (b * m) * p /\ m * d = d * m
    BY <1>2
  <2> QED
    BY <1>1, <1>2, <2>1, <2>2
<1>4. r + d * m \in 0 .. (b * m) - 1
  <2>1. d * m <= (b - 1) * m /\ 0 <= d * m /\ d * m \in Nat
    BY <1>2
  <2>2. (b - 1) * m = b * m - m
    OBVIOUS
  <2> QED
    BY <1>1, <2>1, <2>2
<1>5. b * m \in Nat \ {0}
  OBVIOUS
<1>6. p = u \div (b * m) /\ r + d * m = u % (b * m)
  BY <1>2, <1>3, <1>4, <1>5, DividesOnce
<1> QED
  BY <1>6 DEF d, p, q, r
=================================================================================

---------------------------- MODULE LayoutProofs ----------------------------
(***************************************************************************)
(* Theorems of Layout: what a row's shares add up to and where its ink     *)
(* falls, for every element, every length and every tape.                  *)
(*                                                                         *)
(* The sums are a recursive function.  What it computes is proved by       *)
(* induction over sets: a set that holds 0 and the successor of each of    *)
(* its numbers holds every number (Induction), and each fact about sums is *)
(* that of the numbers at which it is true.                                *)
(***************************************************************************)
EXTENDS Layout, WellFoundedInduction, FiniteSetTheorems, TLAPS

-----------------------------------------------------------------------------
(***************************************************************************)
(* Sums.                                                                   *)
(***************************************************************************)
\* A set with 0 and all successors has every number.
LEMMA Induction ==
    ASSUME NEW S, 0 \in S, \A n \in Nat : n \in S => n + 1 \in S
    PROVE  Nat \subseteq S
<1> DEFINE T == {n \in Nat : n \notin S}
<1>1. ASSUME T # {} PROVE FALSE
  <2>1. PICK m \in T : \A k \in T : <<k, m>> \notin OpToRel(<, Nat)
    BY <1>1, WFMin, NatLessThanWellFounded, Zenon
  <2>2. \A k \in T : ~(k < m)
    BY <2>1, Zenon DEF OpToRel
  <2>3. m # 0 /\ m \in Nat
    OBVIOUS
  <2>4. m - 1 \in Nat /\ m - 1 < m /\ (m - 1) + 1 = m
    BY <2>3
  <2>5. m - 1 \in S
    BY <2>2, <2>4
  <2> QED
    BY <2>4, <2>5
<1> QED
  BY <1>1

\* A table of the sums of the first entries, as far as n.
Table(s, n, g) ==
    \A k \in 0..n : g[k] = IF k = 0 THEN 0 ELSE g[k - 1] + s[k]

\* There is a table as far as one likes.
LEMMA TableExists ==
    ASSUME NEW s, NEW n \in Nat
    PROVE  \E g : Table(s, n, g)
<1> DEFINE S == {m \in Nat : \E g : Table(s, m, g)}
<1>1. 0 \in S
  <2>1. Table(s, 0, [k \in {0} |-> 0])
    BY DEF Table
  <2> QED
    BY <2>1
<1>2. ASSUME NEW m \in Nat, m \in S PROVE m + 1 \in S
  <2>1. PICK g : Table(s, m, g)
    BY <1>2
  <2> DEFINE h == [k \in 0..(m + 1) |-> IF k = m + 1 THEN g[m] + s[k] ELSE g[k]]
  <2>2. Table(s, m + 1, h)
    <3> SUFFICES ASSUME NEW k \in 0..(m + 1)
                 PROVE  h[k] = IF k = 0 THEN 0 ELSE h[k - 1] + s[k]
      BY DEF Table
    <3>1. CASE k = m + 1
      <4>1. k # 0 /\ k - 1 = m /\ m \in 0..(m + 1) /\ m # m + 1
        BY <3>1
      <4> QED
        BY <3>1, <4>1
    <3>2. CASE k # m + 1
      <4>1. k \in 0..m /\ (k # 0 => k - 1 \in 0..(m + 1) /\ k - 1 # m + 1)
        BY <3>2
      <4>2. g[k] = IF k = 0 THEN 0 ELSE g[k - 1] + s[k]
        BY <2>1, <4>1 DEF Table
      <4> QED
        BY <3>2, <4>1, <4>2
    <3> QED
      BY <3>1, <3>2
  <2> HIDE DEF h
  <2> QED
    BY <2>2
<1> HIDE DEF S
<1>3. Nat \subseteq S
  BY <1>1, <1>2, Induction
<1> QED
  BY <1>3 DEF S

\* Two tables agree as far as both go.
LEMMA TablesAgree ==
    ASSUME NEW s, NEW n \in Nat, NEW m \in Nat, NEW g, NEW h,
           Table(s, n, g), Table(s, m, h)
    PROVE  \A k \in Nat : k <= n /\ k <= m => g[k] = h[k]
<1> DEFINE S == {k \in Nat : k <= n /\ k <= m => g[k] = h[k]}
<1>1. 0 \in S
  BY DEF Table
<1>2. ASSUME NEW k \in Nat, k \in S PROVE k + 1 \in S
  <2> SUFFICES ASSUME k + 1 <= n, k + 1 <= m PROVE g[k + 1] = h[k + 1]
    OBVIOUS
  <2>1. k + 1 \in 0..n /\ k + 1 \in 0..m /\ k + 1 # 0 /\ (k + 1) - 1 = k
    OBVIOUS
  <2>2. g[k + 1] = g[k] + s[k + 1] /\ h[k + 1] = h[k] + s[k + 1]
    BY <2>1 DEF Table
  <2>3. g[k] = h[k]
    BY <1>2
  <2> QED
    BY <2>2, <2>3
<1> HIDE DEF S
<1>3. Nat \subseteq S
  BY <1>1, <1>2, Induction
<1> QED
  BY <1>3 DEF S

\* Sums adds up one entry after the other.
LEMMA SumsStep ==
    ASSUME NEW s
    PROVE  /\ Sums(s)[0] = 0
           /\ \A n \in Nat : Sums(s)[n + 1] = Sums(s)[n] + s[n + 1]
<1> DEFINE G(n) == CHOOSE g : Table(s, n, g)
           f    == [n \in Nat |-> G(n)[n]]
<1>1. \A n \in Nat : Table(s, n, G(n))
  BY TableExists, Zenon
<1> HIDE DEF G
<1>2. f = [n \in Nat |-> IF n = 0 THEN 0 ELSE f[n - 1] + s[n]]
  <2> SUFFICES ASSUME NEW n \in Nat PROVE f[n] = IF n = 0 THEN 0 ELSE f[n - 1] + s[n]
    BY Zenon
  <2>1. G(n)[n] = IF n = 0 THEN 0 ELSE G(n)[n - 1] + s[n]
    BY <1>1 DEF Table
  <2>2. CASE n = 0
    BY <2>1, <2>2
  <2>3. CASE n # 0
    <3>1. n - 1 \in Nat /\ n - 1 <= n
      BY <2>3
    <3>2. G(n - 1)[n - 1] = G(n)[n - 1]
      BY <1>1, <3>1, TablesAgree
    <3> QED
      BY <2>1, <2>3, <3>1, <3>2
  <2> QED
    BY <2>2, <2>3
<1> HIDE DEF f
<1>3. Sums(s) = [n \in Nat |-> IF n = 0 THEN 0 ELSE Sums(s)[n - 1] + s[n]]
  BY <1>2, Zenon DEF Sums
<1>4. ASSUME NEW n \in Nat PROVE Sums(s)[n] = IF n = 0 THEN 0 ELSE Sums(s)[n - 1] + s[n]
  BY <1>3, Zenon
<1> QED
  <2>1. Sums(s)[0] = 0
    BY <1>4
  <2>2. ASSUME NEW n \in Nat PROVE Sums(s)[n + 1] = Sums(s)[n] + s[n + 1]
    <3>1. n + 1 \in Nat /\ n + 1 # 0 /\ (n + 1) - 1 = n
      OBVIOUS
    <3> QED
      BY <1>4, <3>1
  <2> QED
    BY <2>1, <2>2

\* Sums of integers are integers, and of naturals naturals.
LEMMA SumsInt ==
    ASSUME NEW s, NEW n \in Nat, \A i \in 1..n : s[i] \in Int
    PROVE  \A k \in 0..n : Sums(s)[k] \in Int
<1> DEFINE S == {k \in Nat : k <= n => Sums(s)[k] \in Int}
<1>1. 0 \in S
  BY SumsStep
<1>2. ASSUME NEW k \in Nat, k \in S PROVE k + 1 \in S
  <2>1. k + 1 <= n => k + 1 \in 1..n
    OBVIOUS
  <2> QED
    BY <1>2, <2>1, SumsStep
<1> HIDE DEF S
<1>3. Nat \subseteq S
  BY <1>1, <1>2, Induction
<1> QED
  BY <1>3 DEF S

LEMMA SumsNat ==
    ASSUME NEW s, NEW n \in Nat, \A i \in 1..n : s[i] \in Nat
    PROVE  \A k \in 0..n : Sums(s)[k] \in Nat
<1> DEFINE S == {k \in Nat : k <= n => Sums(s)[k] \in Nat}
<1>1. 0 \in S
  BY SumsStep
<1>2. ASSUME NEW k \in Nat, k \in S PROVE k + 1 \in S
  <2>1. k + 1 <= n => k + 1 \in 1..n
    OBVIOUS
  <2> QED
    BY <1>2, <2>1, SumsStep
<1> HIDE DEF S
<1>3. Nat \subseteq S
  BY <1>1, <1>2, Induction
<1> QED
  BY <1>3 DEF S

LEMMA SumNat ==
    ASSUME NEW s, NEW n \in Nat, \A i \in 1..n : s[i] \in Nat
    PROVE  Sums(s)[n] \in Nat
<1>1. n \in 0..n
  OBVIOUS
<1> QED
  BY <1>1, SumsNat

\* What the sums depend on, and that they keep the order.
LEMMA SumsSame ==
    ASSUME NEW s, NEW t, NEW n \in Nat, \A i \in 1..n : s[i] = t[i]
    PROVE  \A k \in 0..n : Sums(s)[k] = Sums(t)[k]
<1> DEFINE S == {k \in Nat : k <= n => Sums(s)[k] = Sums(t)[k]}
<1>1. 0 \in S
  BY SumsStep
<1>2. ASSUME NEW k \in Nat, k \in S PROVE k + 1 \in S
  <2>1. k + 1 <= n => k + 1 \in 1..n
    OBVIOUS
  <2>2. Sums(s)[k + 1] = Sums(s)[k] + s[k + 1]
    BY SumsStep
  <2>3. Sums(t)[k + 1] = Sums(t)[k] + t[k + 1]
    BY SumsStep
  <2> QED
    BY <1>2, <2>1, <2>2, <2>3
<1> HIDE DEF S
<1>3. Nat \subseteq S
  BY <1>1, <1>2, Induction
<1> QED
  BY <1>3 DEF S

LEMMA SumsOrder ==
    ASSUME NEW s, NEW t, NEW n \in Nat,
           \A i \in 1..n : s[i] \in Int /\ t[i] \in Int /\ s[i] <= t[i]
    PROVE  \A k \in 0..n : Sums(s)[k] <= Sums(t)[k]
<1> DEFINE S == {k \in Nat : k <= n => Sums(s)[k] <= Sums(t)[k]}
<1>1. 0 \in S
  BY SumsStep
<1>2. ASSUME NEW k \in Nat, k \in S PROVE k + 1 \in S
  <2> SUFFICES ASSUME k + 1 <= n PROVE Sums(s)[k + 1] <= Sums(t)[k + 1]
    OBVIOUS
  <2>1. k + 1 \in 1..n /\ k \in 0..n
    OBVIOUS
  <2>2. Sums(s)[k + 1] = Sums(s)[k] + s[k + 1]
    BY SumsStep
  <2>3. Sums(t)[k + 1] = Sums(t)[k] + t[k + 1]
    BY SumsStep
  <2>4. Sums(s)[k] \in Int /\ Sums(t)[k] \in Int
    BY <2>1, SumsInt
  <2>5. Sums(s)[k] <= Sums(t)[k]
    BY <1>2
  <2> QED
    BY <2>1, <2>2, <2>3, <2>4, <2>5
<1> HIDE DEF S
<1>3. Nat \subseteq S
  BY <1>1, <1>2, Induction
<1> QED
  BY <1>3 DEF S

LEMMA SumsZero ==
    ASSUME NEW s, NEW n \in Nat, \A i \in 1..n : s[i] = 0
    PROVE  Sums(s)[n] = 0
<1> DEFINE S == {k \in Nat : k <= n => Sums(s)[k] = 0}
<1>1. 0 \in S
  BY SumsStep
<1>2. ASSUME NEW k \in Nat, k \in S PROVE k + 1 \in S
  <2>1. k + 1 <= n => k + 1 \in 1..n
    OBVIOUS
  <2>2. Sums(s)[k + 1] = Sums(s)[k] + s[k + 1]
    BY SumsStep
  <2> QED
    BY <1>2, <2>1, <2>2
<1> HIDE DEF S
<1>3. Nat \subseteq S
  BY <1>1, <1>2, Induction
<1> QED
  BY <1>3 DEF S

\* A sum of naturals is at least each of its parts, ...
LEMMA SumsGrow ==
    ASSUME NEW s, NEW n \in Nat, \A i \in 1..n : s[i] \in Nat
    PROVE  \A j, k \in 0..n : j <= k => Sums(s)[j] <= Sums(s)[k]
<1> SUFFICES ASSUME NEW j \in 0..n PROVE \A k \in 0..n : j <= k => Sums(s)[j] <= Sums(s)[k]
  OBVIOUS
<1> DEFINE S == {k \in Nat : k <= n /\ j <= k => Sums(s)[j] <= Sums(s)[k]}
<1>1. \A k \in 0..n : Sums(s)[k] \in Nat
  BY SumsNat
<1>2. 0 \in S
  BY <1>1
<1>3. ASSUME NEW k \in Nat, k \in S PROVE k + 1 \in S
  <2> SUFFICES ASSUME k + 1 <= n, j <= k + 1 PROVE Sums(s)[j] <= Sums(s)[k + 1]
    OBVIOUS
  <2>1. k + 1 \in 1..n /\ k \in 0..n /\ k + 1 \in 0..n
    OBVIOUS
  <2>2. Sums(s)[k + 1] = Sums(s)[k] + s[k + 1]
    BY SumsStep
  <2>3. CASE j = k + 1
    BY <1>1, <2>1, <2>3
  <2>4. CASE j <= k
    BY <1>1, <1>3, <2>1, <2>2, <2>4
  <2> QED
    BY <2>3, <2>4
<1> HIDE DEF S
<1>4. Nat \subseteq S
  BY <1>2, <1>3, Induction
<1> QED
  BY <1>4 DEF S

LEMMA SumsElement ==
    ASSUME NEW s, NEW n \in Nat, \A i \in 1..n : s[i] \in Nat, NEW i \in 1..n
    PROVE  s[i] <= Sums(s)[n]
<1>1. i - 1 \in Nat /\ i - 1 \in 0..n /\ i \in 0..n /\ n \in 0..n /\ (i - 1) + 1 = i
  OBVIOUS
<1>2. Sums(s)[i] = Sums(s)[i - 1] + s[i]
  BY <1>1, SumsStep
<1>3. \A k \in 0..n : Sums(s)[k] \in Nat
  BY SumsNat
<1>4. Sums(s)[i] <= Sums(s)[n]
  BY <1>1, SumsGrow
<1> QED
  BY <1>1, <1>2, <1>3, <1>4

\* ... and one entry changed changes it by as much.
LEMMA SumsChanged ==
    ASSUME NEW s, NEW t, NEW n \in Nat, NEW i \in 1..n,
           \A j \in 1..n : s[j] \in Int /\ t[j] \in Int /\ (j # i => t[j] = s[j])
    PROVE  Sums(t)[n] = Sums(s)[n] + t[i] - s[i]
<1> DEFINE S == {k \in Nat : k <= n => Sums(t)[k] = IF i <= k THEN Sums(s)[k] + t[i] - s[i]
                                                             ELSE Sums(s)[k]}
<1>1. 0 \in S
  BY SumsStep
<1>2. ASSUME NEW k \in Nat, k \in S PROVE k + 1 \in S
  <2> SUFFICES ASSUME k + 1 <= n
               PROVE  Sums(t)[k + 1] = IF i <= k + 1 THEN Sums(s)[k + 1] + t[i] - s[i]
                                                     ELSE Sums(s)[k + 1]
    OBVIOUS
  <2>1. k + 1 \in 1..n /\ k \in 0..n
    OBVIOUS
  <2>2. Sums(s)[k + 1] = Sums(s)[k] + s[k + 1]
    BY SumsStep
  <2>3. Sums(t)[k + 1] = Sums(t)[k] + t[k + 1]
    BY SumsStep
  <2>4. Sums(s)[k] \in Int /\ Sums(t)[k] \in Int
    BY <2>1, SumsInt
  <2>5. CASE i = k + 1
    <3>1. Sums(t)[k] = Sums(s)[k]
      BY <1>2, <2>5
    <3> QED
      BY <2>1, <2>2, <2>3, <2>4, <2>5, <3>1
  <2>6. CASE i <= k
    <3>1. Sums(t)[k] = Sums(s)[k] + t[i] - s[i]
      BY <1>2, <2>6
    <3>2. t[k + 1] = s[k + 1]
      BY <2>1, <2>6
    <3> QED
      BY <2>1, <2>2, <2>3, <2>4, <2>6, <3>1, <3>2
  <2>7. CASE i > k + 1
    <3>1. Sums(t)[k] = Sums(s)[k]
      BY <1>2, <2>7
    <3>2. t[k + 1] = s[k + 1]
      BY <2>1, <2>7
    <3> QED
      BY <2>1, <2>2, <2>3, <2>4, <2>7, <3>1, <3>2
  <2> QED
    BY <2>5, <2>6, <2>7
<1> HIDE DEF S
<1>3. Nat \subseteq S
  BY <1>1, <1>2, Induction
<1> QED
  BY <1>3 DEF S

\* Two entries of naturals are no more than the sum.
LEMMA SumsTwo ==
    ASSUME NEW s, NEW n \in Nat, \A k \in 1..n : s[k] \in Nat,
           NEW i \in 1..n, NEW j \in 1..n, i # j
    PROVE  s[i] + s[j] <= Sums(s)[n]
<1> DEFINE t == [k \in 1..n |-> IF k = i THEN 0 ELSE s[k]]
<1>1. \A k \in 1..n : /\ t[k] \in Nat /\ (k # i => t[k] = s[k])
                      /\ s[k] \in Int /\ t[k] \in Int
  OBVIOUS
<1>2. t[i] = 0 /\ t[j] = s[j]
  OBVIOUS
<1> HIDE DEF t
<1>3. Sums(t)[n] = Sums(s)[n] + t[i] - s[i]
  BY <1>1, SumsChanged
<1>4. t[j] <= Sums(t)[n]
  BY <1>1, SumsElement
<1>5. Sums(s)[n] \in Nat
  BY SumNat
<1> QED
  BY <1>2, <1>3, <1>4, <1>5

\* The sum of two rows, entry by entry.
AreSums(u, s, t, n) ==
    \A i \in 1..n : s[i] \in Int /\ t[i] \in Int /\ u[i] = s[i] + t[i]

LEMMA SumsPlus ==
    ASSUME NEW s, NEW t, NEW u, NEW n \in Nat, AreSums(u, s, t, n)
    PROVE  Sums(u)[n] = Sums(s)[n] + Sums(t)[n]
<1> USE DEF AreSums
<1> DEFINE S == {k \in Nat : k <= n => Sums(u)[k] = Sums(s)[k] + Sums(t)[k]}
<1>1. 0 \in S
  BY SumsStep
<1>2. ASSUME NEW k \in Nat, k \in S PROVE k + 1 \in S
  <2> SUFFICES ASSUME k + 1 <= n PROVE Sums(u)[k + 1] = Sums(s)[k + 1] + Sums(t)[k + 1]
    OBVIOUS
  <2>1. k + 1 \in 1..n /\ k \in 0..n
    OBVIOUS
  <2>2. Sums(s)[k + 1] = Sums(s)[k] + s[k + 1]
    BY SumsStep
  <2>3. Sums(t)[k + 1] = Sums(t)[k] + t[k + 1]
    BY SumsStep
  <2>4. Sums(u)[k + 1] = Sums(u)[k] + u[k + 1]
    BY SumsStep
  <2>5. Sums(s)[k] \in Int /\ Sums(t)[k] \in Int
    BY <2>1, SumsInt
  <2>6. Sums(u)[k] = Sums(s)[k] + Sums(t)[k]
    BY <1>2
  <2> QED
    BY <2>1, <2>2, <2>3, <2>4, <2>5, <2>6
<1> HIDE DEF S
<1>3. Nat \subseteq S
  BY <1>1, <1>2, Induction
<1> QED
  BY <1>3 DEF S

-----------------------------------------------------------------------------
(***************************************************************************)
(* Shares: a divided in proportion to s, every share rounded down.         *)
(***************************************************************************)
\* Rounding down loses less than the divisor.
LEMMA Floor ==
    ASSUME NEW x \in Nat, NEW d \in Nat \ {0}
    PROVE  /\ x \div d \in Nat
           /\ d * (x \div d) <= x
           /\ x <= d * (x \div d) + (d - 1)
OBVIOUS

LEMMA Times ==
    ASSUME NEW d \in Int, NEW x \in Int, NEW y \in Int
    PROVE  d * (x + y) = d * x + d * y
OBVIOUS

\* f holds the shares of a that n children get by their weights s; c counts
\* those that have a weight.
AreShares(f, a, s, d, c, n) ==
    \A i \in 1..n : /\ s[i] \in Nat /\ c[i] \in {0, 1} /\ (c[i] = 0 => s[i] = 0)
                    /\ f[i] = (a * s[i]) \div d

\* All the shares together are at most a, and short of it by less than one for
\* each child that has a weight.
LEMMA SharesUpTo ==
    ASSUME NEW s, NEW f, NEW c, NEW n \in Nat, NEW a \in Nat, NEW d \in Nat \ {0},
           AreShares(f, a, s, d, c, n)
    PROVE  \A k \in 0..n : /\ Sums(s)[k] \in Nat /\ Sums(f)[k] \in Nat /\ Sums(c)[k] \in Nat
                           /\ d * Sums(f)[k] <= a * Sums(s)[k]
                           /\ a * Sums(s)[k] <= d * Sums(f)[k] + (d - 1) * Sums(c)[k]
<1> USE DEF AreShares
<1>1. \A i \in 1..n : a * s[i] \in Nat
  OBVIOUS
<1>2. \A i \in 1..n : /\ f[i] \in Nat
                      /\ d * f[i] <= a * s[i]
                      /\ a * s[i] <= d * f[i] + (d - 1) * c[i]
  <2> SUFFICES ASSUME NEW i \in 1..n
               PROVE  /\ f[i] \in Nat /\ d * f[i] <= a * s[i]
                      /\ a * s[i] <= d * f[i] + (d - 1) * c[i]
    OBVIOUS
  <2> DEFINE x == a * s[i]
  <2>0. x \in Nat /\ f[i] = x \div d
    BY <1>1
  <2>1. CASE c[i] = 1
    <3> HIDE DEF x
    <3>1. f[i] \in Nat /\ d * f[i] <= x /\ x <= d * f[i] + (d - 1)
      BY <2>0, Floor
    <3>2. (d - 1) * c[i] = d - 1
      BY <2>1
    <3> QED
      BY <3>1, <3>2 DEF x
  <2>2. CASE c[i] = 0
    <3>1. x = 0
      BY <2>2
    <3>2. 0 \div d = 0 /\ d * 0 = 0 /\ (d - 1) * 0 = 0
      OBVIOUS
    <3> QED
      BY <2>0, <2>2, <3>1, <3>2
  <2> QED
    BY <2>1, <2>2
<1>3. \A k \in 0..n : Sums(s)[k] \in Nat
  BY SumsNat
<1>4. \A k \in 0..n : Sums(f)[k] \in Nat
  BY <1>2, SumsNat
<1>5. \A k \in 0..n : Sums(c)[k] \in Nat
  <2>1. \A i \in 1..n : c[i] \in Nat
    OBVIOUS
  <2> QED
    BY <2>1, SumsNat
<1> DEFINE S == {k \in Nat : k <= n =>
                    /\ d * Sums(f)[k] <= a * Sums(s)[k]
                    /\ a * Sums(s)[k] <= d * Sums(f)[k] + (d - 1) * Sums(c)[k]}
<1>6. 0 \in S
  <2>1. Sums(f)[0] = 0 /\ Sums(s)[0] = 0 /\ Sums(c)[0] = 0
    BY SumsStep
  <2>2. d * 0 = 0 /\ a * 0 = 0 /\ (d - 1) * 0 = 0
    OBVIOUS
  <2> QED
    BY <2>1, <2>2
<1>7. ASSUME NEW k \in Nat, k \in S PROVE k + 1 \in S
  <2> SUFFICES ASSUME k + 1 <= n
               PROVE  /\ d * Sums(f)[k + 1] <= a * Sums(s)[k + 1]
                      /\ a * Sums(s)[k + 1] <= d * Sums(f)[k + 1] + (d - 1) * Sums(c)[k + 1]
    OBVIOUS
  <2>1. k + 1 \in 1..n /\ k \in 0..n
    OBVIOUS
  <2>2. Sums(s)[k + 1] = Sums(s)[k] + s[k + 1]
    BY SumsStep
  <2>3. Sums(f)[k + 1] = Sums(f)[k] + f[k + 1]
    BY SumsStep
  <2>4. Sums(c)[k + 1] = Sums(c)[k] + c[k + 1]
    BY SumsStep
  <2>5. /\ d * Sums(f)[k] <= a * Sums(s)[k]
        /\ a * Sums(s)[k] <= d * Sums(f)[k] + (d - 1) * Sums(c)[k]
    BY <1>7
  <2>6. /\ f[k + 1] \in Nat /\ s[k + 1] \in Nat /\ c[k + 1] \in Nat
        /\ d * f[k + 1] <= a * s[k + 1]
        /\ a * s[k + 1] <= d * f[k + 1] + (d - 1) * c[k + 1]
    BY <1>2, <2>1
  <2>7. Sums(s)[k] \in Nat /\ Sums(f)[k] \in Nat /\ Sums(c)[k] \in Nat
    BY <1>3, <1>4, <1>5, <2>1
  <2>8. d - 1 \in Int
    OBVIOUS
  <2> DEFINE F  == d * Sums(f)[k]        F1 == d * f[k + 1]
             P  == a * Sums(s)[k]        P1 == a * s[k + 1]
             C  == (d - 1) * Sums(c)[k]  C1 == (d - 1) * c[k + 1]
  <2>9. F \in Int /\ F1 \in Int /\ P \in Int /\ P1 \in Int /\ C \in Int /\ C1 \in Int
    BY <2>6, <2>7, <2>8
  <2>10. d * Sums(f)[k + 1] = F + F1
    BY <2>3, <2>6, <2>7, Times
  <2>11. a * Sums(s)[k + 1] = P + P1
    BY <2>2, <2>6, <2>7, Times
  <2>12. (d - 1) * Sums(c)[k + 1] = C + C1
    BY <2>4, <2>6, <2>7, <2>8, Times
  <2>13. F <= P /\ P <= F + C /\ F1 <= P1 /\ P1 <= F1 + C1
    BY <2>5, <2>6
  <2> HIDE DEF F, F1, P, P1, C, C1
  <2> QED
    BY <2>9, <2>10, <2>11, <2>12, <2>13
<1> HIDE DEF S
<1>8. Nat \subseteq S
  BY <1>6, <1>7, Induction
<1> QED
  BY <1>3, <1>4, <1>5, <1>8 DEF S

AddUp(f, a, s, d, c, n) ==
    /\ Sums(s)[n] \in Nat /\ Sums(f)[n] \in Nat /\ Sums(c)[n] \in Nat
    /\ d * Sums(f)[n] <= a * Sums(s)[n]
    /\ a * Sums(s)[n] <= d * Sums(f)[n] + (d - 1) * Sums(c)[n]

LEMMA SharesRounded ==
    ASSUME NEW s, NEW f, NEW c, NEW n \in Nat, NEW a \in Nat, NEW d \in Nat \ {0},
           AreShares(f, a, s, d, c, n)
    PROVE  AddUp(f, a, s, d, c, n)
<1>1. n \in 0..n
  OBVIOUS
<1>2. \A k \in 0..n : AddUp(f, a, s, d, c, k)
  BY SharesUpTo DEF AddUp
<1> QED
  BY <1>1, <1>2, Zenon

\* What c counts, as a set.
LEMMA SumsCount ==
    ASSUME NEW c, NEW n \in Nat, \A i \in 1..n : c[i] \in {0, 1}
    PROVE  /\ IsFiniteSet({i \in 1..n : c[i] = 1})
           /\ Sums(c)[n] = Cardinality({i \in 1..n : c[i] = 1})
<1> DEFINE C(k) == {i \in 1..k : c[i] = 1}
           S    == {k \in Nat : k <= n => IsFiniteSet(C(k)) /\ Sums(c)[k] = Cardinality(C(k))}
<1>1. 0 \in S
  <2>1. C(0) = {}
    OBVIOUS
  <2> QED
    BY <2>1, SumsStep, FS_EmptySet
<1>2. ASSUME NEW k \in Nat, k \in S PROVE k + 1 \in S
  <2> SUFFICES ASSUME k + 1 <= n
               PROVE  IsFiniteSet(C(k + 1)) /\ Sums(c)[k + 1] = Cardinality(C(k + 1))
    OBVIOUS
  <2>1. k + 1 \in 1..n /\ Sums(c)[k + 1] = Sums(c)[k] + c[k + 1]
    BY SumsStep
  <2>2. IsFiniteSet(C(k)) /\ Sums(c)[k] = Cardinality(C(k)) /\ Cardinality(C(k)) \in Nat
    BY <1>2, FS_CardinalityType
  <2>3. CASE c[k + 1] = 0
    <3>1. C(k + 1) = C(k)
      BY <2>3
    <3> QED
      BY <2>1, <2>2, <2>3, <3>1
  <2>4. CASE c[k + 1] = 1
    <3>1. C(k + 1) = C(k) \cup {k + 1} /\ k + 1 \notin C(k)
      BY <2>4
    <3> HIDE DEF C
    <3> QED
      BY <2>1, <2>2, <2>4, <3>1, FS_AddElement
  <2> QED
    BY <2>1, <2>3, <2>4
<1> HIDE DEF S
<1>3. Nat \subseteq S
  BY <1>1, <1>2, Induction
<1> QED
  BY <1>3 DEF S

\* Comparing products.
LEMMA TimesOrder ==
    ASSUME NEW d \in Nat, NEW x \in Int, NEW y \in Int, x <= y
    PROVE  d * x <= d * y
<1>1. d * (y - x) >= 0
  OBVIOUS
<1>2. d * (x + (y - x)) = d * x + d * (y - x)
  BY Times
<1>3. x + (y - x) = y
  OBVIOUS
<1> QED
  BY <1>1, <1>2, <1>3

LEMMA Cancel ==
    ASSUME NEW d \in Nat \ {0}, NEW x \in Int, NEW y \in Int, d * x < d * (y + 1)
    PROVE  x <= y
<1> SUFFICES ASSUME y + 1 <= x PROVE FALSE
  OBVIOUS
<1>1. d * (y + 1) <= d * x
  BY TimesOrder
<1> QED
  BY <1>1

LEMMA FloorOfLess ==
    ASSUME NEW x \in Nat, NEW d \in Nat \ {0}, x < d
    PROVE  x \div d = 0
<1>1. x \div d \in Nat /\ d * (x \div d) <= x
  BY Floor
<1> DEFINE q == x \div d
<1> HIDE DEF q
<1>2. d * q < d * (0 + 1)
  BY <1>1 DEF q
<1>3. q <= 0
  BY <1>1, <1>2, Cancel DEF q
<1> QED
  BY <1>1, <1>3 DEF q

\* A share of no more than the whole is no more than the part.
LEMMA ShareAtMost ==
    ASSUME NEW a \in Nat, NEW s \in Nat, NEW d \in Nat \ {0}, a <= d
    PROVE  (a * s) \div d \in Nat /\ (a * s) \div d <= s
<1> DEFINE x == a * s
<1>1. x \in Nat /\ x <= d * s
  <2>1. s * a <= s * d
    BY TimesOrder
  <2> QED
    BY <2>1
<1>2. d * s < d * (s + 1)
  <2>1. d * (s + 1) = d * s + d * 1
    BY Times
  <2> QED
    BY <2>1
<1> HIDE DEF x
<1>3. x \div d \in Nat /\ d * (x \div d) <= x
  BY <1>1, Floor
<1>4. d * (x \div d) < d * (s + 1)
  BY <1>1, <1>2, <1>3
<1>5. x \div d <= s
  BY <1>3, <1>4, Cancel
<1> QED
  BY <1>3, <1>5 DEF x

-----------------------------------------------------------------------------
(***************************************************************************)
(* A row's shares.                                                         *)
(***************************************************************************)
LEMMA Params ==
    /\ Tape \in Nat /\ Gap \in Nat /\ Padding \in Nat /\ MinAuto \in Nat /\ MaxAuto \in Nat
    /\ MinAuto <= MaxAuto
BY LayoutAssumption

\* int(a / b) is a number, and rounds down what has no sign.
LEMMA CutInt ==
    ASSUME NEW a \in Int, NEW b \in Int \ {0}
    PROVE  Cut(a, b) \in Int
<1> DEFINE x == Magnitude(a)
           y == Magnitude(b)
<1>1. x \in Nat /\ y \in Nat \ {0}
  BY DEF Magnitude
<1>2. Cut(a, b) = IF (a < 0) = (b < 0) THEN x \div y ELSE -(x \div y)
  BY DEF Cut
<1> HIDE DEF x, y
<1>3. x \div y \in Nat
  BY <1>1, Floor
<1> QED
  BY <1>2, <1>3

LEMMA CutNat ==
    ASSUME NEW a \in Nat, NEW b \in Nat \ {0}
    PROVE  Cut(a, b) = a \div b
<1>1. Magnitude(a) = a /\ Magnitude(b) = b /\ ~(a < 0) /\ ~(b < 0)
  BY DEF Magnitude
<1> QED
  BY <1>1 DEF Cut

LEMMA IsRow ==
    ASSUME NEW S, NEW n \in Nat, NEW f \in [1..n -> S]
    PROVE  f \in Seq(S) /\ Len(f) = n /\ DOMAIN f = 1..n /\ \A i \in 1..n : f[i] \in S
OBVIOUS

\* The elements of a row whose measures are known, and none of them negative.
Measured ==
    /\ row \in Seq(Element)
    /\ natural \in Seq(Int) /\ Len(natural) = Len(row)

NonNegative == Measured /\ natural \in Seq(Nat)

LEMMA ElementFields ==
    ASSUME row \in Seq(Element), NEW i \in 1..Len(row)
    PROVE  /\ row[i] \in Element /\ row[i].kind \in Kind
           /\ row[i].size \in Nat \ {0} /\ row[i].flex \in Nat
<1>1. row[i] \in Element
  OBVIOUS
<1> QED
  BY <1>1, LayoutAssumption

LEMMA TotalNat ==
    ASSUME NEW s \in Seq(Nat)
    PROVE  Total(s) \in Nat
<1>1. Len(s) \in Nat /\ \A i \in 1..Len(s) : s[i] \in Nat
  OBVIOUS
<1> QED
  BY <1>1, SumNat DEF Total

LEMMA NaturalInt ==
    ASSUME Measured
    PROVE  /\ Len(row) \in Nat /\ \A i \in 1..Len(row) : natural[i] \in Int
           /\ Total(natural) = Sums(natural)[Len(row)] /\ Total(natural) \in Int
<1>1. Len(row) \in Nat /\ \A i \in 1..Len(row) : natural[i] \in Int
  BY DEF Measured
<1>2. Len(row) \in 0..Len(row)
  BY <1>1
<1>3. Sums(natural)[Len(row)] \in Int
  BY <1>1, <1>2, SumsInt
<1> QED
  BY <1>1, <1>3 DEF Measured, Total

LEMMA NaturalTotal ==
    ASSUME NonNegative
    PROVE  /\ Len(row) \in Nat /\ \A i \in 1..Len(row) : natural[i] \in Nat
           /\ Total(natural) = Sums(natural)[Len(row)] /\ Total(natural) \in Nat
<1>1. Len(row) \in Nat /\ \A i \in 1..Len(row) : natural[i] \in Nat
  BY DEF NonNegative, Measured
<1>2. Sums(natural)[Len(row)] \in Nat
  BY <1>1, SumNat
<1> QED
  BY <1>1, <1>2 DEF NonNegative, Measured, Total

LEMMA BudgetInt ==
    ASSUME row \in Seq(Element), NEW w \in Int
    PROVE  Budget(w) \in Int
BY Params DEF Budget, AtLeast

\* A row has a greediest child: max() of the flexes, the first of several.
LEMMA GreediestIs ==
    ASSUME row \in Seq(Element), row # <<>>
    PROVE  /\ Greediest \in 1..Len(row)
           /\ \A j \in 1..Len(row) : row[j].flex <= row[Greediest].flex
<1> DEFINE Best(k, i) == \A j \in 1..k : row[j].flex < row[i].flex
                                         \/ (row[j].flex = row[i].flex /\ i <= j)
           S == {k \in Nat : 1 <= k /\ k <= Len(row) => \E i \in 1..k : Best(k, i)}
<1>1. Len(row) \in Nat /\ 1 <= Len(row) /\ DOMAIN row = 1..Len(row)
  OBVIOUS
<1>2. \A j \in 1..Len(row) : row[j].flex \in Nat
  BY ElementFields
<1>3. 0 \in S
  OBVIOUS
<1> HIDE DEF Best
<1>4. ASSUME NEW k \in Nat, k \in S PROVE k + 1 \in S
  <2> SUFFICES ASSUME k + 1 <= Len(row) PROVE \E i \in 1..(k + 1) : Best(k + 1, i)
    OBVIOUS
  <2>1. CASE k = 0
    <3>1. Best(1, 1)
      BY <1>1, <1>2 DEF Best
    <3> QED
      BY <2>1, <3>1
  <2>2. CASE k # 0
    <3>1. PICK i \in 1..k : Best(k, i)
      BY <1>4, <2>2
    <3>2. k + 1 \in 1..Len(row) /\ i \in 1..Len(row)
      BY <1>1
    <3>3. CASE row[k + 1].flex <= row[i].flex
      <4> SUFFICES ASSUME NEW j \in 1..(k + 1)
                   PROVE  row[j].flex < row[i].flex \/ (row[j].flex = row[i].flex /\ i <= j)
        BY <3>2 DEF Best
      <4>1. CASE j \in 1..k
        BY <3>1, <4>1 DEF Best
      <4>2. CASE j = k + 1
        BY <1>2, <3>2, <3>3, <4>2
      <4> QED
        BY <4>1, <4>2
    <3>4. CASE row[k + 1].flex > row[i].flex
      <4> SUFFICES ASSUME NEW j \in 1..(k + 1)
                   PROVE  row[j].flex < row[k + 1].flex
                          \/ (row[j].flex = row[k + 1].flex /\ k + 1 <= j)
        BY <3>2 DEF Best
      <4>1. CASE j \in 1..k
        <5>1. row[j].flex <= row[i].flex /\ j \in 1..Len(row)
          BY <1>1, <1>2, <3>1, <3>2, <4>1 DEF Best
        <5> QED
          BY <1>2, <3>2, <3>4, <5>1
      <4>2. CASE j = k + 1
        BY <4>2
      <4> QED
        BY <4>1, <4>2
    <3>5. row[k + 1].flex <= row[i].flex \/ row[k + 1].flex > row[i].flex
      BY <1>2, <3>2
    <3> QED
      BY <3>3, <3>4, <3>5
  <2> QED
    BY <2>1, <2>2
<1> HIDE DEF S
<1>5. Nat \subseteq S
  BY <1>3, <1>4, Induction
<1>6. \E i \in 1..Len(row) : Best(Len(row), i)
  <2>1. Len(row) \in S
    BY <1>1, <1>5
  <2> QED
    BY <1>1, <2>1 DEF S
<1>7. Greediest \in 1..Len(row) /\ Best(Len(row), Greediest)
  BY <1>1, <1>6, Zenon DEF Greediest, Best
<1>8. row[Greediest].flex \in Nat
  BY <1>2, <1>7
<1> QED
  BY <1>2, <1>7, <1>8 DEF Best

\* A surplus: what is given out adds up, and goes to who asked for it.
LEMMA GrownIs ==
    ASSUME Measured, NEW over \in Nat, Elastic # {}
    PROVE  /\ Grown(over) \in Seq(Int) /\ Len(Grown(over)) = Len(row)
           /\ Total(Grown(over)) = Total(natural) + over
           /\ \A i \in 1..Len(row) : natural[i] <= Grown(over)[i]
           /\ \A i \in 1..Len(row) \ Elastic : Grown(over)[i] = natural[i]
<1> DEFINE n == Len(row)
           d == Total(Flexes)
           f == [i \in 1..n |-> (over * row[i].flex) \div d]
           c == [i \in 1..n |-> 1]
           s == GrownRounded(over)
           G == Greediest
           r == over - Sums(f)[n]
<1>1. /\ n \in Nat /\ row \in Seq(Element) /\ row # <<>>
      /\ \A i \in 1..n : natural[i] \in Int /\ row[i].flex \in Nat
      /\ Total(natural) = Sums(natural)[n] /\ Total(natural) \in Int
  BY NaturalInt, ElementFields DEF Measured, Elastic
<1>2. G \in 1..n /\ row[G].flex > 0
  <2>1. PICK i \in 1..n : row[i].flex > 0
    BY DEF Elastic
  <2>2. G \in 1..n /\ row[i].flex <= row[G].flex
    BY <1>1, GreediestIs
  <2> QED
    BY <1>1, <2>1, <2>2
<1>3. /\ Flexes \in [1..n -> Nat] /\ \A i \in 1..n : Flexes[i] = row[i].flex
      /\ d = Sums(Flexes)[n]
  BY <1>1, IsRow DEF Flexes, Total
<1>4. d \in Nat \ {0}
  <2>1. Sums(Flexes)[n] \in Nat
    BY <1>1, <1>3, SumNat
  <2>2. Flexes[G] <= Sums(Flexes)[n]
    BY <1>1, <1>2, <1>3, SumsElement
  <2> QED
    BY <1>1, <1>2, <1>3, <2>1, <2>2
<1>5. \A i \in 1..n : f[i] = (over * Flexes[i]) \div d
  BY <1>3
<1>6. \A i \in 1..n : c[i] = 1
  OBVIOUS
<1> HIDE DEF n, d, f, c, G
<1>7. Sums(f)[n] \in Nat /\ d * Sums(f)[n] <= over * d
  <2>1. AreShares(f, over, Flexes, d, c, n)
    BY <1>1, <1>3, <1>5, <1>6 DEF AreShares
  <2>2. n \in Nat
    BY <1>1
  <2>3. AddUp(f, over, Flexes, d, c, n)
    BY <1>4, <2>1, <2>2, SharesRounded
  <2> QED
    BY <1>3, <2>3 DEF AddUp
<1>8. r \in Nat
  <2>1. d * Sums(f)[n] < d * (over + 1)
    <3>1. d * (over + 1) = d * over + d * 1
      BY <1>4, Times
    <3> QED
      BY <1>4, <1>7, <3>1
  <2>2. Sums(f)[n] <= over
    BY <1>4, <1>7, <2>1, Cancel
  <2> QED
    BY <1>7, <2>2
<1>9. \A i \in 1..n : f[i] \in Nat /\ (row[i].flex = 0 => f[i] = 0)
  <2> SUFFICES ASSUME NEW i \in 1..n PROVE f[i] \in Nat /\ (row[i].flex = 0 => f[i] = 0)
    OBVIOUS
  <2>1. over * Flexes[i] \in Nat
    BY <1>1, <1>3
  <2>2. f[i] \in Nat
    BY <1>4, <1>5, <2>1, Floor
  <2>3. CASE row[i].flex = 0
    <3>1. over * Flexes[i] = 0
      BY <1>3, <2>3
    <3>2. 0 \div d = 0
      BY <1>4
    <3> QED
      BY <1>5, <2>2, <3>1, <3>2
  <2> QED
    BY <2>2, <2>3
<1>10. s \in [1..n -> Int] /\ \A i \in 1..n : s[i] = natural[i] + f[i]
  <2>1. s = [i \in 1..n |-> natural[i] + (over * row[i].flex) \div d]
    BY DEF GrownRounded, n, d
  <2>2. \A i \in 1..n : (over * row[i].flex) \div d = f[i]
    BY DEF f
  <2> HIDE DEF s
  <2>3. s = [i \in 1..n |-> natural[i] + f[i]]
    BY <2>1, <2>2
  <2> QED
    BY <1>1, <1>9, <2>3
<1>11. Total(s) = Total(natural) + Sums(f)[n]
  <2>1. n \in 0..n
    BY <1>1
  <2>2. \A i \in 1..n : natural[i] \in Int /\ f[i] \in Int /\ s[i] = natural[i] + f[i]
    BY <1>1, <1>9, <1>10
  <2> HIDE DEF s
  <2>3. Sums(s)[n] = Sums(natural)[n] + Sums(f)[n]
    <3>1. n \in Nat /\ AreSums(s, natural, f, n)
      BY <1>1, <2>2 DEF AreSums
    <3> QED
      BY <3>1, SumsPlus
  <2>4. Len(s) = n
    BY <1>1, <1>10, IsRow
  <2> QED
    BY <1>1, <2>1, <2>3, <2>4 DEF Total
<1>12. Grown(over) = [s EXCEPT ![G] = s[G] + r]
  <2>1. over - (Total(s) - Total(natural)) = r
    BY <1>1, <1>7, <1>11
  <2>2. Grown(over) = [s EXCEPT ![G] = s[G] + over - (Total(s) - Total(natural))]
    BY DEF Grown, G
  <2>3. s[G] + over - (Total(s) - Total(natural)) = s[G] + r
    <3>1. s[G] \in Int
      BY <1>2, <1>10
    <3> HIDE DEF s, r
    <3>2. Total(s) \in Int
      BY <1>1, <1>7, <1>11
    <3> QED
      BY <1>1, <2>1, <3>1, <3>2
  <2> HIDE DEF s, r
  <2> QED
    BY <2>2, <2>3
<1> HIDE DEF s, r
<1>13. Grown(over) \in [1..n -> Int]
  BY <1>2, <1>8, <1>10, <1>12
<1>14. \A i \in 1..n : Grown(over)[i] = IF i = G THEN s[i] + r ELSE s[i]
  BY <1>2, <1>10, <1>12
<1>15. Total(Grown(over)) = Total(natural) + over
  <2> DEFINE t == Grown(over)
  <2>1. \A j \in 1..n : s[j] \in Int /\ t[j] \in Int /\ (j # G => t[j] = s[j])
    BY <1>10, <1>13, <1>14
  <2>2. t[G] = s[G] + r /\ s[G] \in Int
    BY <1>2, <1>10, <1>14
  <2>3. Len(t) = n /\ Len(s) = n
    BY <1>1, <1>10, <1>13, IsRow
  <2> HIDE DEF t
  <2>4. Sums(t)[n] = Sums(s)[n] + t[G] - s[G]
    BY <1>1, <1>2, <2>1, SumsChanged
  <2>5. Total(s) \in Int
    BY <1>1, <1>7, <1>11
  <2>6. Total(t) = Total(s) + r
    BY <1>8, <2>2, <2>3, <2>4, <2>5 DEF Total
  <2>7. Total(natural) + Sums(f)[n] + r = Total(natural) + over
    BY <1>1, <1>7 DEF r
  <2> QED
    BY <1>11, <2>6, <2>7 DEF t
<1>16. /\ Grown(over) \in Seq(Int) /\ Len(Grown(over)) = n
  BY <1>1, <1>13, IsRow
<1>17. \A i \in 1..n : natural[i] <= Grown(over)[i]
  <2> SUFFICES ASSUME NEW i \in 1..n PROVE natural[i] <= Grown(over)[i]
    OBVIOUS
  <2>1. natural[i] \in Int /\ f[i] \in Nat /\ s[i] = natural[i] + f[i]
    BY <1>1, <1>9, <1>10
  <2> QED
    BY <1>8, <1>14, <2>1
<1>18. \A i \in 1..n \ Elastic : Grown(over)[i] = natural[i]
  <2> SUFFICES ASSUME NEW i \in 1..n \ Elastic PROVE Grown(over)[i] = natural[i]
    OBVIOUS
  <2>1. row[i].flex = 0
    BY <1>1 DEF Elastic, n
  <2>2. i # G
    BY <1>2, <2>1
  <2>3. f[i] = 0 /\ natural[i] \in Int
    BY <1>1, <1>9, <2>1
  <2>4. s[i] = natural[i] + f[i]
    BY <1>10
  <2>5. Grown(over)[i] = s[i]
    BY <1>14, <2>2
  <2> QED
    BY <2>3, <2>4, <2>5
<1> QED
  BY <1>15, <1>16, <1>17, <1>18 DEF n

\* A deficit: the flexible children give what they can, short of it by less
\* than one pixel each.
LEMMA YieldedIs ==
    ASSUME NonNegative, NEW short \in Nat \ {0}
    PROVE  /\ Yielded(short) \in Seq(Nat) /\ Len(Yielded(short)) = Len(row)
           /\ \A i \in 1..Len(row) \ Elastic : Yielded(short)[i] = natural[i]
           /\ ElasticTotal \in Nat /\ Cardinality(Elastic) \in Nat
           /\ Total(Yielded(short)) \in Nat
           /\ Total(natural) - short <= Total(Yielded(short))
           /\ ElasticTotal >= short =>
                /\ Total(Yielded(short)) <= Total(natural) - short + Cardinality(Elastic) - 1
                /\ (\A i \in Elastic : Yielded(short)[i] = 0) =>
                        Total(Yielded(short)) = Total(natural) - short
<1> DEFINE n == Len(row)
           g == [i \in 1..n |-> IF i \in Elastic THEN natural[i] ELSE 0]
           c == [i \in 1..n |-> IF i \in Elastic THEN 1 ELSE 0]
           E == ElasticTotal
           d == IF E > 0 THEN E ELSE 1
           a == AtMost(short, E)
           f == [i \in 1..n |-> (a * g[i]) \div d]
           y == Yielded(short)
           N == Sums(natural)[n]
           F == Sums(f)[n]
           C == Cardinality(Elastic)
<1>1. /\ n \in Nat /\ \A i \in 1..n : natural[i] \in Nat
      /\ Total(natural) = N /\ N \in Nat /\ Elastic \subseteq 1..n
  BY NaturalTotal DEF Elastic
<1>2. /\ \A i \in 1..n : g[i] \in Nat /\ (i \in Elastic => g[i] = natural[i])
                         /\ (i \notin Elastic => g[i] = 0)
      /\ \A i \in 1..n : c[i] \in {0, 1} /\ (c[i] = 1 <=> i \in Elastic)
      /\ E = Sums(g)[n]
  <2>1. E = Total(g) /\ Len(g) = n
    BY <1>1 DEF ElasticTotal
  <2> QED
    BY <1>1, <2>1 DEF Total
<1>3. C \in Nat /\ Sums(c)[n] = C
  <2>1. {i \in 1..n : c[i] = 1} = Elastic
    BY <1>1, <1>2
  <2>2. n \in Nat /\ \A i \in 1..n : c[i] \in {0, 1}
    BY <1>1, <1>2
  <2> HIDE DEF n, c
  <2>3. IsFiniteSet({i \in 1..n : c[i] = 1}) /\ Sums(c)[n] = Cardinality({i \in 1..n : c[i] = 1})
    BY <2>2, SumsCount
  <2> QED
    BY <2>1, <2>3, FS_CardinalityType
<1>4. E \in Nat /\ d \in Nat \ {0} /\ a \in Nat /\ a <= d /\ a <= E /\ a <= short
  <2>1. E \in Nat
    BY <1>1, <1>2, SumNat
  <2> QED
    BY <2>1 DEF AtMost
<1>5. \A i \in 1..n : f[i] = (a * g[i]) \div d
  OBVIOUS
<1>6. \A i \in 1..n : y[i] = natural[i] - f[i]
  <2> SUFFICES ASSUME NEW i \in 1..n PROVE y[i] = natural[i] - f[i]
    OBVIOUS
  <2>1. y[i] = IF i \in Elastic /\ E > 0 THEN natural[i] - Cut(a * natural[i], E) ELSE natural[i]
    BY DEF Yielded
  <2>2. natural[i] \in Nat /\ a * natural[i] \in Nat
    BY <1>1, <1>4
  <2> HIDE DEF g, y, f, a, E
  <2>3. CASE i \in Elastic /\ E > 0
    <3>1. Cut(a * natural[i], E) = (a * natural[i]) \div E
      BY <1>4, <2>2, <2>3, CutNat
    <3> QED
      BY <1>2, <1>5, <2>1, <2>3, <3>1
  <2>4. CASE i \notin Elastic
    <3>1. a * g[i] = 0 /\ 0 \div d = 0
      BY <1>2, <1>4, <2>4
    <3> QED
      BY <1>5, <2>1, <2>2, <2>4, <3>1
  <2>5. CASE ~(E > 0)
    <3>1. a = 0
      BY <1>4, <2>5
    <3>2. a * g[i] = 0 /\ 0 \div d = 0
      BY <1>2, <1>4, <3>1
    <3> QED
      BY <1>5, <2>1, <2>2, <2>5, <3>2
  <2> QED
    BY <2>3, <2>4, <2>5
<1>7. y = [i \in 1..n |-> y[i]]
  BY DEF Yielded
<1> HIDE DEF n, g, c, E, d, a, f, y, N
<1>8. AddUp(f, a, g, d, c, n)
  <2>1. AreShares(f, a, g, d, c, n)
    BY <1>2, <1>5 DEF AreShares
  <2> QED
    BY <1>1, <1>4, <2>1, SharesRounded
<1>9. F \in Nat /\ d * F <= a * E /\ a * E <= d * F + (d - 1) * C
  BY <1>2, <1>3, <1>8 DEF AddUp
<1> HIDE DEF F, C
<1>10. \A i \in 1..n : f[i] \in Nat /\ f[i] <= g[i] /\ g[i] <= natural[i]
  <2> SUFFICES ASSUME NEW i \in 1..n PROVE f[i] \in Nat /\ f[i] <= g[i] /\ g[i] <= natural[i]
    OBVIOUS
  <2>1. g[i] \in Nat /\ g[i] <= natural[i]
    BY <1>1, <1>2
  <2>2. (a * g[i]) \div d \in Nat /\ (a * g[i]) \div d <= g[i]
    BY <1>4, <2>1, ShareAtMost
  <2> QED
    BY <1>5, <2>1, <2>2
<1>11. \A i \in 1..n : y[i] \in Nat
  <2> SUFFICES ASSUME NEW i \in 1..n PROVE y[i] \in Nat
    OBVIOUS
  <2>1. f[i] \in Nat /\ f[i] <= natural[i] /\ natural[i] \in Nat
    BY <1>1, <1>2, <1>10
  <2> QED
    BY <1>6, <2>1
<1>12. y \in Seq(Nat) /\ Len(y) = n
  <2>1. y \in [1..n -> Nat]
    BY <1>7, <1>11
  <2> QED
    BY <1>1, <2>1, IsRow
<1>13. Total(y) = N - F
  <2>1. n \in 0..n
    BY <1>1
  <2>2. \A i \in 1..n : y[i] \in Int /\ f[i] \in Int /\ natural[i] = y[i] + f[i]
    BY <1>1, <1>6, <1>10, <1>11
  <2>3. Sums(natural)[n] = Sums(y)[n] + Sums(f)[n]
    <3>1. n \in Nat /\ AreSums(natural, y, f, n)
      BY <1>1, <2>2 DEF AreSums
    <3> QED
      BY <3>1, SumsPlus
  <2>4. Sums(y)[n] \in Nat
    BY <1>1, <1>11, SumNat
  <2> QED
    BY <1>9, <1>12, <2>1, <2>3, <2>4 DEF Total, N, F
<1>14. Total(y) \in Nat
  BY <1>1, <1>11, <1>12, SumNat DEF Total
<1>15. F <= short
  <2>1. CASE E = 0
    <3>1. a = 0 /\ d = 1
      BY <1>4, <2>1 DEF d
    <3>2. d * F = F /\ a * E = 0
      BY <1>9, <2>1, <3>1
    <3> QED
      BY <1>9, <3>2
  <2>2. CASE E # 0
    <3>1. d = E
      BY <1>4, <2>2 DEF d
    <3>2. E * F <= E * a
      BY <1>4, <1>9, <3>1
    <3>3. E * a <= E * short
      BY <1>4, TimesOrder
    <3>4. E * (short + 1) = E * short + E * 1
      BY <1>4, Times
    <3>5. E * F < E * (short + 1)
      <4>1. E * F \in Int /\ E * a \in Int /\ E * short \in Int /\ E * 1 = E
        BY <1>4, <1>9
      <4> QED
        BY <1>4, <2>2, <3>2, <3>3, <3>4, <4>1
    <3> QED
      BY <1>4, <1>9, <2>2, <3>5, Cancel
  <2> QED
    BY <2>1, <2>2
<1>16. ASSUME E >= short PROVE Total(y) <= N - short + C - 1
  <2>1. a = short /\ d = E /\ E > 0
    BY <1>4, <1>16 DEF AtMost, a, d
  <2>2. E * short <= E * F + (E - 1) * C
    BY <1>4, <1>9, <2>1
  <2>3. C > 0
    <3>1. CASE C = 0
      <4>1. IsFiniteSet(1..n)
        BY <1>1, FS_Interval
      <4>2. IsFiniteSet(Elastic)
        BY <1>1, <4>1, FS_Subset
      <4>3. Elastic = {}
        BY <3>1, <4>2, FS_EmptySet DEF C
      <4>4. \A i \in 1..n : g[i] = 0
        BY <1>2, <4>3
      <4> QED
        BY <1>1, <1>2, <2>1, <4>4, SumsZero
    <3> QED
      BY <1>3, <3>1 DEF C
  <2>4. (E - 1) * C < E * C
    <3>1. E * C = (E - 1) * C + C
      BY <1>3, <1>4 DEF C
    <3>2. (E - 1) * C \in Int
      BY <1>3, <1>4 DEF C
    <3> QED
      BY <1>3, <2>3, <3>1, <3>2 DEF C
  <2>5. E * (F + C) = E * F + E * C
    BY <1>3, <1>4, <1>9, Times DEF C
  <2>6. E * short < E * ((F + C - 1) + 1)
    <3>1. /\ E * short \in Int /\ E * F \in Int /\ E * C \in Int /\ (E - 1) * C \in Int
          /\ (F + C - 1) + 1 = F + C
      BY <1>3, <1>4, <1>9 DEF C
    <3> QED
      BY <2>2, <2>4, <2>5, <3>1
  <2>7. short <= F + C - 1
    BY <1>3, <1>4, <1>9, <2>1, <2>6, Cancel DEF C
  <2> QED
    BY <1>1, <1>3, <1>9, <1>13, <2>7 DEF C
<1>17. ASSUME E >= short, \A i \in Elastic : y[i] = 0 PROVE Total(y) = N - short
  <2>1. \A i \in 1..n : f[i] = g[i]
    <3> SUFFICES ASSUME NEW i \in 1..n PROVE f[i] = g[i]
      OBVIOUS
    <3>1. natural[i] \in Nat /\ f[i] \in Nat /\ f[i] <= g[i] /\ g[i] \in Nat
      BY <1>1, <1>2, <1>10
    <3>2. CASE i \in Elastic
      BY <1>2, <1>6, <1>17, <3>1, <3>2
    <3>3. CASE i \notin Elastic
      BY <1>2, <3>1, <3>3
    <3> QED
      BY <3>2, <3>3
  <2>2. n \in 0..n
    BY <1>1
  <2>3. F = E
    BY <1>1, <1>2, <2>1, <2>2, SumsSame DEF F
  <2> QED
    BY <1>1, <1>4, <1>9, <1>13, <1>15, <1>17, <2>3
<1>18. \A i \in 1..n \ Elastic : y[i] = natural[i]
  BY <1>1, <1>2, <1>6, <1>10
<1> QED
  <2>1. N - short <= Total(y)
    BY <1>1, <1>9, <1>13, <1>15
  <2> QED
    BY <1>1, <1>3, <1>4, <1>12, <1>14, <1>16, <1>17, <1>18, <2>1 DEF n, E, y, C

\* What the flexible could not give is taken from all, short of it by less than
\* one pixel each; a single pixel only from a child that has all there is.
LEMMA SqueezedIs ==
    ASSUME row \in Seq(Element), NEW s \in Seq(Nat), Len(s) = Len(row), NEW over \in Nat \ {0}
    PROVE  /\ Squeezed(s, over) \in Seq(Nat) /\ Len(Squeezed(s, over)) = Len(row)
           /\ Total(s) \in Nat
           /\ over <= Total(s) => Total(Squeezed(s, over)) <= Total(s) - over + Len(row) - 1
           /\ over = 1 => \A i \in 1..Len(row) : s[i] < Total(s) \/ s[i] = 0 =>
                                Squeezed(s, over)[i] = s[i]
<1> DEFINE n == Len(row)
           T == Total(s)
           d == OrOne(T)
           f == [i \in 1..n |-> (over * s[i]) \div d]
           c == [i \in 1..n |-> 1]
           q == Squeezed(s, over)
           F == Sums(f)[n]
<1>1. n \in Nat /\ \A i \in 1..n : s[i] \in Nat
  OBVIOUS
<1>2. T = Sums(s)[n] /\ T \in Nat /\ d \in Nat \ {0} /\ T <= d /\ (T > 0 => d = T)
  <2>1. T = Sums(s)[n] /\ Sums(s)[n] \in Nat
    BY <1>1, SumNat DEF Total
  <2> QED
    BY <2>1 DEF OrOne
<1>3. /\ \A i \in 1..n : f[i] = (over * s[i]) \div d
      /\ \A i \in 1..n : c[i] = 1
      /\ q = [i \in 1..n |-> AtLeast(0, s[i] - f[i])]
  <2>1. \A i \in 1..n : over * s[i] \in Nat
    BY <1>1
  <2>2. \A i \in 1..n : Cut(over * s[i], d) = f[i]
    BY <1>2, <2>1, CutNat
  <2>3. q = [i \in 1..n |-> AtLeast(0, s[i] - Cut(over * s[i], d))]
    BY DEF Squeezed
  <2> HIDE DEF n, T, d, f, q
  <2>4. q = [i \in 1..n |-> AtLeast(0, s[i] - f[i])]
    BY <2>2, <2>3
  <2> QED
    BY <2>4 DEF f, c
<1> HIDE DEF n, T, d, f, c, q
<1>4. \A i \in 1..n : f[i] \in Nat
  <2> SUFFICES ASSUME NEW i \in 1..n PROVE f[i] \in Nat
    OBVIOUS
  <2>1. over * s[i] \in Nat
    BY <1>1
  <2> QED
    BY <1>2, <1>3, <2>1, Floor
<1>5. q \in [1..n -> Nat]
  BY <1>1, <1>3, <1>4 DEF AtLeast
<1>6. q \in Seq(Nat) /\ Len(q) = n
  BY <1>1, <1>5, IsRow
<1>7. ASSUME over <= T PROVE Total(q) <= T - over + n - 1
  <2>1. T > 0 /\ d = T
    BY <1>2, <1>7
  <2>2. \A i \in 1..n : f[i] <= s[i]
    BY <1>1, <1>2, <1>3, <1>7, <2>1, ShareAtMost
  <2>3. \A i \in 1..n : q[i] \in Int /\ f[i] \in Int /\ s[i] = q[i] + f[i]
    BY <1>1, <1>3, <1>4, <2>2 DEF AtLeast
  <2>4. Sums(s)[n] = Sums(q)[n] + Sums(f)[n]
    <3>1. AreSums(s, q, f, n) /\ n \in Nat
      BY <1>1, <2>3 DEF AreSums
    <3> QED
      BY <3>1, SumsPlus
  <2>5. n \in 0..n
    BY <1>1
  <2>6. Sums(q)[n] \in Nat
    BY <1>1, <1>5, SumNat
  <2>7. AreShares(f, over, s, d, c, n)
    BY <1>1, <1>3 DEF AreShares
  <2>8. AddUp(f, over, s, d, c, n)
    BY <1>1, <1>2, <2>7, SharesRounded
  <2>9. Sums(c)[n] = n
    <3>1. \A i \in 1..n : c[i] \in {0, 1}
      BY <1>3
    <3>2. {i \in 1..n : c[i] = 1} = 1..n
      BY <1>3
    <3>3. Sums(c)[n] = Cardinality({i \in 1..n : c[i] = 1})
      BY <1>1, <3>1, SumsCount
    <3>4. Cardinality(1..n) = n
      BY <1>1, FS_Interval
    <3> QED
      BY <3>2, <3>3, <3>4
  <2>10. over * T <= T * F + (T - 1) * n
    BY <1>2, <2>1, <2>8, <2>9 DEF AddUp
  <2>17. F \in Nat
    BY <2>8 DEF AddUp
  <2> HIDE DEF F
  <2>11. n > 0
    <3>1. CASE n = 0
      BY <1>2, <2>1, <3>1, SumsStep
    <3> QED
      BY <1>1, <3>1
  <2>12. (T - 1) * n < T * n
    <3>1. T * n = (T - 1) * n + n
      BY <1>1, <1>2
    <3>2. (T - 1) * n \in Int
      BY <1>1, <1>2
    <3> QED
      BY <1>1, <2>11, <3>1, <3>2
  <2>13. T * (F + n) = T * F + T * n
    BY <1>1, <1>2, <2>17, Times
  <2>14. T * over < T * ((F + n - 1) + 1)
    <3>0. T \in Int /\ over \in Int /\ F \in Int /\ n \in Int /\ T - 1 \in Int
      BY <1>1, <1>2, <2>17
    <3>1. /\ T * over \in Int /\ T * F \in Int /\ T * n \in Int /\ (T - 1) * n \in Int
          /\ T * over = over * T
      BY <3>0
    <3>2. (F + n - 1) + 1 = F + n
      BY <1>1, <2>17
    <3> QED
      BY <2>10, <2>12, <2>13, <3>1, <3>2
  <2>15. over <= F + n - 1
    BY <1>1, <1>2, <2>1, <2>17, <2>14, Cancel
  <2>16. Total(q) = T - F
    <3>1. Total(q) = Sums(q)[n] /\ T = Sums(q)[n] + F
      BY <1>2, <1>6, <2>4, <2>5 DEF Total, F
    <3> QED
      BY <2>6, <2>17, <3>1
  <2>18. T \in Nat /\ n \in Nat
    BY <1>1, <1>2
  <2> QED
    BY <2>15, <2>16, <2>17, <2>18
<1>8. ASSUME over = 1, NEW i \in 1..n, s[i] < T \/ s[i] = 0 PROVE q[i] = s[i]
  <2>1. over * s[i] = s[i] /\ s[i] \in Nat
    BY <1>1, <1>8
  <2>2. s[i] < d
    BY <1>1, <1>2, <1>8
  <2>3. s[i] \div d = 0
    BY <1>2, <2>1, <2>2, FloorOfLess
  <2>4. f[i] = 0
    BY <1>3, <2>1, <2>3
  <2> QED
    BY <1>3, <2>1, <2>4 DEF AtLeast
<1> QED
  BY <1>2, <1>6, <1>7, <1>8 DEF n, T, q

\* Measures that may be negative: what is cut from a child is no more than it
\* has, and what is squeezed is never less than nothing.
LEMMA YieldedKeeps ==
    ASSUME Measured, NEW short \in Nat \ {0}
    PROVE  /\ Yielded(short) \in Seq(Int) /\ Len(Yielded(short)) = Len(row)
           /\ \A i \in 1..Len(row) : natural[i] >= 0 => Yielded(short)[i] >= 0
<1> DEFINE n == Len(row)
           g == [i \in 1..n |-> IF i \in Elastic THEN natural[i] ELSE 0]
           E == ElasticTotal
           a == AtMost(short, E)
           y == Yielded(short)
<1>1. n \in Nat /\ \A i \in 1..n : natural[i] \in Int
  BY NaturalInt
<1>2. E \in Int
  <2>1. \A i \in 1..n : g[i] \in Int
    BY <1>1
  <2>2. E = Sums(g)[n] /\ n \in 0..n
    BY <1>1 DEF ElasticTotal, Total
  <2> HIDE DEF g, E, n
  <2> QED
    BY <1>1, <2>1, <2>2, SumsInt
<1>3. y = [i \in 1..n |-> IF i \in Elastic /\ E > 0 THEN natural[i] - Cut(a * natural[i], E)
                                                     ELSE natural[i]]
  BY DEF Yielded
<1> HIDE DEF n, g, E, a, y
<1>4. ASSUME NEW i \in 1..n PROVE y[i] \in Int /\ (natural[i] >= 0 => y[i] >= 0)
  <2>1. CASE i \in Elastic /\ E > 0
    <3>1. a \in Nat \ {0} /\ a <= E /\ E \in Nat \ {0}
      BY <1>2, <2>1 DEF AtMost, a
    <3>2. a * natural[i] \in Int
      BY <1>1, <3>1
    <3>3. Cut(a * natural[i], E) \in Int
      BY <3>1, <3>2, CutInt
    <3>4. y[i] = natural[i] - Cut(a * natural[i], E) /\ natural[i] \in Int
      BY <1>1, <1>3, <2>1
    <3>5. ASSUME natural[i] >= 0 PROVE Cut(a * natural[i], E) <= natural[i]
      <4>1. natural[i] \in Nat /\ a * natural[i] \in Nat
        BY <1>1, <3>1, <3>5
      <4> QED
        BY <3>1, <4>1, CutNat, ShareAtMost
    <3> QED
      BY <3>3, <3>4, <3>5
  <2>2. CASE ~(i \in Elastic /\ E > 0)
    BY <1>1, <1>3, <2>2
  <2> QED
    BY <2>1, <2>2
<1>5. y \in [1..n -> Int]
  BY <1>3, <1>4
<1> QED
  BY <1>1, <1>4, <1>5, IsRow DEF n, y

LEMMA SqueezedKeeps ==
    ASSUME row \in Seq(Element), NEW s \in Seq(Int), Len(s) = Len(row), NEW over \in Int
    PROVE  /\ Squeezed(s, over) \in Seq(Int) /\ Len(Squeezed(s, over)) = Len(row)
           /\ \A i \in 1..Len(row) : Squeezed(s, over)[i] >= 0
<1> DEFINE n == Len(row)
           d == OrOne(Total(s))
           q == Squeezed(s, over)
<1>1. n \in Nat /\ \A i \in 1..n : s[i] \in Int
  OBVIOUS
<1>2. d \in Int \ {0}
  <2>1. Total(s) = Sums(s)[n] /\ n \in 0..n
    BY <1>1 DEF Total
  <2>2. Total(s) \in Int
    BY <1>1, <2>1, SumsInt
  <2> QED
    BY <2>2 DEF OrOne
<1>3. q = [i \in 1..n |-> AtLeast(0, s[i] - Cut(over * s[i], d))]
  BY DEF Squeezed
<1> HIDE DEF n, d, q
<1>4. ASSUME NEW i \in 1..n PROVE q[i] \in Int /\ q[i] >= 0
  <2>1. over * s[i] \in Int
    BY <1>1
  <2>2. Cut(over * s[i], d) \in Int
    BY <1>2, <2>1, CutInt
  <2> QED
    BY <1>1, <1>3, <2>2 DEF AtLeast
<1>5. q \in [1..n -> Int]
  BY <1>3, <1>4
<1> QED
  BY <1>1, <1>4, <1>5, IsRow DEF n, q

-----------------------------------------------------------------------------
(***************************************************************************)
(* What _distribute grants.                                                *)
(***************************************************************************)
\* For any budget every child gets a size, as large as it asked for when there
\* is room for all, and negative only if that is what it asked for.
LEMMA SharesAre ==
    ASSUME Measured, NEW b \in Int
    PROVE  /\ Shares(b) \in Seq(Int) /\ Len(Shares(b)) = Len(row)
           /\ b >= Total(natural) => \A i \in 1..Len(row) : natural[i] <= Shares(b)[i]
           /\ \A i \in 1..Len(row) : natural[i] >= 0 => Shares(b)[i] >= 0
<1> DEFINE l == b - Total(natural)
           y == Yielded(-l)
<1>1. /\ Total(natural) \in Int /\ l \in Int /\ Len(row) \in Nat
      /\ natural \in Seq(Int) /\ Len(natural) = Len(row) /\ row \in Seq(Element)
      /\ \A i \in 1..Len(row) : natural[i] \in Int
  BY NaturalInt DEF Measured
<1>2. Shares(b) = CASE l > 0 -> IF Elastic = {} THEN natural ELSE Grown(l)
                    [] l < 0 -> IF Total(y) > b THEN Squeezed(y, Total(y) - b) ELSE y
                    [] OTHER -> natural
  BY DEF Shares
<1> HIDE DEF l, y
<1>3. CASE l = 0 \/ (l > 0 /\ Elastic = {})
  <2>1. Shares(b) = natural
    BY <1>1, <1>2, <1>3
  <2> QED
    BY <1>1, <2>1
<1>4. CASE l > 0 /\ Elastic # {}
  <2>1. Shares(b) = Grown(l) /\ l \in Nat
    BY <1>1, <1>2, <1>4
  <2>2. /\ Shares(b) \in Seq(Int) /\ Len(Shares(b)) = Len(row)
        /\ \A i \in 1..Len(row) : natural[i] <= Shares(b)[i]
    BY <1>4, <2>1, GrownIs
  <2>3. \A i \in 1..Len(row) : Shares(b)[i] \in Int
    BY <2>2
  <2> QED
    BY <1>1, <2>2, <2>3
<1>5. CASE l < 0
  <2>1. -l \in Nat \ {0} /\ ~(b >= Total(natural))
    BY <1>1, <1>5 DEF l
  <2>2. /\ y \in Seq(Int) /\ Len(y) = Len(row)
        /\ \A i \in 1..Len(row) : natural[i] >= 0 => y[i] >= 0
    BY <2>1, YieldedKeeps DEF y
  <2>3. CASE Total(y) > b
    <3>1. Shares(b) = Squeezed(y, Total(y) - b)
      BY <1>1, <1>2, <1>5, <2>3
    <3>2. Total(y) - b \in Int
      <4>1. \A i \in 1..Len(row) : y[i] \in Int
        BY <2>2
      <4>2. Total(y) = Sums(y)[Len(row)] /\ Len(row) \in 0..Len(row)
        BY <1>1, <2>2 DEF Total
      <4>3. Total(y) \in Int
        BY <1>1, <4>1, <4>2, SumsInt
      <4> QED
        BY <4>3
    <3> QED
      BY <1>1, <2>1, <2>2, <3>1, <3>2, SqueezedKeeps
  <2>4. CASE ~(Total(y) > b)
    <3>1. Shares(b) = y
      BY <1>1, <1>2, <1>5, <2>4
    <3> QED
      BY <2>1, <2>2, <3>1
  <2> QED
    BY <2>3, <2>4
<1> QED
  BY <1>1, <1>3, <1>4, <1>5

\* A surplus is given out to the last pixel.
LEMMA SurplusGiven ==
    ASSUME Measured, NEW b \in Int, b > Total(natural), Elastic # {}
    PROVE  Total(Shares(b)) = b
<1>1. Total(natural) \in Int
  BY NaturalInt
<1>2. Shares(b) = Grown(b - Total(natural)) /\ b - Total(natural) \in Nat
  BY <1>1 DEF Shares
<1>3. Total(Grown(b - Total(natural))) = Total(natural) + (b - Total(natural))
  BY <1>2, GrownIs
<1> QED
  BY <1>1, <1>2, <1>3

\* A deficit: which of the two results it is.
LEMMA DeficitShares ==
    ASSUME NonNegative, NEW b \in Int, b < Total(natural)
    PROVE  LET y == Yielded(Total(natural) - b)
           IN  /\ Total(natural) - b \in Nat \ {0}
               /\ Total(y) > b => Shares(b) = Squeezed(y, Total(y) - b)
               /\ ~(Total(y) > b) => Shares(b) = y
<1>1. Total(natural) \in Nat
  BY NaturalTotal
<1>2. -(b - Total(natural)) = Total(natural) - b /\ ~(b - Total(natural) > 0) /\ b - Total(natural) < 0
  BY <1>1
<1> QED
  BY <1>1, <1>2 DEF Shares

\* A deficit is taken but for what rounding leaves.
LEMMA DeficitTaken ==
    ASSUME NonNegative, row # <<>>, NEW b \in Nat, b < Total(natural)
    PROVE  Total(Shares(b)) <= b + Len(row) - 1
<1> DEFINE k == Total(natural) - b
           y == Yielded(k)
<1>1. Total(natural) \in Nat /\ k \in Nat \ {0} /\ Len(row) \in Nat /\ Len(row) >= 1
  BY NaturalTotal DEF NonNegative, Measured
<1>2. /\ Total(y) > b => Shares(b) = Squeezed(y, Total(y) - b)
      /\ ~(Total(y) > b) => Shares(b) = y
  BY DeficitShares
<1>3. y \in Seq(Nat) /\ Len(y) = Len(row) /\ Total(y) \in Nat
  BY <1>1, YieldedIs
<1> HIDE DEF y, k
<1>4. CASE Total(y) > b
  <2>1. Total(y) - b \in Nat \ {0} /\ Total(y) - b <= Total(y)
    BY <1>3, <1>4
  <2>2. Total(Squeezed(y, Total(y) - b)) <= Total(y) - (Total(y) - b) + Len(row) - 1
    BY <1>3, <2>1, SqueezedIs DEF NonNegative, Measured
  <2>3. Total(y) - (Total(y) - b) + Len(row) - 1 = b + Len(row) - 1
    BY <1>1, <1>3
  <2> QED
    BY <1>2, <1>4, <2>2, <2>3
<1>5. CASE ~(Total(y) > b)
  BY <1>1, <1>2, <1>3, <1>5
<1> QED
  BY <1>4, <1>5

\* Rigid children keep their size while at most two flexible ones can give what
\* is missing.
LEMMA RigidKept ==
    ASSUME NonNegative, NEW b \in Int, ElasticTotal >= Total(natural) - b,
           Cardinality(Elastic) <= 2, NEW i \in 1..Len(row) \ Elastic
    PROVE  Shares(b)[i] = natural[i]
<1> DEFINE k == Total(natural) - b
           y == Yielded(k)
<1>1. Total(natural) \in Nat /\ k \in Int /\ Len(row) \in Nat
  BY NaturalTotal
<1>2. CASE k = 0
  <2>1. Shares(b) = natural
    BY <1>1, <1>2 DEF Shares
  <2> QED
    BY <2>1
<1>3. CASE k < 0
  <2>1. b - Total(natural) > 0 /\ b - Total(natural) \in Nat
    BY <1>1, <1>3
  <2>2. CASE Elastic = {}
    BY <2>1, <2>2 DEF Shares
  <2>3. CASE Elastic # {}
    <3>1. Shares(b) = Grown(b - Total(natural))
      BY <2>1, <2>3 DEF Shares
    <3> QED
      BY <2>1, <2>3, <3>1, GrownIs DEF NonNegative
  <2> QED
    BY <2>2, <2>3
<1>4. CASE k > 0
  <2>1. k \in Nat \ {0} /\ b < Total(natural)
    BY <1>1, <1>4
  <2>2. /\ Total(y) > b => Shares(b) = Squeezed(y, Total(y) - b)
        /\ ~(Total(y) > b) => Shares(b) = y
    BY <2>1, DeficitShares
  <2>3. /\ y \in Seq(Nat) /\ Len(y) = Len(row) /\ Total(y) \in Nat
        /\ y[i] = natural[i]
        /\ Cardinality(Elastic) \in Nat
        /\ Total(y) <= Total(natural) - k + Cardinality(Elastic) - 1
        /\ (\A j \in Elastic : y[j] = 0) => Total(y) = Total(natural) - k
    <3>1. ElasticTotal >= k
      OBVIOUS
    <3> HIDE DEF k
    <3> QED
      BY <2>1, <3>1, YieldedIs
  <2> HIDE DEF y
  <2>4. CASE ~(Total(y) > b)
    BY <2>2, <2>3, <2>4
  <2>5. CASE Total(y) > b
    <3>0. /\ Total(y) \in Nat /\ Cardinality(Elastic) \in Nat /\ Total(natural) - k = b
          /\ Total(y) <= Total(natural) - k + Cardinality(Elastic) - 1
      BY <1>1, <2>3
    <3>1. Total(y) - b = 1
      <4>1. Total(y) <= b + 2 - 1
        BY <3>0
      <4> QED
        BY <2>5, <3>0, <4>1
    <3>2. PICK j \in Elastic : y[j] # 0
      <4>1. Total(y) # Total(natural) - k
        BY <2>5, <3>0
      <4> QED
        BY <2>3, <4>1
    <3>3. j \in 1..Len(row) /\ j # i
      BY <3>2 DEF Elastic
    <3>4. y[i] < Total(y)
      <4>1. \A m \in 1..Len(row) : y[m] \in Nat
        BY <2>3
      <4>2. y[i] + y[j] <= Sums(y)[Len(row)]
        BY <1>1, <3>3, <4>1, SumsTwo
      <4>3. Total(y) = Sums(y)[Len(row)]
        BY <2>3 DEF Total
      <4>4. y[i] \in Nat /\ y[j] \in Nat /\ y[j] > 0
        BY <3>2, <3>3, <4>1
      <4>5. Total(y) \in Nat
        BY <2>3
      <4> QED
        BY <4>2, <4>3, <4>4, <4>5
    <3>5. Squeezed(y, 1)[i] = y[i]
      BY <2>3, <3>4, SqueezedIs DEF NonNegative, Measured
    <3> QED
      BY <2>2, <2>3, <2>5, <3>1, <3>5
  <2> QED
    BY <2>4, <2>5
<1> QED
  BY <1>1, <1>2, <1>3, <1>4

-----------------------------------------------------------------------------
(***************************************************************************)
(* What elements measure.                                                  *)
(***************************************************************************)
LEMMA FloorInt ==
    ASSUME NEW x \in Int, NEW d \in Nat \ {0}
    PROVE  x \div d \in Int /\ d * (x \div d) <= x /\ x <= d * (x \div d) + (d - 1)
OBVIOUS

LEMMA IsElement ==
    ASSUME NEW e \in Element
    PROVE  /\ e.kind \in Kind /\ e.size \in Nat \ {0} /\ e.flex \in Nat
           /\ e.glyph \in Nat /\ e.line \in Nat /\ e.align \in Align
BY LayoutAssumption

LEMMA AcrossNat == Across \in Nat
BY Params DEF Across, AtLeast

LEMMA WideNat ==
    ASSUME NEW e \in Element
    PROVE  Wide(e) \in Nat /\ (Wide(e) # 0 => Wide(e) = e.size)
BY IsElement DEF Wide

LEMMA ModuleInt ==
    ASSUME NEW e \in Element, NEW w \in Int
    PROVE  Module(e, w) \in Int
<1>1. AtMost(w, Across) \in Int
  BY AcrossNat DEF AtMost
<1> QED
  BY <1>1, IsElement, FloorInt DEF Module

\* The element e, given avail pixels, fits and measures w.
Fits(e, avail, w) == ~DoesNotFit(e, avail) /\ w = Measure(e, avail)

\* A measure is a number of pixels, negative only for a picture stretched to
\* less than no room; bars measure their width.
LEMMA MeasureIs ==
    ASSUME NEW e \in Element, NEW avail \in Int, NEW w, Fits(e, avail, w)
    PROVE  /\ w \in Int
           /\ w >= 0 \/ (e.kind = "stretch" /\ avail < 0)
           /\ e.kind = "barcode" => w = Wide(e)
<1>1. e.kind \in Kind /\ e.size \in Nat \ {0} /\ Wide(e) \in Nat
  BY IsElement, WideNat
<1>2. CASE e.kind = "qr"
  <2>1. Module(e, avail) \in Nat
    BY <1>2, ModuleInt DEF Fits, DoesNotFit, MIN_QR_MODULE_PX
  <2>2. w = Module(e, avail) * e.size
    BY <1>2 DEF Fits, Measure, CodeWidth
  <2> QED
    BY <1>1, <1>2, <2>1, <2>2
<1>3. CASE e.kind = "barcode"
  BY <1>1, <1>3 DEF Fits, Measure
<1>4. CASE e.kind = "text"
  BY <1>1, <1>4 DEF Fits, Measure, TextWidth, AtMost, AtLeast
<1>5. CASE e.kind \in {"contain", "cover", "stretch"}
  BY <1>1, <1>5 DEF Fits, Measure, PictureWidth, AtMost, AtLeast
<1> QED
  BY <1>1, <1>2, <1>3, <1>4, <1>5 DEF Kind

-----------------------------------------------------------------------------
(***************************************************************************)
(* The invariant.                                                          *)
(***************************************************************************)
\* A row whose pixels have been shared out.
Granted == pc = "place" \/ (pc = "done" /\ row # <<>>)

\* Which variables hold something at which point.
Shape ==
    /\ Len(natural) <= Len(row)
    /\ pc = "column" => row = <<>> /\ natural = <<>>
    /\ pc \in {"measure", "draw", "column"} => boxes = <<>> /\ sizes = <<>>
    /\ pc = "place" => Len(boxes) <= Len(row)
    /\ Granted => Len(natural) = Len(row) /\ sizes = Shares(Budget(length))

\* What the i-th element of a row is measured with in the first pass, when the
\* elements measure m.
FirstRoom(m, i) == AtLeast(0, Budget(MaxAuto) - Sums(m)[i - 1])

\* What natural holds: what the elements measured in the pass that is on.
Asked ==
    /\ pc = "measure" =>
        \A i \in 1..Len(natural) : Fits(row[i], FirstRoom(natural, i), natural[i])
    /\ pc \in {"draw", "place", "done"} =>
        \A i \in 1..Len(natural) : Fits(row[i], Budget(length), natural[i])

\* The length is what a first pass with the measures m made it.
FirstPass(m) ==
    /\ m \in Seq(Nat) /\ Len(m) = Len(row)
    /\ \A i \in 1..Len(row) : Fits(row[i], FirstRoom(m, i), m[i])
    /\ length = AtLeast(MinAuto, AtMost(Total(m) + Gap * (Len(row) - 1) + 2 * Padding, MaxAuto))

\* natural forgets what the first pass measured; the length remembers.
Remembered ==
    pinned = AUTO /\ (pc = "draw" \/ Granted) => \E m : FirstPass(m)

IInv == TypeOK /\ Shape /\ Asked /\ Remembered

\* In the sizing pass no measure is negative.
LEMMA FirstNat ==
    ASSUME TypeOK, pc = "measure"
    PROVE  natural \in Seq(Nat)
<1>1. natural \in Seq(Int) /\ \A i \in 1..Len(natural) : natural[i] >= 0
  BY DEF TypeOK, Stretched
<1>2. natural \in [1..Len(natural) -> Nat] /\ Len(natural) \in Nat
  BY <1>1
<1> QED
  BY <1>2, IsRow

\* The sign of what the variables hold.
Signs ==
    /\ natural \in Seq(Int) /\ \A i \in 1..Len(natural) : natural[i] >= 0 \/ Stretched(i)
    /\ sizes \in Seq(Int) /\ \A i \in 1..Len(sizes) : sizes[i] >= 0 \/ Stretched(i)

LEMMA SignsKept ==
    ASSUME TypeOK, UNCHANGED <<row, length, natural, sizes>>, pc' # "measure" \/ pc' = pc
    PROVE  Signs'
<1>1. \A i : Stretched(i) => Stretched(i)'
  BY DEF Stretched, Budget
<1> QED
  BY <1>1 DEF TypeOK, Signs

LEMMA InitIInv == Init => IInv
<1> SUFFICES ASSUME Init PROVE IInv
  OBVIOUS
<1>1. row \in Seq(Element) /\ pinned \in Pinned \cup {AUTO} /\ column \in Columns
  <2>1. row \in Rows \/ row = <<>>
    BY DEF Init
  <2>2. row \in Seq(Element)
    <3>1. <<>> \in Seq(Element)
      OBVIOUS
    <3> QED
      BY <2>1, <3>1, LayoutAssumption
  <2>3. pinned \in Pinned \cup {AUTO}
    BY DEF Init
  <2>4. column \in Columns
    <3>1. (CHOOSE c \in Columns : TRUE) \in Columns
      BY LayoutAssumption, Zenon
    <3> QED
      BY <3>1 DEF Init
  <2> QED
    BY <2>2, <2>3, <2>4
<1>2. <<>> \in Seq(Nat) /\ <<>> \in Seq(Int) /\ <<>> \in Seq([box : Span, ink : Span]) /\ Len(<<>>) = 0
  OBVIOUS
<1>3. pinned \in Nat /\ (pinned \in Pinned => pinned # AUTO)
  BY <1>1, LayoutAssumption DEF AUTO
<1>4. TypeOK
  BY <1>1, <1>2, <1>3 DEF Init, TypeOK
<1>5. pc \in {"measure", "draw", "column"} /\ (pc = "draw" => pinned # AUTO)
  BY DEF Init
<1>6. Shape
  BY <1>1, <1>2, <1>5 DEF Init, Shape, Granted
<1>7. Asked /\ Remembered
  BY <1>2, <1>5 DEF Init, Asked, Remembered, Granted
<1> QED
  BY <1>4, <1>6, <1>7 DEF IInv

\* What an element measures is added to what the others did.
LEMMA Appended ==
    ASSUME NEW s \in Seq(Int), NEW x \in Int
    PROVE  LET t == Append(s, x)
           IN  /\ t \in Seq(Int) /\ Len(t) = Len(s) + 1
               /\ t[Len(s) + 1] = x
               /\ \A i \in 1..Len(s) : t[i] = s[i]
               /\ \A k \in 0..Len(s) : Sums(t)[k] = Sums(s)[k]
<1> DEFINE t == Append(s, x)
<1>1. /\ t \in Seq(Int) /\ Len(t) = Len(s) + 1
      /\ t[Len(s) + 1] = x /\ Len(s) \in Nat
      /\ \A i \in 1..Len(s) : t[i] = s[i]
  OBVIOUS
<1> HIDE DEF t
<1>2. \A k \in 0..Len(s) : Sums(t)[k] = Sums(s)[k]
  BY <1>1, SumsSame
<1> QED
  BY <1>1, <1>2 DEF t

\* Refusing a label keeps the invariant: nothing but pc changes.
LEMMA RefuseIInv == IInv /\ Refuse => IInv'
<1> SUFFICES ASSUME IInv, Refuse PROVE IInv'
  OBVIOUS
<1>1. TypeOK'
  <2>1. Signs'
    BY SignsKept DEF IInv, Refuse
  <2> QED
    BY <2>1 DEF IInv, TypeOK, Refuse, Signs
<1>2. Shape'
  BY DEF IInv, Shape, Granted, Refuse
<1>3. Asked' /\ Remembered'
  BY DEF Asked, Remembered, Granted, Refuse
<1> QED
  BY <1>1, <1>2, <1>3 DEF IInv

\* An element measured, in either pass.
LEMMA MeasureStep ==
    ASSUME IInv, NEW avail \in Int, MeasureWith(avail),
           \/ pc = "measure" /\ avail = AtLeast(0, Budget(MaxAuto) - Total(natural))
           \/ pc = "draw" /\ avail = Budget(length)
    PROVE  IInv'
<1> DEFINE k == Len(natural)
           e == row[k + 1]
<1>1. /\ row \in Seq(Element) /\ natural \in Seq(Int) /\ k \in Nat /\ k < Len(row)
      /\ Len(row) \in Nat /\ k + 1 \in 1..Len(row)
  BY DEF IInv, TypeOK, MeasureWith
<1>2. CASE DoesNotFit(e, avail)
  <2>1. Refuse
    BY <1>2 DEF MeasureWith
  <2> QED
    BY <2>1, RefuseIInv
<1>3. CASE ~DoesNotFit(e, avail)
  <2>1. /\ natural' = Append(natural, Measure(e, avail))
        /\ UNCHANGED <<row, column, pinned, length, pc, sizes, cursor, boxes, edges>>
    BY <1>3 DEF MeasureWith
  <2>2. Fits(e, avail, Measure(e, avail)) /\ e \in Element
    BY <1>1, <1>3 DEF Fits
  <2>3. /\ Measure(e, avail) \in Int
        /\ Measure(e, avail) >= 0 \/ (e.kind = "stretch" /\ avail < 0)
    BY <2>2, MeasureIs
  <2>4. /\ natural' \in Seq(Int) /\ Len(natural') = k + 1
        /\ natural'[k + 1] = Measure(e, avail)
        /\ \A i \in 1..k : natural'[i] = natural[i]
        /\ \A i \in 0..k : Sums(natural')[i] = Sums(natural)[i]
    <3> DEFINE x == Measure(e, avail)
               t == Append(natural, x)
    <3>1. x \in Int /\ natural \in Seq(Int)
      BY <1>1, <2>3
    <3> HIDE DEF x
    <3>2. /\ t \in Seq(Int) /\ Len(t) = Len(natural) + 1
          /\ t[Len(natural) + 1] = x
          /\ \A i \in 1..Len(natural) : t[i] = natural[i]
          /\ \A i \in 0..Len(natural) : Sums(t)[i] = Sums(natural)[i]
      BY <3>1, Appended
    <3> QED
      BY <2>1, <3>2 DEF x
  <2>5. TypeOK'
    <3>1. \A i : Stretched(i)' <=> Stretched(i)
      BY <2>1 DEF Stretched, Budget
    <3>2. Measure(e, avail) >= 0 \/ Stretched(k + 1)
      <4>1. avail < 0 => pc = "draw" /\ avail = Budget(length)
        BY DEF AtLeast
      <4> QED
        BY <2>3, <4>1 DEF Stretched
    <3>3. ASSUME NEW i \in 1..(k + 1) PROVE natural'[i] >= 0 \/ Stretched(i)'
      <4>1. CASE i = k + 1
        BY <2>4, <3>1, <3>2, <4>1
      <4>2. CASE i \in 1..k
        BY <2>4, <3>1, <4>2 DEF IInv, TypeOK
      <4> QED
        BY <1>1, <4>1, <4>2
    <3>4. \A i \in 1..Len(sizes) : sizes'[i] >= 0 \/ Stretched(i)'
      BY <2>1, <3>1 DEF IInv, TypeOK
    <3> QED
      BY <2>1, <2>4, <3>3, <3>4 DEF IInv, TypeOK
  <2>6. Shape'
    BY <1>1, <2>1, <2>4 DEF IInv, Shape, Granted
  <2>7. Remembered'
    BY <2>1 DEF IInv, Remembered, Granted, FirstPass, FirstRoom, Budget
  <2>8. Asked'
    <3>1. CASE pc = "measure"
      <4> SUFFICES ASSUME NEW i \in 1..(k + 1)
                   PROVE  Fits(row[i], FirstRoom(natural, i)', natural'[i])
        BY <2>1, <2>4, <3>1 DEF Asked
      <4>1. FirstRoom(natural, i)' = FirstRoom(natural, i)
        <5>1. i - 1 \in 0..k
          BY <1>1
        <5> QED
          BY <2>1, <2>4, <5>1 DEF FirstRoom, Budget
      <4>2. CASE i = k + 1
        <5>1. FirstRoom(natural, i) = avail
          BY <1>1, <3>1, <4>2 DEF FirstRoom, Total
        <5> QED
          BY <2>2, <2>4, <4>1, <4>2, <5>1
      <4>3. CASE i \in 1..k
        BY <2>4, <3>1, <4>1, <4>3 DEF IInv, Asked
      <4> QED
        BY <1>1, <4>2, <4>3
    <3>2. CASE pc = "draw"
      <4> SUFFICES ASSUME NEW i \in 1..(k + 1)
                   PROVE  Fits(row[i], Budget(length), natural'[i])
        BY <2>1, <2>4, <3>2 DEF Asked, Budget
      <4>1. CASE i = k + 1
        BY <2>2, <2>4, <3>2, <4>1
      <4>2. CASE i \in 1..k
        BY <2>4, <3>2, <4>2 DEF IInv, Asked
      <4> QED
        BY <1>1, <4>1, <4>2
    <3> QED
      BY <3>1, <3>2
  <2> QED
    BY <2>5, <2>6, <2>7, <2>8 DEF IInv
<1> QED
  BY <1>2, <1>3

LEMMA MeasureNextIInv == IInv /\ MeasureNext => IInv'
<1> SUFFICES ASSUME IInv, MeasureNext PROVE IInv'
  OBVIOUS
<1>1. AtLeast(0, Budget(MaxAuto) - Total(natural)) \in Int
  <2>1. natural \in Seq(Nat) /\ row \in Seq(Element)
    BY FirstNat DEF IInv, TypeOK, MeasureNext
  <2>2. Total(natural) \in Nat
    BY <2>1, TotalNat
  <2>3. Budget(MaxAuto) \in Int
    BY <2>1, BudgetInt, Params
  <2> QED
    BY <2>2, <2>3 DEF AtLeast
<1> QED
  BY <1>1, MeasureStep DEF MeasureNext

LEMMA MeasureAgainIInv == IInv /\ MeasureAgain => IInv'
<1> SUFFICES ASSUME IInv, MeasureAgain PROVE IInv'
  OBVIOUS
<1>1. Budget(length) \in Int
  BY BudgetInt DEF IInv, TypeOK
<1> QED
  BY <1>1, MeasureStep DEF MeasureAgain

\* The length is found, and natural starts again.
LEMMA SizeIInv == IInv /\ SizeToContent => IInv'
<1> SUFFICES ASSUME IInv, SizeToContent PROVE IInv'
  OBVIOUS
<1>1. /\ pc = "measure" /\ Len(natural) = Len(row)
      /\ length' = AtLeast(MinAuto, AtMost(Content, MaxAuto))
      /\ pc' = "draw" /\ natural' = <<>>
      /\ UNCHANGED <<row, column, pinned, sizes, cursor, boxes, edges>>
  BY DEF SizeToContent
<1>2. row \in Seq(Element) /\ natural \in Seq(Nat) /\ Len(row) \in Nat
  BY <1>1, FirstNat DEF IInv, TypeOK
<1>3. <<>> \in Seq(Int) /\ Len(<<>>) = 0
  OBVIOUS
<1>4. length' \in Nat
  <2>1. Total(natural) \in Nat
    BY <1>2, TotalNat
  <2>2. Gap * (Len(row) - 1) \in Int
    BY <1>2, Params
  <2>3. Content \in Int
    BY <2>1, <2>2, Params DEF Content
  <2> QED
    BY <1>1, <2>3, Params DEF AtLeast, AtMost
<1>5. TypeOK'
  <2>1. sizes = <<>>
    BY <1>1 DEF IInv, Shape
  <2> QED
    BY <1>1, <1>3, <1>4, <2>1 DEF IInv, TypeOK
<1>6. Shape'
  BY <1>1, <1>2, <1>3 DEF IInv, Shape, Granted
<1>7. Asked'
  BY <1>1, <1>3 DEF Asked
<1>8. Remembered'
  <2>2. \A i \in 1..Len(row) : Fits(row[i], FirstRoom(natural, i), natural[i])
    BY <1>1 DEF IInv, Asked
  <2>3. \E m : FirstPass(m)'
    <3> DEFINE m == natural
    <3>1. /\ m \in Seq(Nat) /\ Len(m) = Len(row)
          /\ \A i \in 1..Len(row) : Fits(row[i], FirstRoom(m, i), m[i])
          /\ length' = AtLeast(MinAuto, AtMost(Total(m) + Gap * (Len(row) - 1) + 2 * Padding,
                                               MaxAuto))
      BY <1>1, <1>2, <2>2 DEF Content
    <3> QED
      BY <1>1, <3>1 DEF FirstPass, FirstRoom, Budget
  <2> QED
    BY <2>3 DEF Remembered
<1> QED
  BY <1>5, <1>6, <1>7, <1>8 DEF IInv

\* The shares depend on the row, what it measured and the length.
LEMMA SharesKept ==
    ASSUME UNCHANGED <<row, natural, length>>
    PROVE  Shares(Budget(length))' = Shares(Budget(length))
BY DEF Shares, Budget, Elastic, Grown, GrownRounded, Flexes, Greediest, Yielded, ElasticTotal,
       Squeezed

LEMMA DistributeIInv == IInv /\ Distribute => IInv'
<1> SUFFICES ASSUME IInv, Distribute PROVE IInv'
  OBVIOUS
<1>1. /\ pc = "draw" /\ Len(natural) = Len(row)
      /\ sizes' = Shares(Budget(length))
      /\ pc' = "place" /\ cursor' = Padding
      /\ UNCHANGED <<row, column, pinned, length, natural, boxes, edges>>
  BY DEF Distribute
<1>2. Measured /\ Budget(length) \in Int
  BY <1>1, BudgetInt DEF IInv, TypeOK, Measured
<1>3. /\ sizes' \in Seq(Int) /\ Len(sizes') = Len(row)
      /\ \A i \in 1..Len(row) : natural[i] >= 0 => sizes'[i] >= 0
  BY <1>1, <1>2, SharesAre
<1>4. TypeOK'
  <2>1. \A i : Stretched(i) => Stretched(i)'
    BY <1>1 DEF Stretched, Budget
  <2>2. \A i \in 1..Len(row) : natural[i] >= 0 \/ Stretched(i)
    BY <1>1 DEF IInv, TypeOK
  <2> QED
    BY <1>1, <1>3, <2>1, <2>2, Params DEF IInv, TypeOK
<1>5. Shape'
  <2>1. Shares(Budget(length))' = Shares(Budget(length))
    BY <1>1, SharesKept
  <2>2. boxes = <<>> /\ Len(<<>>) = 0 /\ Len(row) \in Nat
    BY <1>1 DEF IInv, TypeOK, Shape
  <2> QED
    BY <1>1, <2>1, <2>2 DEF IInv, Shape, Granted
<1>6. Asked'
  BY <1>1 DEF IInv, Asked, Budget
<1>7. Remembered'
  BY <1>1 DEF IInv, Remembered, Granted, FirstPass, FirstRoom, Budget
<1> QED
  BY <1>4, <1>5, <1>6, <1>7 DEF IInv

\* What a child is granted and what it asked for are known when it is drawn.
LEMMA ChildIs ==
    ASSUME IInv, Granted, NEW i \in 1..Len(row)
    PROVE  /\ Measured /\ Len(sizes) = Len(row)
           /\ row[i] \in Element /\ natural[i] \in Int /\ sizes[i] \in Int
           /\ row[i].kind = "barcode" => natural[i] = Wide(row[i])
           /\ Leftover >= 0 => natural[i] <= sizes[i]
<1>1. Measured /\ sizes = Shares(Budget(length)) /\ Budget(length) \in Int
  BY BudgetInt DEF IInv, TypeOK, Shape, Measured
<1>2. row[i] \in Element
  BY ElementFields DEF IInv, TypeOK
<1>3. /\ sizes \in Seq(Int) /\ Len(sizes) = Len(row)
      /\ Budget(length) >= Total(natural) => natural[i] <= sizes[i]
  BY <1>1, SharesAre
<1>4. natural[i] \in Int /\ Total(natural) \in Int
  BY <1>1, NaturalInt
<1>5. sizes[i] \in Int
  BY <1>3
<1>6. Fits(row[i], Budget(length), natural[i])
  BY <1>1 DEF IInv, Asked, Granted, Measured
<1>7. row[i].kind = "barcode" => natural[i] = Wide(row[i])
  BY <1>1, <1>2, <1>6, MeasureIs
<1>8. Leftover >= 0 => natural[i] <= sizes[i]
  BY <1>1, <1>3, <1>4 DEF Leftover
<1> QED
  BY <1>1, <1>2, <1>3, <1>4, <1>5, <1>7, <1>8

\* The ink is so many pixels wide: no more than the box, but for a picture that
\* covers, for bars, and for a text's glyph.
LEMMA InkIs ==
    ASSUME NEW e \in Element, NEW n \in Int, NEW main \in Int, NEW w \in InkWidths(e, n, main)
    PROVE  /\ w \in Int
           /\ e.kind \in {"qr", "contain", "stretch"} => w <= main
           /\ e.kind = "barcode" => w = e.size
           /\ e.kind = "text" => w = main \/ (w = e.glyph /\ main < e.glyph)
<1>1. e.kind \in Kind /\ e.size \in Nat \ {0} /\ e.glyph \in Nat /\ Wide(e) \in Nat
  BY IsElement, WideNat
<1>2. AtMost(main, n) \in Int /\ AtMost(main, n) <= main
  BY DEF AtMost
<1>3. CASE e.kind = "qr"
  <2> DEFINE x == AtMost(main, n)
  <2>1. w = (x \div e.size) * e.size
    BY <1>3 DEF InkWidths, CodeInk
  <2> HIDE DEF x
  <2>2. x \in Int /\ x <= main
    BY <1>2 DEF x
  <2>3. x \div e.size \in Int /\ e.size * (x \div e.size) <= x
    BY <1>1, <2>2, FloorInt
  <2>4. (x \div e.size) * e.size = e.size * (x \div e.size) /\ (x \div e.size) * e.size \in Int
    BY <1>1, <2>3
  <2> QED
    BY <1>3, <2>1, <2>2, <2>3, <2>4
<1>4. CASE e.kind \in {"contain", "stretch", "cover"}
  BY <1>1, <1>2, <1>4 DEF InkWidths, PictureInk, AtLeast
<1>5. CASE e.kind = "text"
  BY <1>1, <1>5 DEF InkWidths, AtLeast
<1>6. CASE e.kind = "barcode"
  BY <1>1, <1>6 DEF InkWidths
<1> QED
  BY <1>1, <1>3, <1>4, <1>5, <1>6 DEF Kind

LEMMA OffsetInt ==
    ASSUME NEW e, NEW main \in Int, NEW w \in Int
    PROVE  Offset(e, main, w) \in Int
<1>1. main - w \in Int /\ (main - w) \div 2 \in Int
  OBVIOUS
<1> QED
  BY <1>1 DEF Offset

\* An element that is drawn, and not refused: where.
BoxOf(i)  == [from |-> cursor, to |-> cursor + AtLeast(0, sizes[i])]
InksOf(i) == Inks(row[i], natural[i], sizes[i])

LEMMA PlaceIs ==
    ASSUME Place
    PROVE  \/ Refuse
           \/ /\ pc = "place" /\ Len(boxes) < Len(row)
              /\ \E ink \in InksOf(Len(boxes) + 1) :
                    boxes' = Append(boxes, [box |-> BoxOf(Len(boxes) + 1), ink |-> ink])
              /\ cursor' = cursor + AtLeast(0, sizes[Len(boxes) + 1]) + Gap
              /\ UNCHANGED <<row, column, pinned, length, pc, natural, sizes, edges>>
BY DEF Place, BoxOf, InksOf

LEMMA SpansAre ==
    ASSUME IInv, Granted, NEW i \in 1..Len(row), NEW ink \in InksOf(i)
    PROVE  BoxOf(i) \in Span /\ ink \in Span
<1> DEFINE e == row[i]
           n == natural[i]
           main == sizes[i]
<1>1. cursor \in Nat /\ e \in Element /\ n \in Int /\ main \in Int
  BY ChildIs DEF IInv, TypeOK
<1>2. BoxOf(i) \in Span
  BY <1>1 DEF BoxOf, Span, AtLeast
<1>3. ink \in Inks(e, n, main)
  BY DEF InksOf
<1> HIDE DEF e, n, main
<1>4. CASE Blank(e, n, main)
  BY <1>1, <1>2, <1>3, <1>4 DEF Inks, Span
<1>5. CASE ~Blank(e, n, main)
  <2>1. PICK w \in InkWidths(e, n, main) :
           ink = [from |-> cursor + Offset(e, main, w), to |-> cursor + Offset(e, main, w) + w]
    BY <1>3, <1>5 DEF Inks
  <2>2. w \in Int
    BY <1>1, InkIs
  <2>3. Offset(e, main, w) \in Int
    BY <1>1, <2>2, OffsetInt
  <2> QED
    BY <1>1, <1>2, <2>1, <2>2, <2>3 DEF Span
<1> QED
  BY <1>2, <1>4, <1>5

LEMMA PlaceIInv == IInv /\ Place => IInv'
<1> SUFFICES ASSUME IInv, Place PROVE IInv'
  OBVIOUS
<1> DEFINE k == Len(boxes) + 1
           b(ink) == [box |-> BoxOf(k), ink |-> ink]
<1>1. CASE Refuse
  BY <1>1, RefuseIInv
<1>2. ASSUME pc = "place", Len(boxes) < Len(row),
             NEW ink \in InksOf(k), boxes' = Append(boxes, b(ink)),
             cursor' = cursor + AtLeast(0, sizes[k]) + Gap,
             UNCHANGED <<row, column, pinned, length, pc, natural, sizes, edges>>
      PROVE  IInv'
  <2>1. /\ Granted /\ boxes \in Seq([box : Span, ink : Span]) /\ Len(boxes) \in Nat
        /\ Len(row) \in Nat /\ k \in 1..Len(row) /\ cursor \in Nat
    BY <1>2 DEF IInv, TypeOK, Granted
  <2>2. b(ink) \in [box : Span, ink : Span]
    <3> HIDE DEF k
    <3> QED
      BY <1>2, <2>1, SpansAre
  <2>3. sizes[k] \in Int
    <3> HIDE DEF k
    <3> QED
      BY <2>1, ChildIs
  <2> HIDE DEF b
  <2>4. boxes' \in Seq([box : Span, ink : Span]) /\ Len(boxes') = k
    BY <1>2, <2>1, <2>2
  <2>5. TypeOK'
    <3>1. cursor' \in Nat
      BY <1>2, <2>1, <2>3, Params DEF AtLeast
    <3>2. Signs'
      BY <1>2, SignsKept DEF IInv
    <3> QED
      BY <1>2, <2>4, <3>1, <3>2 DEF IInv, TypeOK, Signs
  <2>6. Shape'
    <3>1. Shares(Budget(length))' = Shares(Budget(length))
      BY <1>2, SharesKept
    <3> QED
      BY <1>2, <2>1, <2>4, <3>1 DEF IInv, Shape, Granted
  <2>7. Asked'
    BY <1>2 DEF IInv, Asked, Budget
  <2>8. Remembered'
    BY <1>2 DEF IInv, Remembered, Granted, FirstPass, FirstRoom, Budget
  <2> QED
    BY <2>5, <2>6, <2>7, <2>8 DEF IInv
<1> QED
  BY <1>1, <1>2, PlaceIs

LEMMA DrawnIInv == IInv /\ Drawn => IInv'
<1> SUFFICES ASSUME IInv, Drawn PROVE IInv'
  OBVIOUS
<1>1. TypeOK'
  <2>1. Signs'
    BY SignsKept DEF IInv, Drawn
  <2> QED
    BY <2>1 DEF IInv, TypeOK, Drawn, Signs
<1>2. Shape'
  <2>1. Shares(Budget(length))' = Shares(Budget(length))
    BY SharesKept DEF Drawn
  <2> QED
    BY <2>1 DEF IInv, Shape, Granted, Drawn
<1>3. Asked'
  BY DEF IInv, Asked, Budget, Drawn
<1>4. Remembered'
  BY DEF IInv, Remembered, Granted, FirstPass, FirstRoom, Budget, Drawn
<1> QED
  BY <1>1, <1>2, <1>3, <1>4 DEF IInv

-----------------------------------------------------------------------------
(***************************************************************************)
(* Vertical labels.                                                        *)
(***************************************************************************)
LEMMA ColumnIs ==
    ASSUME column \in Columns
    PROVE  /\ column.modules \in Nat \ {0} /\ Len(column.lines) \in Nat
           /\ \A i \in 1..Len(column.lines) : column.lines[i] \in Nat \ {0}
<1>1. column.modules \in Nat \ {0} /\ column.lines \in Seq(Nat \ {0})
  BY LayoutAssumption
<1> QED
  BY <1>1

\* Each line is stacked on those before it.
LEMMA StackedIs ==
    ASSUME column \in Columns
    PROVE  /\ \A i \in 0..Len(column.lines) :
                Stacked(i) \in Nat /\ Stacked(i) <= Stacked(Len(column.lines))
           /\ \A i \in 1..Len(column.lines) : column.lines[i] <= Stacked(i)
<1> DEFINE n == Len(column.lines)
           g == [i \in 1..n |-> LINE_GAP_PX + column.lines[i]]
           h(k) == [i \in 1..k |-> LINE_GAP_PX + column.lines[i]]
<1>1. n \in Nat /\ \A i \in 1..n : g[i] \in Nat /\ column.lines[i] \in Nat /\ column.lines[i] <= g[i]
  BY ColumnIs DEF LINE_GAP_PX
<1>2. \A k \in 0..n : Stacked(k) = Sums(g)[k]
  <2> SUFFICES ASSUME NEW k \in 0..n PROVE Stacked(k) = Sums(g)[k]
    OBVIOUS
  <2>1. Stacked(k) = Sums(h(k))[Len(h(k))]
    BY DEF Stacked, Total
  <2>2. Len(h(k)) = k /\ k \in Nat /\ k \in 0..k
    OBVIOUS
  <2>3. \A i \in 1..k : h(k)[i] = g[i]
    OBVIOUS
  <2> HIDE DEF h, g
  <2>4. Sums(h(k))[k] = Sums(g)[k]
    <3> DEFINE u == h(k)
    <3>1. \A i \in 1..k : u[i] = g[i]
      BY <2>3
    <3> HIDE DEF u
    <3>2. Sums(u)[k] = Sums(g)[k]
      BY <2>2, <3>1, SumsSame
    <3> QED
      BY <3>2 DEF u
  <2> QED
    BY <2>1, <2>2, <2>4
<1> HIDE DEF g, n
<1>3. \A k \in 0..n : Sums(g)[k] \in Nat
  BY <1>1, SumsNat
<1>4. \A k \in 0..n : Sums(g)[k] <= Sums(g)[n]
  <2>1. n \in 0..n
    BY <1>1
  <2>2. \A j, k \in 0..n : j <= k => Sums(g)[j] <= Sums(g)[k]
    BY <1>1, SumsGrow
  <2> QED
    BY <2>1, <2>2
<1>5. \A i \in 1..n : column.lines[i] <= Stacked(i)
  <2> SUFFICES ASSUME NEW i \in 1..n PROVE column.lines[i] <= Stacked(i)
    OBVIOUS
  <2>1. i \in Nat /\ i \in 1..i /\ i \in 0..n /\ \A j \in 1..i : g[j] \in Nat
    BY <1>1
  <2>2. g[i] <= Sums(g)[i]
    BY <2>1, SumsElement
  <2> QED
    BY <1>1, <1>2, <1>3, <2>1, <2>2
<1>6. n \in 0..n
  BY <1>1
<1> QED
  BY <1>2, <1>3, <1>4, <1>5, <1>6 DEF n

\* round() is off by half at most, and not at all on a whole number.
LEMMA RoundedIs ==
    ASSUME NEW a \in Nat, NEW m \in Nat \ {0}
    PROVE  /\ Rounded(a, m) \in Nat
           /\ m * (2 * Rounded(a, m)) <= 2 * a + m
           /\ 2 * a <= m * (2 * Rounded(a, m)) + m
<1> DEFINE q == a \div m
           r == 2 * (a % m)
           R == Rounded(a, m)
<1>1. q \in Nat /\ r \in Nat /\ r < 2 * m /\ 2 * a = m * (2 * q) + r
  <2>1. a \div m \in Nat /\ a % m \in Nat /\ a % m < m /\ a = m * (a \div m) + (a % m)
    OBVIOUS
  <2>2. m * (2 * q) = 2 * (m * q)
    BY <2>1
  <2> QED
    BY <2>1, <2>2
<1>2. R = IF r < m \/ (r = m /\ q % 2 = 0) THEN q ELSE q + 1
  BY DEF Rounded
<1> HIDE DEF q, r, R
<1>3. CASE R = q
  <2>1. r <= m
    BY <1>1, <1>2, <1>3
  <2>2. m * (2 * q) \in Int
    BY <1>1
  <2> QED
    BY <1>1, <1>3, <2>1, <2>2 DEF R
<1>4. CASE R = q + 1 /\ R # q
  <2>1. r >= m
    BY <1>1, <1>2, <1>4
  <2>2. m * (2 * q + 2) = m * (2 * q) + m * 2
    BY <1>1, Times
  <2>3. 2 * R = 2 * q + 2 /\ m * 2 = 2 * m /\ m * (2 * q) \in Int
    BY <1>1, <1>4
  <2>4. m * (2 * R) = m * (2 * q) + 2 * m
    BY <2>2, <2>3
  <2> QED
    BY <1>1, <1>4, <2>1, <2>3, <2>4 DEF R
<1> QED
  BY <1>1, <1>2, <1>3, <1>4

LEMMA RoundedWhole ==
    ASSUME NEW k \in Nat, NEW m \in Nat \ {0}
    PROVE  Rounded(k * m, m) = k
<1>1. (k * m) \div m = k /\ (k * m) % m = 0
  OBVIOUS
<1> QED
  BY <1>1 DEF Rounded

LEMMA DivMod ==
    ASSUME NEW x \in Nat, NEW d \in Nat \ {0}
    PROVE  /\ x \div d \in Nat /\ x % d \in Nat /\ x % d < d
           /\ x = d * (x \div d) + (x % d)
OBVIOUS

\* The width of a module: the tape's share of it, rounded down or up.
LEMMA WidthIs ==
    ASSUME column \in Columns, NEW i \in Nat
    PROVE  LET m == column.modules
               q == Tape \div m
               w == Edge(i + 1) - Edge(i)
           IN  /\ w \in Int /\ Edge(i) \in Nat
               /\ Tape % m = 0 => w = q
               /\ q <= w /\ w <= q + 1
<1> DEFINE m == column.modules
           q == Tape \div m
           r == Tape % m
           x == Edge(i)
           y == Edge(i + 1)
           w == y - x
<1>1. m \in Nat \ {0} /\ Tape \in Nat
  BY ColumnIs, Params
<1>2. q \in Nat /\ r \in Nat /\ r < m /\ Tape = m * q + r
  <2> HIDE DEF m
  <2> QED
    BY <1>1, DivMod
<1>3. i * Tape \in Nat /\ (i + 1) * Tape \in Nat /\ (i + 1) * Tape = i * Tape + Tape
  BY <1>1
<1>4. x = Rounded(i * Tape, m) /\ y = Rounded((i + 1) * Tape, m)
  BY DEF Edge
<1> HIDE DEF m, q, r, x, y
<1>5. CASE r = 0
  <2>1. i * Tape = (i * q) * m /\ (i + 1) * Tape = ((i + 1) * q) * m
    BY <1>1, <1>2, <1>5
  <2>2. i * q \in Nat /\ (i + 1) * q \in Nat /\ (i + 1) * q = i * q + q
    BY <1>2
  <2>3. x = i * q /\ y = (i + 1) * q
    BY <1>1, <1>4, <2>1, <2>2, RoundedWhole
  <2>4. w = q
    BY <1>2, <2>2, <2>3
  <2>5. x \in Nat
    BY <2>2, <2>3
  <2>6. w \in Int /\ q <= w /\ w <= q + 1
    BY <1>2, <2>4
  <2> QED
    BY <2>4, <2>5, <2>6 DEF m, q, r, x, y
<1>6. CASE r # 0
  <2>1. /\ x \in Nat /\ m * (2 * x) <= 2 * (i * Tape) + m /\ 2 * (i * Tape) <= m * (2 * x) + m
    BY <1>1, <1>3, <1>4, RoundedIs
  <2>2. /\ y \in Nat
        /\ m * (2 * y) <= 2 * ((i + 1) * Tape) + m /\ 2 * ((i + 1) * Tape) <= m * (2 * y) + m
    BY <1>1, <1>3, <1>4, RoundedIs
  <2>3. m * (2 * x) = 2 * (m * x) /\ m * (2 * y) = 2 * (m * y) /\ m * x \in Int /\ m * y \in Int
    BY <1>1, <2>1, <2>2
  <2>4. m * (x + w) = m * x + m * w /\ x + w = y /\ w \in Int /\ m * w \in Int
    <3>1. x \in Int /\ w \in Int /\ m \in Int /\ x + w = y
      BY <1>1, <2>1, <2>2
    <3> HIDE DEF w
    <3>2. m * (x + w) = m * x + m * w
      BY <3>1, Times
    <3>3. m * w \in Int
      BY <3>1
    <3> QED
      BY <3>1, <3>2, <3>3
  <2> HIDE DEF w
  <2>5. m * w <= Tape + m /\ Tape <= m * w + m
    <3> DEFINE X == m * x   Y == m * y   W == m * w   A == i * Tape   B == (i + 1) * Tape
    <3>1. X \in Int /\ Y \in Int /\ W \in Int /\ A \in Int /\ B \in Int
      BY <1>3, <2>3, <2>4
    <3>3. B = A + Tape
      BY <1>3
    <3>4. Y = X + W
      BY <2>4
    <3>5. 2 * X <= 2 * A + m /\ 2 * A <= 2 * X + m
      BY <2>1, <2>3
    <3>6. 2 * Y <= 2 * B + m /\ 2 * B <= 2 * Y + m
      BY <2>2, <2>3
    <3> HIDE DEF X, Y, W, A, B
    <3>2. W <= Tape + m /\ Tape <= W + m
      BY <1>1, <3>1, <3>3, <3>4, <3>5, <3>6
    <3> QED
      BY <3>2 DEF W
  <2>6. /\ m * (q + 2) = m * q + m * 2 /\ m * (q - 1) = m * q - m
        /\ m * q \in Int /\ m * 2 = m + m
    BY <1>1, <1>2
  <2>7. m * w < m * ((q + 1) + 1)
    <3>1. (q + 1) + 1 = q + 2
      BY <1>2
    <3>2. m * w < m * (q + 2)
      BY <1>1, <1>2, <2>4, <2>5, <2>6
    <3> QED
      BY <3>1, <3>2
  <2>8. w <= q + 1
    BY <1>1, <1>2, <2>4, <2>7, Cancel
  <2>9. m * (q - 1) < m * ((w - 1) + 1)
    <3>1. (w - 1) + 1 = w
      BY <2>4
    <3>2. m * (q - 1) < m * w
      BY <1>1, <1>2, <1>6, <2>4, <2>5, <2>6
    <3> QED
      BY <3>1, <3>2
  <2>10. q - 1 <= w - 1
    BY <1>1, <1>2, <2>4, <2>9, Cancel
  <2>11. q <= w
    BY <1>2, <2>4, <2>10
  <2> QED
    BY <1>6, <2>1, <2>4, <2>8, <2>11 DEF m, q, r, w, x, y
<1> QED
  BY <1>5, <1>6

\* A vertical label that is drawn, and not refused.
Line(i) == [from |-> Tape + Stacked(i) - column.lines[i], to |-> Tape + Stacked(i)]

Column ==
    /\ pc = "column" /\ pc' = "done"
    /\ ~Overflows /\ Tape >= MIN_QR_MODULE_PX * column.modules
    /\ length' = IF pinned = AUTO THEN Height ELSE pinned
    /\ edges' = [i \in 1..(column.modules + 1) |-> Edge(i - 1)]
    /\ boxes' = [i \in 1..Len(column.lines) |-> [box |-> Line(i), ink |-> Line(i)]]
    /\ UNCHANGED <<row, column, pinned, natural, sizes, cursor>>

LEMMA DrawColumnIs ==
    ASSUME IInv, DrawColumn
    PROVE  Refuse \/ Column
<1>1. CASE Overflows \/ Tape < MIN_QR_MODULE_PX * column.modules
  BY <1>1 DEF DrawColumn
<1>2. CASE ~(Overflows \/ Tape < MIN_QR_MODULE_PX * column.modules)
  <2>1. column \in Columns
    BY DEF IInv, TypeOK
  <2>2. column.modules \in Nat /\ Tape \in Nat
    BY <2>1, ColumnIs, Params
  <2>3. MIN_QR_MODULE_PX * column.modules \in Nat
    BY <2>2 DEF MIN_QR_MODULE_PX
  <2>4. Tape >= MIN_QR_MODULE_PX * column.modules
    BY <1>2, <2>2, <2>3
  <2> QED
    BY <1>2, <2>4 DEF DrawColumn, Column, Line
<1> QED
  BY <1>1, <1>2

LEMMA LinesAre ==
    ASSUME column \in Columns, NEW i \in 1..Len(column.lines)
    PROVE  Line(i) \in Span /\ Line(i).to = Tape + Stacked(i) /\ Line(i).to <= Needed
<1>1. /\ i \in 0..Len(column.lines) /\ Len(column.lines) \in 0..Len(column.lines)
      /\ column.lines[i] \in Nat
  BY ColumnIs
<1>2. /\ Stacked(i) \in Nat /\ Stacked(Len(column.lines)) \in Nat
      /\ Stacked(i) <= Stacked(Len(column.lines))
  BY <1>1, StackedIs
<1>3. /\ Tape + Stacked(i) - column.lines[i] \in Int /\ Tape + Stacked(i) \in Int
      /\ Tape + Stacked(i) <= Tape + Stacked(Len(column.lines))
  BY <1>1, <1>2, Params
<1> QED
  BY <1>3 DEF Line, Span, Needed

LEMMA HeightNat ==
    ASSUME column \in Columns
    PROVE  Needed \in Nat /\ Height \in Nat /\ (Needed <= MaxAuto => Height = Needed)
<1>1. Len(column.lines) \in 0..Len(column.lines)
  BY ColumnIs
<1>2. Stacked(Len(column.lines)) \in Nat
  BY <1>1, StackedIs
<1> QED
  BY <1>2, Params DEF Needed, Height, AtMost

LEMMA DrawColumnIInv == IInv /\ DrawColumn => IInv'
<1> SUFFICES ASSUME IInv, DrawColumn PROVE IInv'
  OBVIOUS
<1>1. CASE Refuse
  BY <1>1, RefuseIInv
<1>2. CASE Column
  <2>1. /\ column \in Columns /\ pinned \in Nat /\ pc = "column" /\ row = <<>> /\ natural = <<>>
        /\ column.modules \in Nat \ {0}
    BY <1>2, ColumnIs, LayoutAssumption DEF IInv, TypeOK, Shape, Column, AUTO
  <2>2. length' \in Nat
    BY <1>2, <2>1, HeightNat DEF Column
  <2>3. edges' \in Seq(Nat)
    <3>1. \A i \in 1..(column.modules + 1) : Edge(i - 1) \in Nat
      <4> SUFFICES ASSUME NEW i \in 1..(column.modules + 1) PROVE Edge(i - 1) \in Nat
        OBVIOUS
      <4>1. i - 1 \in Nat
        BY <2>1
      <4> QED
        BY <2>1, <4>1, WidthIs
    <3>2. edges' \in [1..(column.modules + 1) -> Nat]
      BY <1>2, <3>1 DEF Column
    <3> QED
      BY <2>1, <3>2, IsRow
  <2>4. boxes' \in Seq([box : Span, ink : Span])
    <3>1. \A i \in 1..Len(column.lines) : Line(i) \in Span
      BY <2>1, LinesAre
    <3>2. boxes' \in [1..Len(column.lines) -> [box : Span, ink : Span]]
      BY <1>2, <3>1 DEF Column
    <3> QED
      BY <2>1, <3>2, IsRow, ColumnIs
  <2>5. TypeOK'
    <3>1. natural' = <<>> /\ sizes' = <<>> /\ <<>> \in Seq(Int) /\ Len(<<>>) = 0
      BY <1>2, <2>1 DEF IInv, Shape, Column
    <3> QED
      BY <1>2, <2>2, <2>3, <2>4, <3>1 DEF IInv, TypeOK, Column
  <2>6. Shape'
    BY <1>2, <2>1 DEF IInv, Shape, Granted, Column
  <2>7. Asked' /\ Remembered'
    BY <1>2, <2>1 DEF Asked, Remembered, Granted, Column
  <2> QED
    BY <2>5, <2>6, <2>7 DEF IInv
<1> QED
  BY <1>1, <1>2, DrawColumnIs

LEMMA IInvStep == IInv /\ [Next]_vars => IInv'
<1> SUFFICES ASSUME IInv, [Next]_vars PROVE IInv'
  OBVIOUS
<1>1. CASE MeasureNext
  BY <1>1, MeasureNextIInv
<1>2. CASE SizeToContent
  BY <1>2, SizeIInv
<1>3. CASE MeasureAgain
  BY <1>3, MeasureAgainIInv
<1>4. CASE Distribute
  BY <1>4, DistributeIInv
<1>5. CASE Place
  BY <1>5, PlaceIInv
<1>6. CASE Drawn
  BY <1>6, DrawnIInv
<1>7. CASE DrawColumn
  BY <1>7, DrawColumnIInv
<1>8. CASE UNCHANGED vars
  <2>1. Shares(Budget(length))' = Shares(Budget(length))
    BY <1>8, SharesKept DEF vars
  <2>2. TypeOK'
    <3>1. Signs'
      BY <1>8, SignsKept DEF IInv, vars
    <3> QED
      BY <1>8, <3>1 DEF IInv, TypeOK, vars, Signs
  <2>3. Shape'
    BY <1>8, <2>1 DEF IInv, Shape, Granted, vars
  <2>4. Asked'
    BY <1>8 DEF IInv, Asked, FirstRoom, Budget, vars
  <2>5. Remembered'
    BY <1>8 DEF IInv, Remembered, Granted, FirstPass, FirstRoom, Budget, vars
  <2> QED
    BY <2>2, <2>3, <2>4, <2>5 DEF IInv
<1> QED
  BY <1>1, <1>2, <1>3, <1>4, <1>5, <1>6, <1>7, <1>8 DEF Next

LEMMA IInvHolds == Spec => []IInv
BY InitIInv, IInvStep, PTL DEF Spec

-----------------------------------------------------------------------------
(***************************************************************************)
(* Theorems.                                                               *)
(***************************************************************************)
\* The variables hold pixels and boxes: no measure and no size is negative,
\* whatever _distribute cuts from it, but a stretched picture's in the drawing
\* pass of a label shorter than its gaps; no cursor and no length ever is
\* (render/).
THEOREM TypeCorrect == Spec => []TypeOK
BY IInvHolds, PTL DEF IInv

\* Whatever row is shared out has been measured, and its sizes are its shares.
LEMMA SharedIs ==
    ASSUME IInv, Shared
    PROVE  /\ Granted /\ Measured /\ row # <<>> /\ sizes = Shares(Budget(length))
           /\ Budget(length) \in Int /\ Total(natural) \in Int
           /\ Budget(length) >= 0 => NonNegative
<1>1. Granted /\ row # <<>>
  BY DEF Shared, Granted
<1>2. Measured /\ sizes = Shares(Budget(length)) /\ Budget(length) \in Int
  BY <1>1, BudgetInt DEF IInv, TypeOK, Shape, Measured
<1>3. ASSUME Budget(length) >= 0 PROVE NonNegative
  <2>1. \A i \in 1..Len(natural) : natural[i] >= 0
    BY <1>2, <1>3 DEF IInv, TypeOK, Stretched
  <2>2. natural \in [1..Len(natural) -> Nat] /\ Len(natural) \in Nat
    BY <1>2, <2>1 DEF Measured
  <2> QED
    BY <1>2, <2>2, IsRow DEF NonNegative
<1> QED
  BY <1>1, <1>2, <1>3, NaturalInt

\* A surplus is given out to the last pixel, however the shares round
\* (_distribute).
THEOREM SurplusFills == Spec => []FillsBudget
<1>1. IInv => FillsBudget
  <2> SUFFICES ASSUME IInv, Shared, Leftover > 0, Elastic # {}
               PROVE  Total(sizes) = Budget(length)
    BY DEF FillsBudget
  <2>1. Budget(length) > Total(natural)
    BY SharedIs DEF Leftover
  <2> QED
    BY <2>1, SharedIs, SurplusGiven
<1> QED
  BY <1>1, IInvHolds, PTL

\* What rounding leaves of a deficit is less than a pixel for each child
\* (_distribute).
THEOREM OverrunRounds == Spec => []OverrunsByRounding
<1>1. IInv => OverrunsByRounding
  <2> SUFFICES ASSUME IInv, Shared, Leftover < 0, Budget(length) >= 0
               PROVE  Total(sizes) <= Budget(length) + Len(row) - 1
    BY DEF OverrunsByRounding
  <2>1. Budget(length) \in Nat /\ Budget(length) < Total(natural)
    BY SharedIs DEF Leftover
  <2> QED
    BY <2>1, SharedIs, DeficitTaken
<1> QED
  BY <1>1, IInvHolds, PTL

\* A deficit is taken from the flexible children first (_distribute).
THEOREM RigidKeep == Spec => []ElasticFirst
<1>1. IInv => ElasticFirst
  <2> SUFFICES ASSUME IInv, Shared, Budget(length) >= 0, ElasticTotal >= -Leftover,
                      Cardinality(Elastic) <= 2, NEW i \in 1..Len(row) \ Elastic
               PROVE  sizes[i] = natural[i]
    BY DEF ElasticFirst
  <2>1. ElasticTotal >= Total(natural) - Budget(length)
    <3>1. -Leftover = Total(natural) - Budget(length)
      BY SharedIs DEF Leftover
    <3> QED
      BY <3>1
  <2> QED
    BY <2>1, SharedIs, RigidKept
<1> QED
  BY <1>1, IInvHolds, PTL

\* A vertical label shows every line, or is refused (compose_portrait).
THEOREM ColumnShown == Spec => []ColumnIsWhole
<1>1. Init => ColumnIsWhole
  BY DEF Init, ColumnIsWhole
<1>2. IInv /\ ColumnIsWhole /\ [Next]_vars => ColumnIsWhole'
  <2> SUFFICES ASSUME IInv, ColumnIsWhole, [Next]_vars, row' = <<>>, pc' = "done",
                      Needed' <= MaxAuto, NEW i \in 1..Len(boxes')
               PROVE  boxes'[i].ink.to <= length'
    BY DEF ColumnIsWhole
  <2>1. CASE UNCHANGED vars
    BY <2>1 DEF ColumnIsWhole, vars, Needed, Stacked
  <2>2. CASE Drawn
    <3>1. row = <<>> /\ Len(boxes') = Len(row)
      BY <2>2 DEF Drawn
    <3> QED
      BY <3>1
  <2>3. CASE DrawColumn
    <3>1. Column
      BY <2>3, DrawColumnIs DEF Refuse
    <3>2. column \in Columns /\ pinned \in Nat
      BY LayoutAssumption DEF IInv, TypeOK, AUTO
    <3>3. Needed <= MaxAuto
      BY <3>1 DEF Column, Needed, Stacked
    <3>4. Height = Needed /\ Needed \in Nat
      BY <3>2, <3>3, HeightNat
    <3>5. Needed <= length'
      BY <3>1, <3>2, <3>4 DEF Column, Overflows
    <3>6. i \in 1..Len(column.lines) /\ boxes'[i].ink = Line(i)
      BY <3>1, <3>2, ColumnIs DEF Column
    <3>7. Line(i).to \in Int /\ Line(i).to <= Needed
      BY <3>2, <3>6, LinesAre DEF Span
    <3>8. length' \in Nat
      BY <3>1, <3>2, <3>4 DEF Column
    <3> QED
      BY <3>4, <3>5, <3>6, <3>7, <3>8
  <2>4. CASE Refuse
    BY <2>4 DEF Refuse
  <2>5. pc' # "done" \/ DrawColumn \/ Drawn \/ UNCHANGED vars
    <3>1. pc = "place" /\ Place => pc' # "done"
      BY PlaceIs DEF Refuse
    <3> QED
      BY <3>1 DEF Next, MeasureNext, MeasureAgain, MeasureWith, SizeToContent, Distribute, Place,
                  Refuse
  <2> QED
    BY <2>1, <2>2, <2>3, <2>5
<1> QED
  BY <1>1, <1>2, IInvHolds, PTL DEF Spec

\* The modules of a vertical label's code fill the tape, none too narrow and no
\* two a pixel apart (scaled_qr).
THEOREM ModulesExact == Spec => []ModulesFill
<1>1. Init => ModulesFill
  BY DEF Init, ModulesFill
<1>2. IInv /\ ModulesFill /\ [Next]_vars => ModulesFill'
  <2> SUFFICES ASSUME IInv, ModulesFill, [Next]_vars PROVE ModulesFill'
    OBVIOUS
  <2>1. CASE UNCHANGED <<edges, column>>
    BY <2>1 DEF ModulesFill
  <2>2. CASE Column
    <3> DEFINE m == column.modules
               q == Tape \div m
               t == edges'
               W == {t[i + 1] - t[i] : i \in 1..(Len(t) - 1)}
    <3>1. column \in Columns /\ m \in Nat \ {0} /\ Tape \in Nat
      BY ColumnIs, Params DEF IInv, TypeOK
    <3>2. t = [i \in 1..(m + 1) |-> Edge(i - 1)] /\ Tape >= MIN_QR_MODULE_PX * m
      BY <2>2 DEF Column
    <3>3. Len(t) = m + 1 /\ \A i \in 1..(m + 1) : t[i] = Edge(i - 1)
      BY <3>1, <3>2
    <3>4. t[1] = 0
      <4>1. t[1] = Edge(0)
        BY <3>1, <3>3
      <4>2. Edge(0) = Rounded(0 * m, m)
        BY <3>1 DEF Edge
      <4> QED
        BY <3>1, <4>1, <4>2, RoundedWhole
    <3>5. t[Len(t)] = Tape
      <4>1. t[Len(t)] = Edge(m)
        BY <3>1, <3>3
      <4>2. Edge(m) = Rounded(Tape * m, m)
        <5>1. m * Tape = Tape * m
          BY <3>1
        <5> QED
          BY <5>1 DEF Edge
      <4> QED
        BY <3>1, <4>1, <4>2, RoundedWhole
    <3>6. q \in Nat /\ q >= 2
      <4> HIDE DEF m
      <4>1. q \in Nat /\ Tape <= m * q + (m - 1)
        BY <3>1, Floor
      <4> HIDE DEF q
      <4>2. m * 2 <= Tape
        BY <3>1, <3>2 DEF MIN_QR_MODULE_PX
      <4>3. m * (q + 1) = m * q + m /\ m * q \in Int /\ m * 2 \in Int
        BY <3>1, <4>1
      <4>4. m * 2 < m * (q + 1)
        BY <3>1, <4>1, <4>2, <4>3
      <4> QED
        BY <3>1, <4>1, <4>4, Cancel
    <3>7. \A w \in W : w \in Int /\ q <= w /\ w <= q + 1
      <4> SUFFICES ASSUME NEW i \in 1..(Len(t) - 1)
                   PROVE  t[i + 1] - t[i] \in Int /\ q <= t[i + 1] - t[i] /\ t[i + 1] - t[i] <= q + 1
        OBVIOUS
      <4>1. i - 1 \in Nat /\ (i - 1) + 1 = i /\ i \in 1..(m + 1) /\ i + 1 \in 1..(m + 1)
            /\ (i + 1) - 1 = i
        BY <3>1, <3>3
      <4>2. t[i] = Edge(i - 1) /\ t[i + 1] = Edge(i)
        BY <3>3, <4>1
      <4>3. Edge((i - 1) + 1) - Edge(i - 1) \in Int /\ q <= Edge((i - 1) + 1) - Edge(i - 1)
            /\ Edge((i - 1) + 1) - Edge(i - 1) <= q + 1
        BY <3>1, <4>1, WidthIs
      <4> QED
        BY <4>1, <4>2, <4>3
    <3> HIDE DEF W, q
    <3>8. \A w, v \in W : w >= MIN_QR_MODULE_PX /\ w - v <= 1
      BY <3>6, <3>7 DEF MIN_QR_MODULE_PX
    <3> QED
      BY <3>4, <3>5, <3>8 DEF ModulesFill, W
  <2>3. UNCHANGED <<edges, column>> \/ Column
    BY DrawColumnIs, PlaceIs DEF Next, MeasureNext, MeasureAgain, MeasureWith, SizeToContent,
                                 Distribute, Drawn, Refuse, vars
  <2> QED
    BY <2>1, <2>2, <2>3
<1> QED
  BY <1>1, <1>2, IInvHolds, PTL DEF Spec

\* The ink of an element stays in the box it was granted, unless it covers, is
\* bars that a deficit narrowed, or text with a glyph wider than the box.
Spills(i) ==
    \/ row[i].kind = "cover"
    \/ row[i].kind = "barcode" /\ Leftover < 0
    \/ row[i].kind = "text" /\ sizes[i] < row[i].glyph

LEMMA InkInBox ==
    ASSUME IInv, Granted, NEW i \in 1..Len(row), NEW ink \in InksOf(i)
    PROVE  Within(ink, BoxOf(i)) \/ Spills(i)
<1> DEFINE e == row[i]
           n == natural[i]
           main == sizes[i]
           room == AtLeast(0, main)
<1>1. /\ e \in Element /\ n \in Int /\ main \in Int /\ cursor \in Nat
      /\ e.kind = "barcode" => n = Wide(e)
      /\ Leftover >= 0 => n <= main
  BY ChildIs DEF IInv, TypeOK
<1>2. Leftover \in Int
  <2>1. Measured /\ Budget(length) \in Int
    BY BudgetInt DEF IInv, TypeOK, Shape, Granted, Measured
  <2> QED
    BY <2>1, NaturalInt DEF Leftover
<1>3. /\ BoxOf(i) = [from |-> cursor, to |-> cursor + room] /\ ink \in Inks(e, n, main)
      /\ room \in Nat /\ (main > 0 => room = main)
  BY <1>1 DEF BoxOf, InksOf, AtLeast
<1>4. Spills(i) <=> \/ e.kind = "cover"
                    \/ e.kind = "barcode" /\ Leftover < 0
                    \/ e.kind = "text" /\ main < e.glyph
  BY DEF Spills
<1>5. e.kind \in Kind /\ e.align \in Align
  BY <1>1, IsElement
<1> HIDE DEF e, n, main, room
<1>6. CASE Blank(e, n, main)
  <2>1. ink = [from |-> cursor, to |-> cursor]
    BY <1>3, <1>6 DEF Inks
  <2> QED
    BY <1>1, <1>3, <2>1 DEF Within
<1>7. CASE ~Blank(e, n, main)
  <2>1. main > 0 /\ (e.kind = "barcode" => n # 0)
    BY <1>1, <1>7 DEF Blank
  <2>2. PICK w \in InkWidths(e, n, main) :
           ink = [from |-> cursor + Offset(e, main, w), to |-> cursor + Offset(e, main, w) + w]
    BY <1>3, <1>7 DEF Inks
  <2>3. /\ w \in Int
        /\ e.kind \in {"qr", "contain", "stretch"} => w <= main
        /\ e.kind = "barcode" => w = e.size
        /\ e.kind = "text" => w = main \/ (w = e.glyph /\ main < e.glyph)
    BY <1>1, InkIs
  <2>4. ASSUME Offset(e, main, w) \in Nat, Offset(e, main, w) + w <= main
        PROVE  Within(ink, BoxOf(i))
    <3> DEFINE o == Offset(e, main, w)
    <3>1. o \in Nat /\ o + w <= main /\ ink = [from |-> cursor + o, to |-> cursor + o + w]
      BY <2>2, <2>4
    <3> HIDE DEF o
    <3>2. cursor <= cursor + o /\ cursor + o + w <= cursor + room
      BY <1>1, <1>3, <2>1, <2>3, <3>1
    <3> QED
      BY <1>3, <3>1, <3>2 DEF Within
  <2>5. CASE e.kind \in {"qr", "contain", "stretch"}
    <3> DEFINE x == main - w
               h == x \div 2
    <3>1. x \in Nat /\ 2 \in Nat \ {0}
      BY <1>1, <2>3, <2>5
    <3>2. Offset(e, main, w) = h
      BY <2>5 DEF Offset
    <3> HIDE DEF x
    <3>3. h \in Nat /\ 2 * h <= x
      BY <3>1, Floor
    <3> HIDE DEF h
    <3>4. h + w <= main
      BY <1>1, <2>3, <3>1, <3>3 DEF x
    <3> QED
      BY <2>4, <3>2, <3>3, <3>4
  <2>6. CASE e.kind = "barcode"
    <3>1. Offset(e, main, w) = 0
      BY <2>6 DEF Offset
    <3>2. n = e.size
      BY <1>1, <2>1, <2>6, WideNat
    <3>3. CASE Leftover >= 0
      BY <1>1, <2>3, <2>4, <2>6, <3>1, <3>2, <3>3
    <3>4. CASE Leftover < 0
      BY <1>4, <2>6, <3>4
    <3> QED
      BY <1>2, <3>3, <3>4
  <2>7. CASE e.kind = "text"
    <3>1. CASE main < e.glyph
      BY <1>4, <2>7, <3>1
    <3>2. CASE ~(main < e.glyph)
      <4>1. w = main
        BY <2>3, <2>7, <3>2
      <4>2. main - main = 0 /\ 0 \div 2 = 0
        BY <1>1
      <4>3. Offset(e, main, w) = 0
        BY <2>7, <4>1, <4>2 DEF Offset
      <4> QED
        BY <1>1, <2>4, <4>1, <4>3
    <3> QED
      BY <3>1, <3>2
  <2>8. CASE e.kind = "cover"
    BY <1>4, <2>8
  <2> QED
    BY <1>5, <2>5, <2>6, <2>7, <2>8 DEF Kind
<1> QED
  BY <1>6, <1>7

\* What is drawn stays in its box (BoxLayout.draw), so that no element draws
\* over its neighbour, but a covering picture, bars in a deficit and text in a
\* box narrower than one of its glyphs.
THEOREM InkStaysInBox == Spec => []DrawnInBox
<1>1. Init => DrawnInBox
  BY DEF Init, DrawnInBox
<1>2. IInv /\ DrawnInBox /\ [Next]_vars => DrawnInBox'
  <2> SUFFICES ASSUME IInv, DrawnInBox, [Next]_vars PROVE DrawnInBox'
    OBVIOUS
  <2>1. CASE UNCHANGED <<row, length, natural, sizes, boxes>>
    BY <2>1 DEF DrawnInBox, Leftover, Budget
  <2>2. CASE boxes' = <<>>
    BY <2>2 DEF DrawnInBox
  <2>3. CASE Column
    <3> SUFFICES ASSUME NEW i \in 1..Len(boxes') PROVE Within(boxes'[i].ink, boxes'[i].box)
      BY DEF DrawnInBox
    <3>1. column \in Columns
      BY DEF IInv, TypeOK
    <3>2. i \in 1..Len(column.lines) /\ boxes'[i].ink = Line(i) /\ boxes'[i].box = Line(i)
      BY <2>3, <3>1, ColumnIs DEF Column
    <3>3. Line(i) \in Span
      BY <3>1, <3>2, LinesAre
    <3> QED
      BY <3>2, <3>3 DEF Within, Span
  <2>4. CASE Place /\ ~Refuse
    <3> DEFINE k == Len(boxes) + 1
               b(ink) == [box |-> BoxOf(k), ink |-> ink]
    <3>1. /\ pc = "place" /\ Len(boxes) < Len(row)
          /\ \E ink \in InksOf(k) : boxes' = Append(boxes, b(ink))
          /\ UNCHANGED <<row, length, natural, sizes>>
      BY <2>4, PlaceIs
    <3>2. PICK ink \in InksOf(k) : boxes' = Append(boxes, b(ink))
      BY <3>1
    <3>3. boxes \in Seq([box : Span, ink : Span]) /\ Len(boxes) \in Nat /\ k \in 1..Len(row) /\ Granted
      BY <3>1 DEF IInv, TypeOK, Granted
    <3> SUFFICES ASSUME NEW i \in 1..Len(boxes')
                 PROVE  Within(boxes'[i].ink, boxes'[i].box) \/ Spills(i)
      BY <3>1 DEF DrawnInBox, Spills, Leftover, Budget
    <3>4. CASE i = k
      <4>1. boxes'[i] = b(ink) /\ b(ink).ink = ink /\ b(ink).box = BoxOf(k)
        BY <3>2, <3>3, <3>4
      <4> HIDE DEF k, b
      <4> QED
        BY <3>2, <3>3, <3>4, <4>1, InkInBox
    <3>5. CASE i # k
      <4>1. i \in 1..Len(boxes) /\ boxes'[i] = boxes[i]
        BY <3>2, <3>3, <3>5
      <4> QED
        BY <4>1 DEF DrawnInBox, Spills
    <3> QED
      BY <3>4, <3>5
  <2>5. \/ UNCHANGED <<row, length, natural, sizes, boxes>>
        \/ boxes' = <<>>
        \/ Column
        \/ Place /\ ~Refuse
    <3>1. Refuse => UNCHANGED <<row, length, natural, sizes, boxes>>
      BY DEF Refuse
    <3>2. MeasureNext \/ MeasureAgain \/ SizeToContent => Refuse \/ boxes' = <<>>
      BY DEF MeasureNext, MeasureAgain, SizeToContent, MeasureWith, IInv, Shape
    <3>3. /\ Drawn => UNCHANGED <<row, length, natural, sizes, boxes>>
          /\ Distribute => boxes' = <<>>
      BY DEF Distribute, Drawn, IInv, Shape
    <3> QED
      BY <3>1, <3>2, <3>3, DrawColumnIs DEF Next, vars
  <2> QED
    BY <2>1, <2>2, <2>3, <2>4, <2>5
<1> QED
  BY <1>1, <1>2, IInvHolds, PTL DEF Spec

\* An element that had room left over in the first pass: with at least what it
\* took it takes no less, and more only if it is more than there was room for.
LEMMA MeasuredTwice ==
    ASSUME NEW e \in Element, NEW avail \in Int, NEW b \in Int, NEW x, NEW y,
           Fits(e, avail, x), Fits(e, b, y), x < avail, x <= b
    PROVE  x <= y /\ (x < y => avail < y)
<1>1. /\ e.kind \in Kind /\ e.size \in Nat \ {0} /\ Wide(e) \in Nat /\ x \in Int /\ y \in Int
      /\ e.kind # "stretch" => x \in Nat /\ y \in Nat
  BY IsElement, WideNat, MeasureIs
<1>2. CASE e.kind = "barcode"
  BY <1>1, <1>2, MeasureIs
<1>3. CASE e.kind = "text"
  BY <1>1, <1>3 DEF Fits, Measure, TextWidth, AtMost, AtLeast
<1>4. CASE e.kind = "contain"
  BY <1>1, <1>4 DEF Fits, Measure, PictureWidth, AtMost, AtLeast
<1>5. CASE e.kind \in {"cover", "stretch"}
  BY <1>1, <1>5 DEF Fits, Measure, PictureWidth, AtMost, AtLeast
<1>6. CASE e.kind = "qr"
  <2> DEFINE z == e.size
             s == AtMost(avail, Across)
             t == AtMost(b, Across)
             k == s \div z
             l == t \div z
  <2>1. /\ s \in Int /\ t \in Int /\ Across \in Int /\ z \in Nat \ {0}
        /\ s <= avail /\ s <= Across /\ (s = avail \/ s = Across)
        /\ t <= b /\ t <= Across /\ (t = b \/ t = Across)
    BY <1>1, AcrossNat DEF AtMost
  <2>2. x = k * z /\ y = l * z
    BY <1>6 DEF Fits, Measure, CodeWidth, Module
  <2> HIDE DEF z, s, t
  <2>3. k \in Int /\ z * k <= s /\ s <= z * k + (z - 1)
    BY <2>1, FloorInt
  <2>4. l \in Int /\ z * l <= t /\ t <= z * l + (z - 1)
    BY <2>1, FloorInt
  <2> HIDE DEF k, l
  <2>5. /\ x = z * k /\ y = z * l /\ z * k \in Int /\ z * l \in Int
        /\ z * (k + 1) = z * k + z /\ z * (l + 1) = z * l + z
        /\ z * (k + 1) \in Int /\ z * (l + 1) \in Int
    <3>1. x = z * k /\ y = z * l /\ z * k \in Int /\ z * l \in Int
      BY <2>1, <2>2, <2>3, <2>4
    <3>2. z * (k + 1) = z * k + z * 1 /\ z * (l + 1) = z * l + z * 1 /\ z * 1 = z
      BY <2>1, <2>3, <2>4, Times
    <3> QED
      BY <2>1, <3>1, <3>2
  <2>6. k <= l
    <3>1. x <= t
      BY <1>1, <2>1, <2>3, <2>5
    <3>2. z * k < z * (l + 1)
      BY <2>1, <2>4, <2>5, <3>1
    <3> QED
      BY <2>1, <2>3, <2>4, <3>2, Cancel
  <2>7. x <= y
    <3>1. z * k <= z * l
      BY <2>1, <2>3, <2>4, <2>6, TimesOrder
    <3> QED
      BY <2>5, <3>1
  <2>8. ASSUME x < y PROVE avail < y
    <3>1. k + 1 <= l
      <4>1. k # l
        BY <2>5, <2>8, <1>1
      <4> QED
        BY <2>3, <2>4, <2>6, <4>1
    <3>2. z * (k + 1) <= z * l
      BY <2>1, <2>3, <2>4, <3>1, TimesOrder
    <3>3. s < y
      BY <2>1, <2>3, <2>5, <3>2
    <3>4. y <= Across
      BY <2>1, <2>4, <2>5
    <3> QED
      BY <1>1, <2>1, <3>3, <3>4
  <2> QED
    BY <2>7, <2>8
<1> QED
  BY <1>1, <1>2, <1>3, <1>4, <1>5, <1>6 DEF Kind

\* The second pass asks for what the first found, on a label that is not cut.
LEMMA AutoFits ==
    ASSUME IInv, Shared, pinned = AUTO, Content <= MaxAuto
    PROVE  Leftover >= 0
<1> DEFINE n  == Len(row)
           G  == Gap * (n - 1)
           P2 == 2 * Padding
           N  == Total(natural)
           B  == Budget(MaxAuto)
           b  == Budget(length)
<1>1. /\ row \in Seq(Element) /\ natural \in Seq(Int) /\ Len(natural) = n /\ n \in Nat /\ n >= 1
      /\ N \in Int /\ b \in Int /\ Granted
  BY SharedIs DEF Measured
<1>2. /\ G \in Nat /\ P2 \in Nat /\ MaxAuto \in Nat /\ MinAuto \in Nat /\ MinAuto <= MaxAuto
  <2>1. n - 1 \in Nat
    BY <1>1
  <2> HIDE DEF n
  <2> QED
    BY <2>1, Params
<1>3. PICK m : FirstPass(m)
  BY <1>1 DEF IInv, Remembered
<1> DEFINE M == Total(m)
<1>4. /\ m \in Seq(Nat) /\ Len(m) = n
      /\ \A i \in 1..n : Fits(row[i], FirstRoom(m, i), m[i])
      /\ length = AtLeast(MinAuto, AtMost(M + G + P2, MaxAuto))
  BY <1>3 DEF FirstPass
<1>5. M \in Nat
  BY <1>4, TotalNat
<1>6. \A i \in 1..n : Fits(row[i], b, natural[i])
  BY <1>1 DEF IInv, Asked, Granted
<1>7. /\ b = AtLeast(0, length - P2) - G /\ B = AtLeast(0, MaxAuto - P2) - G
      /\ Content = N + G + P2 /\ Leftover = b - N
  BY DEF Budget, Content, Leftover
<1>8. \A i \in 1..n : FirstRoom(m, i) = AtLeast(0, B - Sums(m)[i - 1])
  BY DEF FirstRoom
<1>9. \A i \in 1..n : m[i] \in Nat /\ row[i] \in Element
  BY <1>1, <1>4
<1>10. M = Sums(m)[n] /\ N = Sums(natural)[n]
  BY <1>1, <1>4 DEF Total
<1>11. length \in Nat /\ length <= MaxAuto
  BY <1>2, <1>4, <1>5 DEF AtLeast, AtMost
<1>20. n \in 0..n /\ n \in Nat
  BY <1>1
<1>21. b >= 0 => N \in Nat /\ \A i \in 1..n : natural[i] \in Nat
  <2>1. b >= 0 => NonNegative
    BY SharedIs
  <2> QED
    BY <2>1, NaturalTotal
<1> HIDE DEF n, G, P2, N, B, b, M
<1>12. CASE N + G + P2 <= length
  BY <1>1, <1>2, <1>7, <1>11, <1>12 DEF AtLeast
<1>13. CASE ~(N + G + P2 <= length)
  <2>1. M + G + P2 < MaxAuto /\ M + G + P2 <= length
    BY <1>1, <1>2, <1>4, <1>5, <1>7, <1>13 DEF AtLeast, AtMost
  <2>2. B = MaxAuto - P2 - G /\ M < B /\ M <= b
    BY <1>1, <1>2, <1>5, <1>7, <1>11, <2>1 DEF AtLeast
  <2>0. N \in Nat /\ \A i \in 1..n : m[i] \in Nat /\ natural[i] \in Nat /\ row[i] \in Element
    <3>1. b >= 0
      BY <1>1, <1>5, <2>2
    <3> QED
      BY <1>9, <1>21, <3>1
  <2>3. \A k \in 0..n : Sums(m)[k] \in Nat
    BY <2>0, <1>20, SumsNat
  <2>4. \A k \in 0..n : Sums(natural)[k] \in Nat
    BY <2>0, <1>20, SumsNat
  <2>5. \A j, k \in 0..n : j <= k => Sums(m)[j] <= Sums(m)[k]
    BY <2>0, <1>20, SumsGrow
  <2>6. \A j, k \in 0..n : j <= k => Sums(natural)[j] <= Sums(natural)[k]
    BY <2>0, <1>20, SumsGrow
  <2>7. ASSUME NEW i \in 1..n
        PROVE  /\ FirstRoom(m, i) = B - Sums(m)[i - 1]
               /\ m[i] <= natural[i]
               /\ m[i] < natural[i] => B - Sums(m)[i - 1] < natural[i]
    <3>1. i - 1 \in 0..n /\ i \in 0..n /\ i - 1 \in Nat /\ (i - 1) + 1 = i
      BY <1>20
    <3>2. Sums(m)[i] = Sums(m)[i - 1] + m[i]
      BY <3>1, SumsStep
    <3>3. Sums(m)[i] <= M
      BY <1>10, <1>20, <2>5, <3>1
    <3>4. m[i] \in Nat /\ Sums(m)[i - 1] \in Nat
      BY <2>0, <2>3, <3>1
    <3> DEFINE a == B - Sums(m)[i - 1]
    <3>5. a \in Int /\ m[i] < a /\ m[i] <= b
      <4>1. B \in Int /\ M \in Int /\ b \in Int
        BY <1>1, <1>2, <1>5, <2>2
      <4>2. M < B /\ M <= b
        BY <2>2
      <4> QED
        BY <3>2, <3>3, <3>4, <4>1, <4>2
    <3>6. FirstRoom(m, i) = a
      <4>1. FirstRoom(m, i) = AtLeast(0, a)
        BY <1>8
      <4> HIDE DEF a
      <4> QED
        BY <3>4, <3>5, <4>1 DEF AtLeast
    <3>7. Fits(row[i], a, m[i])
      BY <1>4, <3>6
    <3> HIDE DEF a
    <3>8. m[i] <= natural[i] /\ (m[i] < natural[i] => a < natural[i])
      BY <1>1, <1>6, <2>0, <3>5, <3>7, MeasuredTwice
    <3> QED
      BY <3>6, <3>8 DEF a
  <2>8. \A i \in 1..n : natural[i] = m[i]
    <3> SUFFICES ASSUME NEW i \in 1..n, natural[i] # m[i] PROVE FALSE
      OBVIOUS
    <3>1. B - Sums(m)[i - 1] < natural[i]
      BY <2>0, <2>7
    <3>2. i - 1 \in 0..n /\ i \in 0..n /\ i - 1 \in Nat /\ (i - 1) + 1 = i
      BY <1>20
    <3>3. Sums(natural)[i] = Sums(natural)[i - 1] + natural[i]
      BY <3>2, SumsStep
    <3>4. Sums(m)[i - 1] <= Sums(natural)[i - 1]
      <4>1. \A j \in 1..n : m[j] \in Int /\ natural[j] \in Int /\ m[j] <= natural[j]
        BY <2>0, <2>7
      <4>2. \A k \in 0..n : Sums(m)[k] <= Sums(natural)[k]
        BY <1>20, <4>1, SumsOrder
      <4> QED
        BY <3>2, <4>2
    <3>5. Sums(natural)[i] <= N
      BY <1>10, <1>20, <2>6, <3>2
    <3>6. /\ Sums(natural)[i - 1] \in Nat /\ Sums(m)[i - 1] \in Nat /\ natural[i] \in Nat
          /\ Sums(natural)[i] \in Nat
      BY <2>0, <2>3, <2>4, <3>2
    <3>7. B < N
      <4>1. B \in Int /\ N \in Int
        BY <1>1, <1>2, <2>2
      <4> QED
        BY <3>1, <3>3, <3>4, <3>5, <3>6, <4>1
    <3> QED
      BY <1>1, <1>2, <1>7, <2>2, <3>7
  <2>9. N = M
    BY <1>10, <1>20, <2>8, SumsSame
  <2> QED
    BY <1>13, <2>1, <2>9
<1> QED
  BY <1>12, <1>13

\* An auto label has the length its content needs (compose, BoxLayout): the
\* drawing pass, which measures with other room than the sizing pass, never
\* runs out of it below the longest label.
THEOREM AutoHasRoom == Spec => []AutoIsEnough
<1>1. IInv => AutoIsEnough
  BY AutoFits DEF AutoIsEnough
<1> QED
  BY <1>1, IInvHolds, PTL
=============================================================================

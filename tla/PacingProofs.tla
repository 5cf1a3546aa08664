---------------------------- MODULE PacingProofs ----------------------------
(***************************************************************************)
(* The sending half of a Conn and its congestion controller: types, the    *)
(* bytes in flight, the slow start window, and the budgets.  Induction on  *)
(* an interval, and that recursive functions exist, come first: they follow*)
(* from the natural numbers being well founded.                            *)
(***************************************************************************)
EXTENDS Pacing, FiniteSetTheorems, TLAPS

\* A set of natural numbers that is not empty has a least member.
LEMMA Least ==
  ASSUME NEW T \in SUBSET Nat, T # {}
  PROVE \E n \in T : \A m \in T : n <= m
<1> DEFINE R == OpToRel(<, Nat)
<1>1. IsWellFoundedOn(R, Nat)
  BY NatLessThanWellFounded
<1>2. \A x, y \in Nat : x < y => <<x, y>> \in R
  BY DEF OpToRel
<1> HIDE DEF R
<1>3. PICK n \in T : \A m \in T : ~(<<m, n>> \in R)
  BY <1>1, WFMin
<1>4. \A m \in T : ~(m < n)
  BY <1>2, <1>3, Zenon
<1>5. \A m \in T : n <= m
  BY <1>4
<1> QED BY <1>5

\* Induction on an interval: a set that has 0 and the successor of each of its
\* members below n has all of 0..n.
LEMMA IntervalInduction ==
  ASSUME NEW n \in Nat, NEW G, 0 \in G, \A m \in 0..(n - 1) : m \in G => m + 1 \in G
  PROVE  0..n \subseteq G
<1> DEFINE T == {m \in 0..n : m \notin G}
<1> SUFFICES ASSUME T # {} PROVE FALSE
  OBVIOUS
<1>1. T \in SUBSET Nat
  OBVIOUS
<1>2. PICK m \in T : \A j \in T : m <= j
  <2> HIDE DEF T
  <2> QED BY <1>1, Least
<1>3. m # 0 /\ m \in 1..n /\ m \notin G /\ m - 1 \in 0..(n - 1)
  OBVIOUS
<1>4. m - 1 \in G
  BY <1>2, <1>3
<1>5. (m - 1) + 1 = m
  BY <1>3
<1> QED BY <1>3, <1>4, <1>5

\* f is defined by recursion on its argument, from base, with values in S.
IsRecursive(f, n, S, base, step) ==
  /\ f \in [0..n -> S] /\ f[0] = base
  /\ \A k \in 1..n : f[k] = step[<<k, f[k - 1]>>]

\* Such a function exists.
LEMMA Recursion ==
  ASSUME NEW n \in Nat, NEW S, NEW base \in S, NEW step \in [(1..n) \X S -> S]
  PROVE  \E f : IsRecursive(f, n, S, base, step)
<1> DEFINE P(m) == \E f \in [0..m -> S] : f[0] = base /\ \A k \in 1..m : f[k] = step[<<k, f[k - 1]>>]
           G == {m \in 0..n : P(m)}
<1>1. P(0)
  <2> DEFINE f == [k \in 0..0 |-> base]
  <2>1. f \in [0..0 -> S] /\ f[0] = base /\ \A k \in 1..0 : f[k] = step[<<k, f[k - 1]>>]
    OBVIOUS
  <2> QED BY <2>1
<1>2. ASSUME NEW m \in 1..n, P(m - 1) PROVE P(m)
  <2>1. PICK f \in [0..(m-1) -> S] : f[0] = base /\ \A k \in 1..(m-1) : f[k] = step[<<k, f[k - 1]>>]
    BY <1>2
  <2> DEFINE g == [k \in 0..m |-> IF k = m THEN step[<<m, f[m - 1]>>] ELSE f[k]]
  <2>2. g \in [0..m -> S]
    BY <2>1
  <2>3. g[0] = base /\ \A k \in 1..m : g[k] = step[<<k, g[k - 1]>>]
    <3>1. g[0] = base
      BY <2>1
    <3>2. g[m] = step[<<m, g[m - 1]>>]
      <4>1. g[m - 1] = f[m - 1] /\ g[m] = step[<<m, f[m - 1]>>]
        OBVIOUS
      <4> HIDE DEF g
      <4> QED BY <4>1
    <3>3. ASSUME NEW k \in 1..(m - 1) PROVE g[k] = step[<<k, g[k - 1]>>]
      <4>1. g[k] = f[k] /\ g[k - 1] = f[k - 1]
        OBVIOUS
      <4> HIDE DEF g
      <4> QED BY <2>1, <4>1
    <3> HIDE DEF g
    <3> QED BY <3>1, <3>2, <3>3
  <2> QED BY <2>2, <2>3
<1> HIDE DEF P
<1>3. 0..n \subseteq G
  <2>1. 0 \in G
    BY <1>1
  <2>2. ASSUME NEW m \in 0..(n - 1), m \in G PROVE m + 1 \in G
    <3>1. m + 1 \in 1..n /\ (m + 1) - 1 = m /\ P(m)
      BY <2>2
    <3>2. P((m + 1) - 1)
      BY <3>1
    <3>3. P(m + 1)
      BY <3>1, <3>2, <1>2
    <3> QED BY <3>1, <3>3
  <2> HIDE DEF G
  <2> QED BY <2>1, <2>2, IntervalInduction
<1>4. P(n)
  BY <1>3
<1> QED BY <1>4 DEF P, IsRecursive

\* Totals is what its recursive definition says: it starts at 0 and adds one
\* length at a time.
LEMMA TotalsOK ==
  ASSUME NEW l \in Seq(Nat)
  PROVE  /\ Totals(l) \in [0..Len(l) -> Nat]
         /\ Totals(l)[0] = 0
         /\ \A k \in 1..Len(l) : Totals(l)[k] = Totals(l)[k - 1] + l[k]
<1> DEFINE n == Len(l)
           step == [p \in (1..n) \X Nat |-> p[2] + l[p[1]]]
           Eq(f) == f = [k \in 0..n |-> IF k = 0 THEN 0 ELSE f[k - 1] + l[k]]
<1>0. n \in Nat /\ \A k \in 1..n : l[k] \in Nat
  OBVIOUS
<1>1. step \in [(1..n) \X Nat -> Nat]
  BY <1>0
<1>2. \A k \in 1..n, x \in Nat : step[<<k, x>>] = x + l[k]
  OBVIOUS
<1> HIDE DEF step
<1>3. PICK f : IsRecursive(f, n, Nat, 0, step)
  <2>1. 0 \in Nat
    OBVIOUS
  <2> HIDE DEF n
  <2> QED BY <1>0, <1>1, <2>1, Recursion
<1>4. Eq(f)
  <2>0. /\ f \in [0..n -> Nat] /\ f[0] = 0
        /\ \A k \in 1..n : f[k] = step[<<k, f[k - 1]>>]
    BY <1>3 DEF IsRecursive
  <2>1. \A k \in 1..n : k - 1 \in 0..n /\ f[k] = f[k - 1] + l[k]
    <3> SUFFICES ASSUME NEW k \in 1..n PROVE k - 1 \in 0..n /\ f[k] = f[k - 1] + l[k]
      OBVIOUS
    <3>1. k - 1 \in 0..n
      BY <1>0
    <3>2. f[k - 1] \in Nat
      BY <3>1, <2>0
    <3>3. step[<<k, f[k - 1]>>] = f[k - 1] + l[k]
      BY <1>2, <3>2
    <3> QED BY <2>0, <3>1, <3>3
  <2>2. \A k \in 0..n : f[k] = IF k = 0 THEN 0 ELSE f[k - 1] + l[k]
    BY <2>1, <2>0, <1>0
  <2> QED BY <2>0, <2>2
<1>5. Totals(l) = CHOOSE g : Eq(g)
  BY DEF Totals
<1>6. Eq(Totals(l))
  <2> HIDE DEF Eq
  <2> QED BY <1>4, <1>5
<1> DEFINE g == Totals(l)
<1> HIDE DEF g
<1>7. g = [k \in 0..n |-> IF k = 0 THEN 0 ELSE g[k - 1] + l[k]]
  BY <1>6 DEF g
<1>8. DOMAIN g = 0..n /\ g[0] = 0 /\ \A k \in 1..n : g[k] = g[k - 1] + l[k]
  BY <1>7, <1>0
<1> DEFINE G == {k \in 0..n : g[k] \in Nat}
<1>9. 0..n \subseteq G
  <2>1. 0 \in G
    BY <1>8, <1>0
  <2>2. \A m \in 0..(n - 1) : m \in G => m + 1 \in G
    <3> SUFFICES ASSUME NEW m \in 0..(n - 1), m \in G PROVE m + 1 \in G
      OBVIOUS
    <3>1. m + 1 \in 1..n /\ m + 1 \in 0..n /\ (m + 1) - 1 = m /\ l[m + 1] \in Nat
      BY <1>0
    <3>2. g[m + 1] = g[m] + l[m + 1]
      BY <3>1, <1>8
    <3> QED BY <3>1, <3>2
  <2> HIDE DEF G, n
  <2> QED BY <2>1, <2>2, <1>0, IntervalInduction
<1>10. g \in [0..n -> Nat]
  BY <1>7, <1>9
<1> QED BY <1>8, <1>10 DEF g

\* The totals of two sequences that agree up to n are the same up to n.
LEMMA TotalsPrefix ==
  ASSUME NEW f \in Seq(Nat), NEW g \in Seq(Nat), NEW n \in 0..Len(f), n <= Len(g),
         \A k \in 1..n : f[k] = g[k]
  PROVE  \A k \in 0..n : Totals(f)[k] = Totals(g)[k]
<1> DEFINE F == Totals(f)
           H == Totals(g)
           G == {k \in 0..n : F[k] = H[k]}
<1>0. n \in Nat /\ Len(f) \in Nat /\ Len(g) \in Nat
  OBVIOUS
<1>1. /\ F[0] = 0 /\ \A k \in 1..Len(f) : F[k] = F[k - 1] + f[k]
      /\ H[0] = 0 /\ \A k \in 1..Len(g) : H[k] = H[k - 1] + g[k]
  BY TotalsOK
<1> HIDE DEF F, H
<1>2. 0 \in G
  BY <1>0, <1>1
<1>3. ASSUME NEW m \in 0..(n - 1), m \in G PROVE m + 1 \in G
  <2>1. m + 1 \in 1..n /\ m + 1 \in 1..Len(f) /\ m + 1 \in 1..Len(g) /\ (m + 1) - 1 = m
    BY <1>0
  <2>2. F[m + 1] = F[m] + f[m + 1] /\ H[m + 1] = H[m] + g[m + 1]
    BY <2>1, <1>1
  <2> QED BY <1>3, <2>1, <2>2
<1>4. 0..n \subseteq G
  <2> HIDE DEF G
  <2> QED BY <1>0, <1>2, <1>3, IntervalInduction
<1> QED BY <1>4 DEF F, H

\* The total of a sequence that goes on with another one.
LEMMA TotalsConcat ==
  ASSUME NEW f \in Seq(Nat), NEW g \in Seq(Nat)
  PROVE  /\ \A k \in 0..Len(g) : Totals(f \o g)[Len(f) + k] = Total(f) + Totals(g)[k]
         /\ Total(f \o g) = Total(f) + Total(g)
<1> DEFINE h == f \o g
           n == Len(f)
           F == Totals(f)
           H == Totals(h)
           J == Totals(g)
           G == {k \in 0..Len(g) : H[n + k] = F[n] + J[k]}
<1>0. /\ n \in Nat /\ Len(g) \in Nat /\ h \in Seq(Nat) /\ Len(h) = n + Len(g)
      /\ \A k \in 1..n : h[k] = f[k] 
      /\ \A k \in 1..Len(g) : h[n + k] = g[k] /\ g[k] \in Nat
  OBVIOUS
<1>1. /\ \A k \in 1..Len(h) : H[k] = H[k - 1] + h[k]
      /\ J[0] = 0 /\ \A k \in 1..Len(g) : J[k] = J[k - 1] + g[k]
      /\ F \in [0..n -> Nat] /\ J \in [0..Len(g) -> Nat]
  BY <1>0, TotalsOK
<1>2. H[n] = F[n]
  <2>1. n \in 0..Len(f) /\ n <= Len(h) /\ n \in 0..n
    BY <1>0
  <2> HIDE DEF h
  <2>2. \A k \in 0..n : Totals(f)[k] = Totals(h)[k]
    BY <2>1, <1>0, TotalsPrefix
  <2> QED BY <2>1, <2>2
<1> HIDE DEF F, H, J, h, n
<1>3. 0 \in G
  BY <1>0, <1>1, <1>2
<1>4. ASSUME NEW m \in 0..(Len(g) - 1), m \in G PROVE m + 1 \in G
  <2>1. /\ m \in 0..Len(g) /\ n \in 0..n
        /\ m + 1 \in 1..Len(g) /\ n + (m + 1) \in 1..Len(h) /\ (m + 1) - 1 = m
        /\ (n + (m + 1)) - 1 = n + m
    BY <1>0
  <2>2. H[n + (m + 1)] = H[n + m] + g[m + 1] /\ J[m + 1] = J[m] + g[m + 1]
    BY <2>1, <1>1, <1>0
  <2>3. F[n] \in Nat /\ J[m] \in Nat /\ g[m + 1] \in Nat
    BY <2>1, <1>1, <1>0
  <2> QED BY <1>4, <2>1, <2>2, <2>3, SMTT(40)
<1>5. 0..Len(g) \subseteq G
  <2> HIDE DEF G
  <2> QED BY <1>0, <1>3, <1>4, IntervalInduction
<1>6. H[Len(h)] = F[n] + J[Len(g)]
  <2>1. Len(g) \in 0..Len(g)
    BY <1>0
  <2> QED BY <2>1, <1>5, <1>0
<1> QED BY <1>5, <1>6 DEF F, H, J, h, n, Total

\* The total of a sum is the sum of the totals.
LEMMA TotalPlus ==
  ASSUME NEW f \in Seq(Nat), NEW g \in Seq(Nat), NEW h \in Seq(Nat),
         Len(g) = Len(f), Len(h) = Len(f),
         \A k \in 1..Len(f) : h[k] = f[k] + g[k]
  PROVE  Total(h) = Total(f) + Total(g)
<1> DEFINE n == Len(f)
           F == Totals(f)
           H == Totals(h)
           J == Totals(g)
           G == {k \in 0..n : H[k] = F[k] + J[k]}
<1>0. n \in Nat /\ \A k \in 1..n : f[k] \in Nat /\ g[k] \in Nat
  OBVIOUS
<1>1. /\ H[0] = 0 /\ \A k \in 1..n : H[k] = H[k - 1] + h[k]
      /\ J[0] = 0 /\ \A k \in 1..n : J[k] = J[k - 1] + g[k]
      /\ F[0] = 0 /\ \A k \in 1..n : F[k] = F[k - 1] + f[k]
      /\ F \in [0..n -> Nat] /\ J \in [0..n -> Nat] /\ H \in [0..n -> Nat]
  BY TotalsOK
<1> HIDE DEF F, H, J
<1>3. 0 \in G
  BY <1>0, <1>1
<1>4. ASSUME NEW m \in 0..(n - 1), m \in G PROVE m + 1 \in G
  <2>1. m \in 0..n /\ m + 1 \in 1..n /\ m + 1 \in 0..n /\ (m + 1) - 1 = m
    BY <1>0
  <2>2. /\ H[m + 1] = H[m] + (f[m + 1] + g[m + 1])
        /\ J[m + 1] = J[m] + g[m + 1] /\ F[m + 1] = F[m] + f[m + 1]
    BY <2>1, <1>1
  <2>3. /\ F[m] \in Nat /\ J[m] \in Nat /\ H[m] \in Nat
        /\ g[m + 1] \in Nat /\ f[m + 1] \in Nat
    BY <2>1, <1>1, <1>0
  <2>4. H[m] = F[m] + J[m]
    BY <1>4
  <2>5. H[m + 1] = F[m + 1] + J[m + 1]
    <3> DEFINE a == F[m]
               b == J[m]
               x == f[m + 1]
               y == g[m + 1]
    <3>1. H[m + 1] = (a + b) + (x + y) /\ F[m + 1] = a + x /\ J[m + 1] = b + y
      BY <2>2, <2>4
    <3>2. a \in Nat /\ b \in Nat /\ x \in Nat /\ y \in Nat
      BY <2>3
    <3> HIDE DEF a, b, x, y
    <3>3. (a + b) + (x + y) = (a + x) + (b + y)
      BY <3>2
    <3> QED BY <3>1, <3>3
  <2> QED BY <2>1, <2>5
<1>5. 0..n \subseteq G
  <2> HIDE DEF G, n
  <2> QED BY <1>0, <1>3, <1>4, IntervalInduction
<1>6. H[n] = F[n] + J[n]
  BY <1>5, <1>0
<1> QED BY <1>6 DEF F, H, J, Total

\* Totals do not decrease, and none is below a length that is in it.
LEMMA TotalsGrow ==
  ASSUME NEW f \in Seq(Nat)
  PROVE  /\ \A k \in 0..Len(f) : \A j \in 0..k : Totals(f)[j] <= Totals(f)[k]
         /\ \A k \in 1..Len(f) : f[k] <= Total(f)
<1> DEFINE n == Len(f)
           F == Totals(f)
           G == {k \in 0..n : \A j \in 0..k : F[j] <= F[k]}
<1>0. n \in Nat /\ \A k \in 1..n : f[k] \in Nat
  OBVIOUS
<1>1. /\ F[0] = 0 /\ \A k \in 1..n : F[k] = F[k - 1] + f[k]
      /\ F \in [0..n -> Nat]
  BY TotalsOK
<1> HIDE DEF F
<1>2. 0 \in G
  BY <1>0, <1>1
<1>3. ASSUME NEW m \in 0..(n - 1), m \in G PROVE m + 1 \in G
  <2>1. m \in 0..n /\ m + 1 \in 1..n /\ m + 1 \in 0..n /\ (m + 1) - 1 = m
    BY <1>0
  <2>2. F[m + 1] = F[m] + f[m + 1] /\ f[m + 1] \in Nat /\ F[m] \in Nat /\ F[m + 1] \in Nat
    BY <2>1, <1>1, <1>0
  <2>3. ASSUME NEW j \in 0..(m + 1) PROVE F[j] <= F[m + 1]
    <3>1. CASE j = m + 1
      BY <3>1, <2>2
    <3>2. CASE j # m + 1
      <4>1. j \in 0..m /\ j \in 0..n
        BY <3>2, <1>0
      <4>2. F[j] <= F[m] /\ F[j] \in Nat
        BY <4>1, <1>3, <1>1
      <4> QED BY <4>2, <2>2, SMTT(40)
    <3> QED BY <3>1, <3>2
  <2> QED BY <2>1, <2>3
<1>4. 0..n \subseteq G
  <2> HIDE DEF G, n
  <2> QED BY <1>0, <1>2, <1>3, IntervalInduction
<1>5. \A k \in 0..n : \A j \in 0..k : F[j] <= F[k]
  BY <1>4
<1>6. ASSUME NEW k \in 1..n PROVE f[k] <= F[n]
  <2>1. k \in 0..n /\ n \in 0..n /\ k \in 0..n /\ k - 1 \in 0..n
    BY <1>0
  <2>2. F[k] <= F[n] /\ F[k] = F[k - 1] + f[k] /\ F[k - 1] \in Nat /\ f[k] \in Nat /\ F[n] \in Nat
    BY <2>1, <1>5, <1>1, <1>0
  <2> QED BY <2>2
<1> QED BY <1>5, <1>6 DEF F, Total

\* A sequence of zeros has the total 0, one with a single other value has it.
LEMMA TotalSingle ==
  ASSUME NEW n \in Nat, NEW p \in 1..n, NEW x \in Nat
  PROVE  Total([k \in 1..n |-> IF k = p THEN x ELSE 0]) = x
<1> DEFINE f == [k \in 1..n |-> IF k = p THEN x ELSE 0]
           F == Totals(f)
           G == {k \in 0..n : F[k] = IF k < p THEN 0 ELSE x}
<1>0. f \in Seq(Nat) /\ Len(f) = n /\ \A k \in 1..n : f[k] = IF k = p THEN x ELSE 0
  OBVIOUS
<1> HIDE DEF f
<1>1. F[0] = 0 /\ \A k \in 1..n : F[k] = F[k - 1] + f[k]
  BY <1>0, TotalsOK
<1> HIDE DEF F
<1>2. 0 \in G
  BY <1>1
<1>3. ASSUME NEW m \in 0..(n - 1), m \in G PROVE m + 1 \in G
  <2>1. m + 1 \in 1..n /\ m + 1 \in 0..n /\ (m + 1) - 1 = m
    OBVIOUS
  <2>2. F[m + 1] = F[m] + f[m + 1]
    BY <2>1, <1>1
  <2>3. F[m] = (IF m < p THEN 0 ELSE x) /\ f[m + 1] = (IF m + 1 = p THEN x ELSE 0)
    BY <1>3, <2>1, <1>0
  <2>4. F[m + 1] = (IF m + 1 < p THEN 0 ELSE x)
    BY <2>2, <2>3
  <2> QED BY <2>1, <2>4
<1>4. 0..n \subseteq G
  <2> HIDE DEF G
  <2> QED BY <1>2, <1>3, IntervalInduction
<1>5. F[n] = x
  BY <1>4
<1> QED BY <1>5, <1>0 DEF F, f, Total

\* Lengths that are all 0 have the total 0.
LEMMA TotalZero ==
  ASSUME NEW f \in Seq(Nat), \A k \in 1..Len(f) : f[k] = 0
  PROVE  Total(f) = 0
<1> DEFINE n == Len(f)
           F == Totals(f)
           G == {k \in 0..n : F[k] = 0}
<1>0. n \in Nat
  OBVIOUS
<1>1. F[0] = 0 /\ \A k \in 1..n : F[k] = F[k - 1] + f[k]
  BY TotalsOK
<1> HIDE DEF F
<1>2. 0 \in G
  BY <1>0, <1>1
<1>3. ASSUME NEW m \in 0..(n - 1), m \in G PROVE m + 1 \in G
  <2>1. m + 1 \in 1..n /\ m + 1 \in 0..n /\ (m + 1) - 1 = m
    BY <1>0
  <2>2. F[m + 1] = F[m] + f[m + 1]
    BY <2>1, <1>1
  <2> QED BY <1>3, <2>1, <2>2
<1>4. 0..n \subseteq G
  <2> HIDE DEF G, n
  <2> QED BY <1>0, <1>2, <1>3, IntervalInduction
<1>5. F[n] = 0
  BY <1>0, <1>4
<1> QED BY <1>5 DEF F, Total

\* The total of the lengths at some positions, each taken once, in any order.
LEMMA TotalSelected ==
  ASSUME NEW f \in Seq(Nat), NEW o \in Seq(1..Len(f)),
         \A i, j \in 1..Len(o) : o[i] = o[j] => i = j
  PROVE  Total([i \in 1..Len(o) |-> f[o[i]]])
           = Total([k \in 1..Len(f) |->
                      IF \E i \in 1..Len(o) : o[i] = k THEN f[k] ELSE 0])
<1> DEFINE n == Len(f)
           l == Len(o)
           s == [i \in 1..l |-> f[o[i]]]
           S == Totals(s)
           mask(m) == [k \in 1..n |-> IF \E i \in 1..m : o[i] = k THEN f[k] ELSE 0]
           G == {m \in 0..l : S[m] = Total(mask(m))}
<1>0. /\ n \in Nat /\ l \in Nat /\ \A k \in 1..n : f[k] \in Nat
      /\ \A i \in 1..l : o[i] \in 1..n
  BY SMTT(40)
<1>1. s \in Seq(Nat) /\ Len(s) = l /\ \A i \in 1..l : s[i] = f[o[i]]
  BY <1>0
<1> HIDE DEF s
<1>2. /\ S[0] = 0 /\ \A k \in 1..l : S[k] = S[k - 1] + s[k]
  BY <1>1, TotalsOK
<1> HIDE DEF S
<1>3. \A m \in Nat : /\ mask(m) \in Seq(Nat) /\ Len(mask(m)) = n
                     /\ \A k \in 1..n : mask(m)[k] = IF \E i \in 1..m : o[i] = k THEN f[k] ELSE 0
  BY <1>0
<1> HIDE DEF mask
<1>4. 0 \in G
  <2>1. \A k \in 1..n : mask(0)[k] = 0
    <3>1. 0 \in Nat /\ 1..0 = {}
      OBVIOUS
    <3> QED BY <1>3, <3>1
  <2>2. Total(mask(0)) = 0
    BY <2>1, <1>3, TotalZero
  <2> QED BY <2>2, <1>2, <1>0
<1>5. ASSUME NEW m \in 0..(l - 1), m \in G PROVE m + 1 \in G
  <2>1. /\ m + 1 \in 1..l /\ m + 1 \in 0..l /\ (m + 1) - 1 = m /\ m \in Nat /\ m + 1 \in Nat
        /\ m \notin 1..0 
    BY <1>0
  <2> DEFINE p == o[m + 1]
             one == [k \in 1..n |-> IF k = p THEN f[p] ELSE 0]
  <2>2. p \in 1..n /\ f[p] \in Nat
    BY <2>1, <1>0
  <2>3. S[m + 1] = S[m] + f[p]
    BY <2>1, <1>1, <1>2
  <2>4. one \in Seq(Nat) /\ Len(one) = n /\ \A k \in 1..n : one[k] = IF k = p THEN f[p] ELSE 0
    BY <2>2, <1>0
  <2>5. Total(one) = f[p]
    <3> HIDE DEF n, p
    <3> QED BY <2>2, <1>0, TotalSingle
  <2> HIDE DEF one
  <2>6. ASSUME NEW k \in 1..n PROVE mask(m + 1)[k] = mask(m)[k] + one[k]
    <3>0. f[k] \in Nat
      BY <1>0
    <3>1. mask(m)[k] = IF \E i \in 1..m : o[i] = k THEN f[k] ELSE 0
      BY <1>3, <2>1
    <3>2. mask(m + 1)[k] = IF \E i \in 1..(m + 1) : o[i] = k THEN f[k] ELSE 0
      BY <1>3, <2>1
    <3>3. \A i \in 1..m : i \in 1..l /\ i # m + 1 /\ i \in 1..(m + 1)
      BY <2>1, <1>0
    <3>4. \A i \in 1..(m + 1) : i \in 1..m \/ i = m + 1
      BY <2>1
    <3>5. CASE k = p
      <4>1. ~ \E i \in 1..m : o[i] = k
        BY <3>3, <3>5, <2>1
      <4>2. \E i \in 1..(m + 1) : o[i] = k
        BY <3>5, <2>1
      <4>3. mask(m)[k] = 0 /\ mask(m + 1)[k] = f[k] /\ one[k] = f[k]
        BY <4>1, <4>2, <3>1, <3>2, <2>4, <3>5
      <4> QED BY <4>3, <3>0
    <3>6. CASE k # p
      <4>1. (\E i \in 1..m : o[i] = k) <=> (\E i \in 1..(m + 1) : o[i] = k)
        BY <3>3, <3>4, <3>6
      <4>2. mask(m)[k] = mask(m + 1)[k] /\ one[k] = 0 /\ mask(m)[k] \in Nat
        BY <4>1, <3>1, <3>2, <2>4, <3>6, <3>0, SMTT(40)
      <4> QED BY <4>2
    <3> QED BY <3>5, <3>6
  <2>7. Total(mask(m + 1)) = Total(mask(m)) + Total(one)
    <3>1. mask(m) \in Seq(Nat) /\ mask(m + 1) \in Seq(Nat) /\ Len(mask(m)) = n /\ Len(mask(m + 1)) = n
      BY <1>3, <2>1
    <3> QED BY <3>1, <2>4, <2>6, TotalPlus
  <2>8. S[m] = Total(mask(m))
    BY <1>5
  <2>9. S[m + 1] = Total(mask(m + 1))
    BY <2>3, <2>5, <2>7, <2>8
  <2> QED BY <2>1, <2>9
<1>6. 0..l \subseteq G
  <2> HIDE DEF G, l
  <2> QED BY <1>0, <1>4, <1>5, IntervalInduction
<1>7. S[l] = Total(mask(l))
  BY <1>6, <1>0
<1> QED BY <1>7, <1>1 DEF S, s, mask, Total

\* A set of numbers in ascending order.
LEMMA AscendingOK ==
  ASSUME NEW S \in SUBSET Nat, IsFiniteSet(S)
  PROVE  /\ Cardinality(S) \in Nat
         /\ Ascending(S) \in Seq(S) /\ Len(Ascending(S)) = Cardinality(S)
         /\ \A i, j \in 1..Cardinality(S) : i < j => Ascending(S)[i] < Ascending(S)[j]
         /\ \A i, j \in 1..Cardinality(S) : Ascending(S)[i] = Ascending(S)[j] => i = j
         /\ \A x \in S : \E i \in 1..Cardinality(S) : Ascending(S)[i] = x
<1> DEFINE n == Cardinality(S)
           below(x) == {t \in S : t < x}
           rank == [x \in S |-> Cardinality(below(x))]
           s == Ascending(S)
<1>0. n \in Nat
  BY FS_CardinalityType
<1>1. \A x \in S : IsFiniteSet(below(x)) /\ rank[x] \in Nat /\ rank[x] = Cardinality(below(x))
  <2> SUFFICES ASSUME NEW x \in S
               PROVE  IsFiniteSet(below(x)) /\ Cardinality(below(x)) \in Nat
    OBVIOUS
  <2>1. below(x) \in SUBSET S
    OBVIOUS
  <2> HIDE DEF below
  <2> QED BY <2>1, FS_Subset, FS_CardinalityType
<1>a. \A x \in S : rank[x] \in Nat /\ x \in Nat
  BY <1>1
<1>2. \A x, y \in S : x < y => rank[x] < rank[y]
  <2> SUFFICES ASSUME NEW x \in S, NEW y \in S, x < y PROVE rank[x] < rank[y]
    OBVIOUS
  <2>1. below(x) \cup {x} \in SUBSET below(y) /\ x \notin below(x)
    <3>1. x \in Nat /\ y \in Nat /\ \A t \in S : t \in Nat
      BY <1>a
    <3>2. \A t \in S : t < x => t < y
      BY <3>1
    <3>3. x \in below(y) /\ x \notin below(x)
      BY <3>1
    <3> QED BY <3>2, <3>3
  <2> HIDE DEF below
  <2>2. Cardinality(below(x) \cup {x}) = Cardinality(below(x)) + 1
    BY <2>1, <1>1, FS_AddElement
  <2>3. Cardinality(below(x) \cup {x}) <= Cardinality(below(y))
    BY <2>1, <1>1, FS_Subset
  <2> HIDE DEF rank
  <2> QED BY <2>2, <2>3, <1>1
<1>3. \A x \in S : rank[x] \in 0..(n - 1)
  <2> SUFFICES ASSUME NEW x \in S PROVE rank[x] \in 0..(n - 1)
    OBVIOUS
  <2>1. below(x) \in SUBSET (S \ {x})
    OBVIOUS
  <2> HIDE DEF below
  <2>2. IsFiniteSet(S \ {x}) /\ Cardinality(S \ {x}) = n - 1
    BY FS_RemoveElement
  <2>3. Cardinality(below(x)) <= n - 1
    BY <2>1, <2>2, FS_Subset
  <2> HIDE DEF rank, n
  <2> QED BY <2>3, <1>1, <1>0
<1>4. rank \in Injection(S, 0..(n - 1))
  <2>1. rank \in [S -> 0..(n - 1)]
    BY <1>3
  <2>2. \A x, y \in S : rank[x] = rank[y] => x = y
    <3> SUFFICES ASSUME NEW x \in S, NEW y \in S, rank[x] = rank[y], x # y PROVE FALSE
      OBVIOUS
    <3>1. x < y \/ y < x
      BY <1>a
    <3> HIDE DEF rank
    <3> QED BY <3>1, <1>a, <1>2
  <2> HIDE DEF rank
  <2> QED BY <2>1, <2>2 DEF Injection, IsInjective
<1>5. IsFiniteSet(0..(n - 1)) /\ Cardinality(0..(n - 1)) = n
  <2> HIDE DEF n
  <2>1. 0 \in Int /\ n - 1 \in Int
    BY <1>0
  <2> QED BY <2>1, <1>0, FS_Interval
<1>6. rank \in Surjection(S, 0..(n - 1))
  <2> HIDE DEF rank
  <2> QED BY <1>4, <1>5, FS_Injection
<1>7. \A k \in 1..n : \E x \in S : rank[x] = k - 1
  <2> HIDE DEF rank
  <2>1. \A k \in 1..n : k - 1 \in 0..(n - 1)
    BY <1>0
  <2> QED BY <1>6, <2>1 DEF Surjection
<1>8. \A k \in 1..n : s[k] \in S /\ rank[s[k]] = k - 1
  <2> SUFFICES ASSUME NEW k \in 1..n PROVE s[k] \in S /\ rank[s[k]] = k - 1
    OBVIOUS
  <2>1. s[k] = CHOOSE x \in S : Cardinality(below(x)) = k - 1
    BY DEF Ascending
  <2>2. \E x \in S : Cardinality(below(x)) = k - 1
    BY <1>7, <1>1
  <2> HIDE DEF below, s
  <2>3. s[k] \in S /\ Cardinality(below(s[k])) = k - 1
    BY <2>1, <2>2
  <2> QED BY <2>3
<1>9. s = [k \in 1..n |-> s[k]]
  <2> DEFINE F(k) == CHOOSE x \in S : Cardinality(below(x)) = k - 1
  <2>1. s = [k \in 1..n |-> F(k)]
    BY DEF Ascending
  <2> HIDE DEF F, s, n
  <2> QED BY <2>1
<1> HIDE DEF s
<1>10. s \in Seq(S) /\ Len(s) = n
  <2>1. s \in [1..n -> S]
    BY <1>8, <1>9
  <2> HIDE DEF n
  <2> QED BY <2>1, <1>0
<1> HIDE DEF rank
<1>11. \A i, j \in 1..n : i < j => s[i] < s[j]
  <2> SUFFICES ASSUME NEW i \in 1..n, NEW j \in 1..n, i < j, ~(s[i] < s[j]) PROVE FALSE
    OBVIOUS
  <2>1. s[i] \in Nat /\ s[j] \in Nat /\ s[i] \in S /\ s[j] \in S /\ rank[s[i]] < rank[s[j]]
    <3>1. s[i] \in S /\ s[j] \in S /\ rank[s[i]] = i - 1 /\ rank[s[j]] = j - 1
      BY <1>8
    <3>2. i - 1 < j - 1
      <4> HIDE DEF n
      <4> QED BY <1>0
    <3>3. s[i] \in Nat /\ s[j] \in Nat
      BY <3>1, <1>a
    <3> HIDE DEF n
    <3> QED BY <3>1, <3>2, <3>3
  <2>2. s[i] = s[j] \/ s[j] < s[i]
    BY <2>1
  <2>3. CASE s[j] < s[i]
    <3>1. rank[s[j]] < rank[s[i]]
      BY <2>3, <2>1, <1>2
    <3> QED BY <3>1, <2>1, <1>a
  <2> QED BY <2>1, <2>2, <2>3, <1>a
<1>12. \A i, j \in 1..n : s[i] = s[j] => i = j
  BY <1>0, <1>8
<1>13. \A x \in S : \E i \in 1..n : s[i] = x
  <2> SUFFICES ASSUME NEW x \in S PROVE \E i \in 1..n : s[i] = x
    OBVIOUS
  <2>1. rank[x] \in 0..(n - 1) /\ rank[x] + 1 \in 1..n /\ (rank[x] + 1) - 1 = rank[x]
    BY <1>3, <1>0 
  <2>2. s[rank[x] + 1] \in S /\ rank[s[rank[x] + 1]] = rank[x]
    BY <2>1, <1>8
  <2>3. s[rank[x] + 1] = x
    <3> HIDE DEF n
    <3>1. \A a, b \in S : rank[a] = rank[b] => a = b
      BY <1>4 DEF Injection, IsInjective
    <3> QED BY <3>1, <2>2
  <2> QED BY <2>1, <2>3
<1> QED BY <1>0, <1>10, <1>11, <1>12, <1>13 DEF s

\* What a budget pays for: all but the last of the lengths are within it.
LEMMA AffordableOK ==
  ASSUME NEW budget \in Nat, NEW l \in Seq(Nat)
  PROVE  LET k == Affordable(budget, l)
         IN  /\ k \in 0..Len(l)
             /\ k = Len(l) \/ Totals(l)[k] >= budget
             /\ \A j \in 0..(k - 1) : Totals(l)[j] < budget
<1> DEFINE n == Len(l)
           F == Totals(l)
           Stop(k) == /\ k = n \/ F[k] >= budget
                      /\ \A j \in 0..(k - 1) : F[j] < budget
           T == {k \in 0..n : k = n \/ F[k] >= budget}
<1>0. n \in Nat
  OBVIOUS
<1>1. F \in [0..n -> Nat]
  BY TotalsOK
<1> HIDE DEF F
<1>2. T \in SUBSET Nat /\ n \in T
  BY <1>0
<1>3. PICK k \in T : \A j \in T : k <= j
  <2> HIDE DEF T
  <2> QED BY <1>2, Least
<1>4. k \in 0..n /\ Stop(k)
  <2>1. ASSUME NEW j \in 0..(k - 1) PROVE F[j] < budget
    <3>1. j \in 0..n /\ j # n /\ j \notin T /\ F[j] \in Nat
      BY <1>0, <1>1, <1>3
    <3> QED BY <3>1
  <2> QED BY <2>1, <1>3
<1>5. Affordable(budget, l) = CHOOSE i \in 0..n : Stop(i)
  BY DEF Affordable, F
<1> HIDE DEF Stop
<1>6. Affordable(budget, l) \in 0..n /\ Stop(Affordable(budget, l))
  BY <1>4, <1>5
<1> QED BY <1>6 DEF Stop, F

\* The controller after s datagrams were sent and total bytes acknowledged.
ControllerOK(c, s, total) ==
  /\ c \in UDT!Controllers(RoundTrips) \cup Window!Controllers
  /\ c.nextDatagramSequenceNumber = s
  /\ c.nextCongestionControlBlock <= s
  /\ c.kind = "UDT" =>
       /\ c.snd <= SndCap
       /\ c.isInSlowStart => c.window = UDT!Higher(total, CwndMin * MTU)
  /\ c.kind = "SlidingWindow" => MTU <= c.cwnd

\* The products of constants that the controllers use.
LEMMA WindowSizes ==
  /\ MTU \in Nat \ {0}
  /\ CwndMin * MTU \in Nat \ {0}
  /\ CwndMaxThreshold * MTU \in Nat
  /\ CwndOffset * MTU \in Nat
  /\ MTU * MTU \in Nat
<1>1. MTU \in Nat \ {0} /\ CwndMin \in Nat \ {0} /\ CwndMaxThreshold \in Nat /\ CwndOffset \in Nat
  BY PacingAssumption
<1>2. \A a, b \in Nat : a * b \in Nat
  OBVIOUS
<1>3. \A a, b \in Nat \ {0} : a * b # 0
  OBVIOUS
<1> QED BY <1>1, <1>2, <1>3

\* The kind of a controller tells which fields it has.
LEMMA ControllerKinds ==
  ASSUME NEW c \in UDT!Controllers(RoundTrips) \cup Window!Controllers
  PROVE  \/ c.kind = "UDT" /\ c \in UDT!Controllers(RoundTrips)
         \/ c.kind = "SlidingWindow" /\ c \in Window!Controllers
BY DEF UDT!Controllers, Window!Controllers

\* A new controller has sent nothing and been acknowledged nothing.
LEMMA NewOK ==
  ASSUME NEW kind \in Kinds
  PROVE  ControllerOK(New(kind), 0, 0)
<1> DEFINE W == CwndMin * MTU
<1>0. W \in Nat \ {0} /\ MTU \in Nat
  BY WindowSizes
<1>1. UDT!Higher(0, W) = W
  <2> HIDE DEF W
  <2> QED BY <1>0 DEF UDT!Higher
<1> HIDE DEF W
<1>2. CASE kind = "UDT"
  <2>1. New(kind) = [kind |-> "UDT", isInSlowStart |-> TRUE, window |-> W,
                     snd |-> DefaultSnd, lastRtt |-> 0,
                     nextCongestionControlBlock |-> 0,
                     nextDatagramSequenceNumber |-> 0,
                     hadPacketlossThisBlock |-> FALSE,
                     pingsLastInterval |-> <<>>]
    BY <1>2 DEF New, UDT!NewUDT, W
  <2>2. DefaultSnd \in Nat \ {0} /\ DefaultSnd <= SndCap
    BY PacingAssumption
  <2>3. New(kind) \in UDT!Controllers(RoundTrips)
    BY <2>1, <2>2, <1>0 DEF UDT!Controllers
  <2> QED BY <2>1, <2>2, <2>3, <1>1 DEF ControllerOK, W
<1>3. CASE kind = "SlidingWindow"
  <2>1. New(kind) = Window!NewSlidingWindow
    BY <1>3 DEF New
  <2> QED BY <2>1, <1>0 DEF ControllerOK, Window!NewSlidingWindow, Window!Controllers
<1> QED BY <1>2, <1>3, PacingAssumption

\* Asking for a budget changes no more than what a sliding window remembers.
LEMMA AfterBandwidthOK ==
  ASSUME NEW c, NEW s \in Nat, NEW total \in Nat, ControllerOK(c, s, total), NEW b \in BOOLEAN
  PROVE  /\ ControllerOK(AfterBandwidth(c, b), s, total)
         /\ c.kind = "UDT" => AfterBandwidth(c, b) = c
         /\ AfterBandwidth(c, b).kind = c.kind
<1>1. CASE c.kind = "UDT"
  BY <1>1 DEF AfterBandwidth
<1>2. CASE c.kind = "SlidingWindow"
  <2>1. c \in Window!Controllers
    BY <1>2, ControllerKinds DEF ControllerOK
  <2>2. AfterBandwidth(c, b) = [c EXCEPT !.isContinuousSend = b]
    BY <1>2 DEF AfterBandwidth, Window!Remember
  <2> QED BY <1>2, <2>1, <2>2 DEF ControllerOK, Window!Controllers
<1> QED BY <1>1, <1>2, ControllerKinds DEF ControllerOK

\* Sending counts datagrams and does nothing else.
LEMMA AfterSendingIs ==
  ASSUME NEW c, NEW s \in Nat, NEW total \in Nat, ControllerOK(c, s, total), NEW n \in Nat
  PROVE  AfterSending(c, n) = [c EXCEPT !.nextDatagramSequenceNumber = s + n]
<1> DEFINE one(d) == [d EXCEPT !.nextDatagramSequenceNumber = @ + 1]
           A(k) == [c EXCEPT !.nextDatagramSequenceNumber = s + k]
           Eq(f) == f = [k \in 0..n |->
                           IF k = 0 THEN c
                           ELSE IF c.kind = "UDT" THEN UDT!OnDatagramSent(f[k - 1])
                                ELSE Window!OnDatagramSent(f[k - 1])]
           g == [k \in 0..n |-> A(k)]
<1>0. \A k \in Nat : A(k) = A((k - 1) + 1)
  OBVIOUS
<1>1. \A d : UDT!OnDatagramSent(d) = one(d) /\ Window!OnDatagramSent(d) = one(d)
  BY DEF UDT!OnDatagramSent, Window!OnDatagramSent
<1>2. c.nextDatagramSequenceNumber = s /\ A(0) = c
  <2>1. c.nextDatagramSequenceNumber = s
    BY DEF ControllerOK
  <2>2. CASE c.kind = "UDT"
    <3>1. c \in UDT!Controllers(RoundTrips)
      BY <2>2, ControllerKinds DEF ControllerOK
    <3> QED BY <2>1, <3>1 DEF UDT!Controllers
  <2>3. CASE c.kind = "SlidingWindow"
    <3>1. c \in Window!Controllers
      BY <2>3, ControllerKinds DEF ControllerOK
    <3> QED BY <2>1, <3>1 DEF Window!Controllers
  <2> QED BY <2>2, <2>3, ControllerKinds DEF ControllerOK
<1>3. \A k \in Nat : one(A(k)) = A(k + 1)
  <2> SUFFICES ASSUME NEW k \in Nat PROVE one(A(k)) = A(k + 1)
    OBVIOUS
  <2>1. (s + k) + 1 = s + (k + 1)
    OBVIOUS
  <2>2. CASE c.kind = "UDT"
    <3>1. c \in UDT!Controllers(RoundTrips)
      BY <2>2, ControllerKinds DEF ControllerOK
    <3> QED BY <2>1, <3>1 DEF UDT!Controllers
  <2>3. CASE c.kind = "SlidingWindow"
    <3>1. c \in Window!Controllers
      BY <2>3, ControllerKinds DEF ControllerOK
    <3> QED BY <2>1, <3>1 DEF Window!Controllers
  <2> QED BY <2>2, <2>3, ControllerKinds DEF ControllerOK
<1> HIDE DEF A, one
<1>4. Eq(g)
  <2>1. ASSUME NEW k \in 1..n PROVE g[k] = one(g[k - 1])
    <3>1. k - 1 \in 0..n /\ k \in 0..n /\ k - 1 \in Nat /\ (k - 1) + 1 = k
      OBVIOUS
    <3>2. g[k] = A(k) /\ g[k - 1] = A(k - 1)
      BY <3>1
    <3>3. one(A(k - 1)) = A((k - 1) + 1)
      BY <3>1, <1>3
    <3> QED BY <3>1, <3>2, <3>3
  <2>2. g[0] = c
    BY <1>2
  <2>3. \A k \in 0..n : g[k] = (IF k = 0 THEN c
                           ELSE IF c.kind = "UDT" THEN UDT!OnDatagramSent(g[k - 1])
                                ELSE Window!OnDatagramSent(g[k - 1]))
    <3> HIDE DEF g
    <3> QED BY <2>1, <2>2, <1>1
  <2> QED BY <2>3
<1> DEFINE f == CHOOSE h : Eq(h)
<1>5. AfterSending(c, n) = f[n]
  BY DEF AfterSending
<1>6. Eq(f)
  <2> HIDE DEF Eq
  <2> QED BY <1>4
<1> HIDE DEF f
<1>7. f[0] = c /\ \A k \in 1..n : f[k] = one(f[k - 1])
  BY <1>6, <1>1
<1> HIDE DEF Eq
<1> DEFINE G == {k \in 0..n : f[k] = A(k)}
<1>8. 0 \in G
  BY <1>7, <1>2
<1>9. ASSUME NEW m \in 0..(n - 1), m \in G PROVE m + 1 \in G
  <2>1. m \in Nat /\ m + 1 \in 1..n /\ m + 1 \in 0..n /\ (m + 1) - 1 = m
    OBVIOUS
  <2>2. f[m + 1] = one(f[m])
    BY <2>1, <1>7
  <2> QED BY <2>1, <2>2, <1>3, <1>9
<1>10. 0..n \subseteq G
  <2> HIDE DEF G
  <2> QED BY <1>8, <1>9, IntervalInduction
<1>11. n \in 0..n
  OBVIOUS
<1>12. f[n] = A(n)
  BY <1>10, <1>11
<1> QED BY <1>5, <1>12 DEF A

\* onDatagramSent counts each of n datagrams and leaves window and phase alone.
LEMMA AfterSendingOK ==
  ASSUME NEW c, NEW s \in Nat, NEW total \in Nat, ControllerOK(c, s, total), NEW n \in Nat
  PROVE  /\ ControllerOK(AfterSending(c, n), s + n, total)
         /\ AfterSending(c, n).kind = c.kind
         /\ c.kind = "UDT" => /\ AfterSending(c, n).isInSlowStart = c.isInSlowStart
                              /\ AfterSending(c, n).window = c.window
<1> DEFINE d == AfterSending(c, n)
<1>1. d = [c EXCEPT !.nextDatagramSequenceNumber = s + n]
  BY AfterSendingIs
<1> HIDE DEF d
<1>2. CASE c.kind = "UDT"
  <2>1. c \in UDT!Controllers(RoundTrips)
    BY <1>2, ControllerKinds DEF ControllerOK
  <2>2. d \in UDT!Controllers(RoundTrips)
    BY <1>1, <2>1, SMTT(40) DEF UDT!Controllers
  <2>3. /\ d.nextDatagramSequenceNumber = s + n /\ d.kind = "UDT" /\ d.snd = c.snd
        /\ d.isInSlowStart = c.isInSlowStart /\ d.window = c.window
        /\ d.nextCongestionControlBlock = c.nextCongestionControlBlock
    BY <1>1, <1>2, <2>1 DEF UDT!Controllers
  <2>4. c.nextCongestionControlBlock \in Nat /\ c.nextCongestionControlBlock <= s
    BY <2>1 DEF UDT!Controllers, ControllerOK
  <2>5. c.nextCongestionControlBlock <= s + n
    BY <2>4
  <2> QED BY <1>2, <2>2, <2>3, <2>5 DEF ControllerOK, d
<1>3. CASE c.kind = "SlidingWindow"
  <2>1. c \in Window!Controllers
    BY <1>3, ControllerKinds DEF ControllerOK
  <2>2. d \in Window!Controllers
    BY <1>1, <2>1 DEF Window!Controllers
  <2>3. /\ d.nextDatagramSequenceNumber = s + n /\ d.kind = "SlidingWindow" /\ d.cwnd = c.cwnd
        /\ d.nextCongestionControlBlock = c.nextCongestionControlBlock
    BY <1>1, <1>3, <2>1 DEF Window!Controllers
  <2>4. c.nextCongestionControlBlock \in Nat /\ c.nextCongestionControlBlock <= s
    BY <2>1 DEF Window!Controllers, ControllerOK
  <2>5. c.nextCongestionControlBlock <= s + n
    BY <2>4
  <2> QED BY <1>3, <2>2, <2>3, <2>5 DEF ControllerOK, d
<1> QED BY <1>2, <1>3, ControllerKinds DEF ControllerOK

\* The types of the constants, one by one.
LEMMA Constants ==
  /\ MTU \in Nat \ {0} /\ AckMTU \in Nat \ {0}
  /\ SndCap \in Nat \ {0} /\ DefaultSnd \in Nat \ {0} /\ DefaultSnd <= SndCap
  /\ IdleCap \in Nat /\ CwndOffset \in Nat /\ Syn \in Nat /\ DefaultRtt \in Nat
  /\ IntervalSize \in Nat
  /\ MaxNackQueueSize \in Nat /\ MaxWrites \in Nat /\ MaxSeq \in Nat
<1>1. /\ {CwndOffset, Syn, DefaultRtt, IntervalSize} \subseteq Nat
      /\ {MaxNackQueueSize, MaxWrites, MaxSeq} \subseteq Nat
  BY PacingAssumption
<1>2. MTU \in Nat \ {0} /\ AckMTU \in 11..MTU /\ SndCap \in Nat /\ DefaultSnd \in 1..SndCap /\ IdleCap \in Nat
  BY PacingAssumption
<1> QED BY <1>1, <1>2

\* Slow start ends with a sending interval that capMinSnd has bounded.
LEMMA EndSlowStartOK ==
  ASSUME NEW c \in UDT!Controllers(RoundTrips)
  PROVE  \E snd \in 1..SndCap :
           UDT!EndSlowStart(c) = [c EXCEPT !.isInSlowStart = FALSE, !.snd = snd]
<1> DEFINE surplus == c.window - CwndOffset * MTU
           total == (IF c.lastRtt > 0 THEN c.lastRtt ELSE DefaultRtt) + Syn
           snd == IF surplus > 0 THEN UDT!Higher(total \div surplus, UDT!MinSnd) ELSE DefaultSnd
<1>1. total \in Nat
  <2>1. c.lastRtt \in Nat
    BY DEF UDT!Controllers
  <2> QED BY <2>1, Constants
<1>2. surplus \in Int
  <2> DEFINE o == CwndOffset * MTU
  <2>1. o \in Nat /\ c.window \in Nat
    BY WindowSizes DEF UDT!Controllers
  <2> HIDE DEF o
  <2>2. c.window - o \in Int
    BY <2>1
  <2> QED BY <2>2 DEF o
<1>3. UDT!EndSlowStart(c) = [c EXCEPT !.isInSlowStart = FALSE, !.snd = UDT!CapMinSnd(snd)]
  BY DEF UDT!EndSlowStart
<1> HIDE DEF surplus, total
<1>4. surplus > 0 => total \div surplus \in Nat
  BY <1>1, <1>2
<1> DEFINE q == total \div surplus
<1>5. snd = IF surplus > 0 THEN UDT!Higher(q, UDT!MinSnd) ELSE DefaultSnd
  OBVIOUS
<1> HIDE DEF q
<1>6. surplus > 0 => UDT!Higher(q, UDT!MinSnd) \in Nat \ {0}
  BY <1>4 DEF UDT!Higher, UDT!MinSnd, q
<1>7. snd \in Nat \ {0}
  BY <1>5, <1>6, PacingAssumption
<1> HIDE DEF snd
<1>8. UDT!CapMinSnd(snd) \in 1..SndCap
  BY <1>7, PacingAssumption DEF UDT!CapMinSnd, UDT!Lower
<1> QED BY <1>3, <1>8

\* A controller that forgets its slow start, or whose rate changes, is one.
LEMMA RateChanged ==
  ASSUME NEW c, NEW s \in Nat, NEW total \in Nat, ControllerOK(c, s, total), c.kind = "UDT",
         NEW d \in UDT!Controllers(RoundTrips), d.snd <= SndCap, ~d.isInSlowStart,
         d.nextDatagramSequenceNumber = s, d.nextCongestionControlBlock <= s
  PROVE  \A t \in Nat : ControllerOK(d, s, t)
<1>1. d.kind = "UDT"
  BY DEF UDT!Controllers
<1> QED BY <1>1 DEF ControllerOK

\* A loss takes UDT out of slow start and keeps the bound of the interval.
LEMMA OnLossOK ==
  ASSUME NEW c, NEW s \in Nat, NEW total \in Nat, ControllerOK(c, s, total), c.kind = "UDT"
  PROVE  /\ ControllerOK(UDT!OnLoss(c), s, total)
         /\ UDT!OnLoss(c).kind = "UDT"
         /\ ~UDT!OnLoss(c).isInSlowStart
<1> DEFINE d == UDT!OnLoss(c)
<1>1. /\ c \in UDT!Controllers(RoundTrips)
      /\ c.nextDatagramSequenceNumber = s /\ c.nextCongestionControlBlock <= s
      /\ c.snd \in Nat \ {0} /\ c.snd <= SndCap /\ SndCap \in Nat \ {0}
      /\ c.isInSlowStart \in BOOLEAN
  <2>1. c \in UDT!Controllers(RoundTrips)
    BY ControllerKinds DEF ControllerOK
  <2>2. c.snd \in Nat \ {0} /\ c.isInSlowStart \in BOOLEAN
    BY <2>1 DEF UDT!Controllers
  <2> QED BY <2>1, <2>2, Constants DEF ControllerOK
<1>2. CASE c.isInSlowStart
  <2>1. PICK x \in 1..SndCap : UDT!EndSlowStart(c) = [c EXCEPT !.isInSlowStart = FALSE, !.snd = x]
    BY <1>1, EndSlowStartOK
  <2>2. d = [c EXCEPT !.isInSlowStart = FALSE, !.snd = x]
    BY <1>2, <2>1 DEF UDT!OnLoss
  <2> HIDE DEF d
  <2>x. x \in Nat \ {0}
    BY <1>1
  <2>3. /\ d \in UDT!Controllers(RoundTrips) /\ d.snd = x /\ d.isInSlowStart = FALSE
        /\ d.nextDatagramSequenceNumber = s /\ d.nextCongestionControlBlock <= s /\ d.kind = "UDT"
    BY <1>1, <2>2, <2>x DEF UDT!Controllers
  <2>4. x <= SndCap
    BY <1>1
  <2> QED BY <2>3, <2>4, RateChanged DEF d
<1>3. CASE ~c.isInSlowStart /\ ~c.hadPacketlossThisBlock
  <2> DEFINE x == UDT!CapMinSnd(c.snd + 1)
  <2>1. d = [[c EXCEPT !.snd = x] EXCEPT !.hadPacketlossThisBlock = TRUE]
    BY <1>3 DEF UDT!OnLoss, UDT!IncreaseTimeBetweenSends
  <2>2. x \in Nat \ {0} /\ x <= SndCap
    BY <1>1 DEF UDT!CapMinSnd, UDT!Lower
  <2> HIDE DEF d, x
  <2>3. /\ d \in UDT!Controllers(RoundTrips) /\ d.snd = x /\ d.isInSlowStart = FALSE
        /\ d.nextDatagramSequenceNumber = s /\ d.nextCongestionControlBlock <= s /\ d.kind = "UDT"
    BY <1>1, <1>3, <2>1, <2>2 DEF UDT!Controllers
  <2> QED BY <2>2, <2>3, RateChanged DEF d
<1>4. CASE ~c.isInSlowStart /\ c.hadPacketlossThisBlock
  <2>1. d = c
    BY <1>4 DEF UDT!OnLoss
  <2> QED BY <1>4, <2>1
<1>5. c.hadPacketlossThisBlock \in BOOLEAN
  BY <1>1 DEF UDT!Controllers
<1> QED BY <1>1, <1>2, <1>3, <1>4, <1>5

\* A loss never shrinks a sliding window below one datagram.
LEMMA WindowLossOK ==
  ASSUME NEW c, NEW s \in Nat, NEW total \in Nat, ControllerOK(c, s, total),
         c.kind = "SlidingWindow"
  PROVE  /\ ControllerOK(Window!OnNAK(c), s, total) /\ Window!OnNAK(c).kind = c.kind
         /\ ControllerOK(Window!OnResend(c), s, total) /\ Window!OnResend(c).kind = c.kind
<1>1. /\ c \in Window!Controllers /\ MTU \in Nat /\ c.cwnd \in Nat
      /\ c.nextDatagramSequenceNumber = s /\ c.nextCongestionControlBlock <= s
      /\ MTU <= c.cwnd
  BY ControllerKinds, WindowSizes DEF ControllerOK, Window!Controllers
<1>2. c.cwnd \div 2 \in Nat
  BY <1>1
<1>3. \A x \in Nat : LET d == [c EXCEPT !.ssThresh = x]
                     IN  ControllerOK(d, s, total) /\ d.kind = c.kind
  BY <1>1 DEF ControllerOK, Window!Controllers
<1>4. \A x \in Nat : LET d == [c EXCEPT !.ssThresh = x, !.cwnd = MTU,
                                 !.nextCongestionControlBlock = s, !.backoffThisBlock = TRUE]
                     IN  ControllerOK(d, s, total) /\ d.kind = c.kind
  <2> SUFFICES ASSUME NEW x \in Nat
               PROVE  LET d == [c EXCEPT !.ssThresh = x, !.cwnd = MTU,
                                 !.nextCongestionControlBlock = s, !.backoffThisBlock = TRUE]
                      IN  ControllerOK(d, s, total) /\ d.kind = c.kind
    OBVIOUS
  <2> DEFINE d == [c EXCEPT !.ssThresh = x, !.cwnd = MTU,
                            !.nextCongestionControlBlock = s, !.backoffThisBlock = TRUE]
  <2>1. /\ d \in Window!Controllers /\ d.nextDatagramSequenceNumber = s /\ d.cwnd = MTU
        /\ d.nextCongestionControlBlock = s /\ d.kind = "SlidingWindow"
    BY <1>1 DEF Window!Controllers
  <2>2. s <= s /\ MTU <= MTU
    BY <1>1
  <2> HIDE DEF d
  <2>3. ControllerOK(d, s, total) /\ d.kind = c.kind
    BY <2>1, <2>2 DEF ControllerOK
  <2> QED BY <2>3 DEF d
<1>5. Window!OnNAK(c) = c \/ Window!OnNAK(c) = [c EXCEPT !.ssThresh = c.cwnd \div 2]
  BY DEF Window!OnNAK
<1>6. \/ Window!OnResend(c) = c
      \/ \E x \in Nat : Window!OnResend(c) =
           [c EXCEPT !.ssThresh = x, !.cwnd = MTU,
                     !.nextCongestionControlBlock = s, !.backoffThisBlock = TRUE]
  <2> DEFINE x == IF c.cwnd \div 2 < MTU THEN MTU ELSE c.cwnd \div 2
  <2>1. x \in Nat
    BY <1>1, <1>2
  <2>2. \/ Window!OnResend(c) = c
        \/ Window!OnResend(c) =
           [c EXCEPT !.ssThresh = x, !.cwnd = MTU,
                     !.nextCongestionControlBlock = s, !.backoffThisBlock = TRUE]
    BY <1>1 DEF Window!OnResend
  <2> HIDE DEF x
  <2> QED BY <2>1, <2>2
<1>7. ControllerOK(Window!OnNAK(c), s, total) /\ Window!OnNAK(c).kind = c.kind
  BY <1>2, <1>3, <1>5
<1>8. ControllerOK(Window!OnResend(c), s, total) /\ Window!OnResend(c).kind = c.kind
  BY <1>4, <1>6
<1> QED BY <1>7, <1>8

\* Both callbacks for a loss, for both controllers.
LEMMA AfterLossOK ==
  ASSUME NEW c, NEW s \in Nat, NEW total \in Nat, ControllerOK(c, s, total)
  PROVE  /\ ControllerOK(AfterNAK(c), s, total) /\ ControllerOK(AfterResend(c), s, total)
         /\ AfterNAK(c).kind = c.kind /\ AfterResend(c).kind = c.kind
         /\ c.kind = "UDT" => ~AfterNAK(c).isInSlowStart /\ ~AfterResend(c).isInSlowStart
<1>1. CASE c.kind = "UDT"
  BY <1>1, OnLossOK DEF AfterNAK, AfterResend
<1>2. CASE c.kind = "SlidingWindow"
  BY <1>2, WindowLossOK DEF AfterNAK, AfterResend
<1> QED BY <1>1, <1>2, ControllerKinds DEF ControllerOK

\* In slow start an acknowledgement makes the window the bytes acknowledged,
\* or ends slow start.
LEMMA SlowStartAckOK ==
  ASSUME NEW c, NEW s \in Nat, NEW total \in Nat, ControllerOK(c, s, total), c.kind = "UDT",
         NEW rtt \in RoundTrips, NEW after \in Nat
  PROVE  LET d == UDT!OnAckInSlowStart(c, rtt, after)
         IN  ControllerOK(d, s, after) /\ d.kind = "UDT"
<1> DEFINE W == CwndMin * MTU
           M == CwndMaxThreshold * MTU
           w == UDT!Higher(after, W)
           h == [c EXCEPT !.lastRtt = rtt, !.nextCongestionControlBlock = s]
           d == UDT!OnAckInSlowStart(c, rtt, after)
<1>1. /\ c \in UDT!Controllers(RoundTrips) /\ c.nextDatagramSequenceNumber = s
      /\ c.nextCongestionControlBlock <= s /\ c.snd <= SndCap
  BY ControllerKinds DEF ControllerOK
<1>2. W \in Nat /\ M \in Nat
  BY WindowSizes
<1> HIDE DEF W, M
<1>3. w \in Nat
  BY <1>2 DEF UDT!Higher
<1>4. rtt \in Nat
  BY PacingAssumption
<1>5. d = [(IF w >= M THEN UDT!EndSlowStart(h) ELSE h) EXCEPT !.window = IF w >= M THEN M ELSE w]
  BY <1>1 DEF UDT!OnAckInSlowStart, W, M
<1>6. /\ h \in UDT!Controllers(RoundTrips) /\ h.nextDatagramSequenceNumber = s
      /\ h.nextCongestionControlBlock = s /\ h.snd = c.snd /\ h.kind = "UDT"
  BY <1>1, <1>4 DEF UDT!Controllers
<1> HIDE DEF w, h, d
<1>7. CASE w >= M
  <2>1. PICK x \in 1..SndCap : UDT!EndSlowStart(h) = [h EXCEPT !.isInSlowStart = FALSE, !.snd = x]
    BY <1>6, EndSlowStartOK
  <2>2. x \in Nat \ {0} /\ x <= SndCap
    BY Constants
  <2>3. d = [[h EXCEPT !.isInSlowStart = FALSE, !.snd = x] EXCEPT !.window = M]
    BY <1>5, <1>7, <2>1
  <2>4. /\ d \in UDT!Controllers(RoundTrips) /\ d.snd = x /\ d.isInSlowStart = FALSE
        /\ d.nextDatagramSequenceNumber = s /\ d.nextCongestionControlBlock = s /\ d.kind = "UDT"
    BY <1>2, <1>6, <2>2, <2>3 DEF UDT!Controllers
  <2>5. s <= s
    OBVIOUS
  <2> QED BY <2>2, <2>4, <2>5, RateChanged DEF d
<1>8. CASE ~(w >= M)
  <2>1. d = [h EXCEPT !.window = w]
    BY <1>5, <1>8
  <2>2. /\ d \in UDT!Controllers(RoundTrips) /\ d.snd = c.snd /\ d.window = w
        /\ d.nextDatagramSequenceNumber = s /\ d.nextCongestionControlBlock = s /\ d.kind = "UDT"
    BY <1>3, <1>6, <2>1 DEF UDT!Controllers
  <2>3. s <= s
    OBVIOUS
  <2>4. d.window = UDT!Higher(after, CwndMin * MTU)
    BY <2>2 DEF w, W
  <2> QED BY <2>2, <2>3, <2>4, <1>1 DEF ControllerOK, d
<1> QED BY <1>7, <1>8

\* Whatever the slopes of the round trips say, the interval stays bounded.
LEMMA SlopeDecisionOK ==
  ASSUME NEW c \in UDT!Controllers(RoundTrips), c.snd <= SndCap, NEW pings
  PROVE  \E x \in 1..SndCap : UDT!SlopeDecision(c, pings) = [c EXCEPT !.snd = x]
<1> DEFINE up == UDT!CapMinSnd(c.snd + 1)
           down == UDT!Higher(c.snd - 1, UDT!MinSnd)
<1>1. c.snd \in Nat \ {0} /\ SndCap \in Nat \ {0}
  BY Constants DEF UDT!Controllers
<1>2. up \in 1..SndCap /\ down \in 1..SndCap /\ c.snd \in 1..SndCap
  BY <1>1 DEF UDT!CapMinSnd, UDT!Lower, UDT!Higher, UDT!MinSnd
<1> HIDE DEF up, down
<1>3. c = [c EXCEPT !.snd = c.snd]
  BY DEF UDT!Controllers
<1>4. \/ UDT!SlopeDecision(c, pings) = c
      \/ UDT!SlopeDecision(c, pings) = [c EXCEPT !.snd = up]
      \/ UDT!SlopeDecision(c, pings) = [c EXCEPT !.snd = down]
  BY DEF UDT!SlopeDecision, UDT!IncreaseTimeBetweenSends, UDT!DecreaseTimeBetweenSends, up, down
<1> QED BY <1>2, <1>3, <1>4

\* After slow start an acknowledgement keeps the bound and never goes back.
LEMMA AckPerSynOK ==
  ASSUME NEW c, NEW s \in Nat, NEW total \in Nat, ControllerOK(c, s, total), c.kind = "UDT",
         ~c.isInSlowStart, NEW rtt \in RoundTrips, NEW b \in BOOLEAN, NEW last
  PROVE  LET d == UDT!OnAckPerSyn(c, rtt, b, last)
         IN  /\ \A t \in Nat : ControllerOK(d, s, t)
             /\ d.kind = "UDT" /\ ~d.isInSlowStart
<1> DEFINE all == Append(c.pingsLastInterval, rtt)
           pings == IF Len(all) > IntervalSize THEN Tail(all) ELSE all
           d == UDT!OnAckPerSyn(c, rtt, b, last)
           due == /\ UDT!GreaterThan(last, c.nextCongestionControlBlock)
                  /\ (last - c.nextCongestionControlBlock) % (256 * IndexSpace)
                       >= IntervalSize
                  /\ Len(pings) = IntervalSize
<1>1. /\ c \in UDT!Controllers(RoundTrips) /\ c.nextDatagramSequenceNumber = s
      /\ c.nextCongestionControlBlock <= s /\ c.snd <= SndCap
  BY ControllerKinds DEF ControllerOK
<1>2. pings \in Seq(RoundTrips)
  <2>1. c.pingsLastInterval \in Seq(RoundTrips)
    BY <1>1 DEF UDT!Controllers
  <2>2. all \in Seq(RoundTrips) /\ all # <<>>
    BY <2>1
  <2> HIDE DEF all
  <2> QED BY <2>2
<1>3. \/ d = [c EXCEPT !.nextCongestionControlBlock = s, !.pingsLastInterval = <<>>]
      \/ d = [c EXCEPT !.pingsLastInterval = pings]
      \/ d = [UDT!SlopeDecision(c, pings) EXCEPT
                !.nextCongestionControlBlock = s,
                !.pingsLastInterval = <<>>, !.hadPacketlossThisBlock = FALSE]
  <2>1. d = CASE ~b -> [c EXCEPT !.nextCongestionControlBlock = s, !.pingsLastInterval = <<>>]
              [] b /\ ~due -> [c EXCEPT !.pingsLastInterval = pings]
              [] b /\ due -> [UDT!SlopeDecision(c, pings) EXCEPT
                               !.nextCongestionControlBlock = s,
                               !.pingsLastInterval = <<>>, !.hadPacketlossThisBlock = FALSE]
    BY <1>1 DEF UDT!OnAckPerSyn
  <2> HIDE DEF due, pings, d
  <2> QED BY <2>1
<1> HIDE DEF pings, d, due
<1>4. s <= s /\ <<>> \in Seq(RoundTrips)
  OBVIOUS
<1> DEFINE Good == /\ d \in UDT!Controllers(RoundTrips) /\ d.snd <= SndCap /\ d.isInSlowStart = FALSE
                   /\ d.nextDatagramSequenceNumber = s /\ d.nextCongestionControlBlock <= s
                   /\ d.kind = "UDT"
<1>5. CASE d = [c EXCEPT !.nextCongestionControlBlock = s, !.pingsLastInterval = <<>>]
  <2>1. Good
    BY <1>1, <1>4, <1>5 DEF UDT!Controllers
  <2> QED BY <2>1, RateChanged DEF d
<1>6. CASE d = [c EXCEPT !.pingsLastInterval = pings]
  <2>1. Good
    BY <1>1, <1>2, <1>6 DEF UDT!Controllers
  <2> QED BY <2>1, RateChanged DEF d
<1>7. CASE d = [UDT!SlopeDecision(c, pings) EXCEPT
                !.nextCongestionControlBlock = s,
                !.pingsLastInterval = <<>>, !.hadPacketlossThisBlock = FALSE]
  <2>1. PICK x \in 1..SndCap : UDT!SlopeDecision(c, pings) = [c EXCEPT !.snd = x]
    BY <1>1, SlopeDecisionOK
  <2>2. x \in Nat \ {0} /\ x <= SndCap
    BY Constants
  <2>3. d = [[c EXCEPT !.snd = x] EXCEPT
                !.nextCongestionControlBlock = s,
                !.pingsLastInterval = <<>>, !.hadPacketlossThisBlock = FALSE]
    BY <1>7, <2>1
  <2>4. Good
    BY <1>1, <1>4, <2>2, <2>3 DEF UDT!Controllers
  <2> QED BY <2>4, RateChanged DEF d
<1> QED BY <1>3, <1>5, <1>6, <1>7

\* An acknowledgement never shrinks a sliding window below one datagram.
LEMMA WindowAckOK ==
  ASSUME NEW c, NEW s \in Nat, NEW total \in Nat, ControllerOK(c, s, total),
         c.kind = "SlidingWindow", NEW b \in BOOLEAN, NEW last
  PROVE  LET d == Window!OnAck(c, b, last)
         IN  (\A t \in Nat : ControllerOK(d, s, t)) /\ d.kind = "SlidingWindow"
<1> DEFINE new == Window!GreaterThan(last, c.nextCongestionControlBlock)
           d == Window!OnAck(c, b, last)
<1>1. /\ c \in Window!Controllers /\ c.nextDatagramSequenceNumber = s
      /\ c.nextCongestionControlBlock <= s /\ MTU <= c.cwnd
  BY ControllerKinds DEF ControllerOK
<1>2. /\ c.cwnd \in Nat /\ c.ssThresh \in Nat /\ MTU \in Nat \ {0} /\ MTU * MTU \in Nat
      /\ c.nextCongestionControlBlock \in Nat /\ c.backoffThisBlock \in BOOLEAN
  BY <1>1, WindowSizes DEF Window!Controllers
<1>3. Window!Grown(c, new) \in Nat /\ MTU <= Window!Grown(c, new)
  <2> DEFINE M == MTU * MTU
             grown == c.cwnd + MTU
             g == Window!Grown(c, new)
  <2>1. M \in Nat /\ grown \in Nat \ {0} /\ MTU <= grown
    BY <1>2
  <2> HIDE DEF M
  <2>2. M \div grown \in Nat /\ M \div c.cwnd \in Nat
    BY <2>1, <1>1, <1>2
  <2>3. \/ g = grown
        \/ Window!IsInSlowStart(c) /\ c.ssThresh # 0 /\ g = c.ssThresh + M \div grown
        \/ g = c.cwnd + M \div c.cwnd
        \/ g = c.cwnd
    BY DEF Window!Grown, M
  <2> HIDE DEF g, grown
  <2>4. Window!IsInSlowStart(c) /\ c.ssThresh # 0 => c.cwnd <= c.ssThresh
    BY DEF Window!IsInSlowStart
  <2> DEFINE p == M \div grown
             q == M \div c.cwnd
  <2>5. p \in Nat /\ q \in Nat
    BY <2>2
  <2>6. \/ g = grown
        \/ c.cwnd <= c.ssThresh /\ g = c.ssThresh + p
        \/ g = c.cwnd + q
        \/ g = c.cwnd
    BY <2>3, <2>4
  <2> HIDE DEF p, q
  <2>7. g \in Nat /\ MTU <= g
    BY <2>1, <2>5, <2>6, <1>1, <1>2
  <2> QED BY <2>7 DEF g
<1> DEFINE x == Window!Grown(c, new)
<1> HIDE DEF x, new
<1>4. CASE ~b
  <2>1. d = [c EXCEPT !.isContinuousSend = FALSE]
    BY <1>4 DEF Window!OnAck, Window!Remember
  <2> HIDE DEF d
  <2>2. /\ d \in Window!Controllers /\ d.nextDatagramSequenceNumber = s
        /\ d.nextCongestionControlBlock <= s /\ MTU <= d.cwnd /\ d.kind = "SlidingWindow"
    BY <1>1, <2>1 DEF Window!Controllers
  <2> QED BY <2>2 DEF ControllerOK, d
<1>5. CASE b
  <2> DEFINE y == c.backoffThisBlock /\ ~new
             z == IF new THEN s ELSE c.nextCongestionControlBlock
  <2>1. d = [[c EXCEPT !.isContinuousSend = TRUE] EXCEPT
              !.cwnd = x, !.backoffThisBlock = y, !.nextCongestionControlBlock = z]
    BY <1>1, <1>5 DEF Window!OnAck, Window!Remember, x, new, Window!Controllers
  <2>2. y \in BOOLEAN /\ z \in Nat /\ z <= s
    BY <1>1, <1>2
  <2>3. x \in Nat /\ MTU <= x
    BY <1>3 DEF x
  <2> HIDE DEF d, y, z
  <2>4. /\ d \in Window!Controllers /\ d.nextDatagramSequenceNumber = s
        /\ d.nextCongestionControlBlock <= s /\ MTU <= d.cwnd /\ d.kind = "SlidingWindow"
    BY <1>1, <2>1, <2>2, <2>3 DEF Window!Controllers
  <2> QED BY <2>4 DEF ControllerOK, d
<1> QED BY <1>4, <1>5

\* onAck, for both controllers.
LEMMA AfterAckOK ==
  ASSUME NEW c, NEW s \in Nat, NEW total \in Nat, ControllerOK(c, s, total),
         NEW rtt \in RoundTrips, NEW b \in BOOLEAN, NEW after \in Nat, NEW last
  PROVE  LET d == AfterAck(c, rtt, b, after, last)
         IN  /\ ControllerOK(d, s, after) /\ d.kind = c.kind
             /\ c.kind = "UDT" /\ d.isInSlowStart => c.isInSlowStart
<1>1. CASE c.kind = "UDT" /\ c.isInSlowStart
  BY <1>1, SlowStartAckOK DEF AfterAck, UDT!OnAck
<1>2. CASE c.kind = "UDT" /\ ~c.isInSlowStart
  BY <1>2, AckPerSynOK DEF AfterAck, UDT!OnAck
<1>3. CASE c.kind = "SlidingWindow"
  BY <1>3, WindowAckOK DEF AfterAck
<1> QED BY <1>1, <1>2, <1>3, ControllerKinds DEF ControllerOK

\* A packet: the length of its datagram and the order index of its write.
Packets == [length : 1..MaxLength, orderIndex : Nat]

\* A function on 1..n is a sequence of length n.
LEMMA FunctionSeq ==
  ASSUME NEW n \in Nat, NEW S, NEW f \in [1..n -> S]
  PROVE  f \in Seq(S) /\ Len(f) = n
OBVIOUS

\* Sequences with the same members are the same.
LEMMA SameSeq ==
  ASSUME NEW S, NEW f \in Seq(S), NEW g \in Seq(S), Len(f) = Len(g),
         \A k \in 1..Len(f) : f[k] = g[k]
  PROVE  f = g
OBVIOUS

\* MaxLength bounds the datagrams of every write.
LEMMA MaxLengthOK ==
  /\ MaxLength \in Nat \ {0}
  /\ \A w \in Writes : w \in Seq(1..MaxLength)
<1> DEFINE IsMax(n) == /\ \E w \in Writes : \E k \in DOMAIN w : w[k] = n
                       /\ \A w \in Writes : \A k \in DOMAIN w : w[k] <= n
           T == {n \in 0..AckMTU : \A w \in Writes : \A k \in DOMAIN w : w[k] <= n}
<1>1. AckMTU \in Nat /\ \A w \in Writes : \A k \in DOMAIN w : w[k] \in 1..AckMTU
  <2>1. \A w \in Writes : w \in Seq(1..AckMTU)
    BY PacingAssumption
  <2> QED BY <2>1, Constants
<1>2. PICK w0 \in Writes : w0 # <<>>
  BY PacingAssumption
<1>3. 1 \in DOMAIN w0 /\ w0[1] \in 1..AckMTU
  <2>1. w0 \in Seq(1..AckMTU)
    BY <1>2, PacingAssumption
  <2>2. Len(w0) \in Nat /\ DOMAIN w0 = 1..Len(w0) /\ Len(w0) # 0
    BY <1>2, <2>1
  <2>3. 1 \in DOMAIN w0
    BY <2>2
  <2> QED BY <1>1, <1>2, <2>3
<1>4. T \in SUBSET Nat /\ AckMTU \in T
  BY <1>1
<1>5. PICK n \in T : \A m \in T : n <= m
  <2> HIDE DEF T
  <2> QED BY <1>4, Least
<1>6. n \in 1..AckMTU
  BY <1>3, <1>1
<1>7. \E w \in Writes : \E k \in DOMAIN w : w[k] = n
  <2> SUFFICES ASSUME \A w \in Writes : \A k \in DOMAIN w : w[k] # n PROVE FALSE
    OBVIOUS
  <2>1. n - 1 \in 0..AckMTU
    BY <1>6, <1>1
  <2>2. ASSUME NEW w \in Writes, NEW k \in DOMAIN w PROVE w[k] <= n - 1
    <3>1. w[k] <= n /\ w[k] # n /\ w[k] \in Nat /\ n \in Nat
      BY <1>1, <1>5
    <3> QED BY <3>1
  <2>3. n - 1 \in T
    BY <2>1, <2>2
  <2> QED BY <2>3, <1>5, <1>6, <1>1
<1>8. IsMax(n)
  BY <1>7, <1>5
<1>9. MaxLength = CHOOSE m \in 1..AckMTU : IsMax(m)
  BY DEF MaxLength
<1> HIDE DEF IsMax
<1>10. MaxLength \in 1..AckMTU /\ IsMax(MaxLength)
  BY <1>6, <1>8, <1>9
<1>11. ASSUME NEW w \in Writes PROVE w \in Seq(1..MaxLength)
  <2>1. w \in Seq(1..AckMTU)
    BY PacingAssumption
  <2>2. Len(w) \in Nat /\ DOMAIN w = 1..Len(w) /\ w = [k \in 1..Len(w) |-> w[k]]
    BY <2>1
  <2>3. ASSUME NEW k \in 1..Len(w) PROVE w[k] \in 1..MaxLength
    <3>1. w[k] \in 1..AckMTU
      BY <2>2, <1>1
    <3>2. w[k] <= MaxLength
      BY <2>2, <1>10 DEF IsMax
    <3> QED BY <3>1, <3>2, <1>10, <1>1
  <2>4. w \in [1..Len(w) -> 1..MaxLength]
    BY <2>2, <2>3
  <2> QED BY <2>2, <2>4, FunctionSeq
<1> QED BY <1>10, <1>11, <1>1

\* The lengths of packets.
LEMMA LengthsOK ==
  ASSUME NEW p \in Seq(Packets)
  PROVE  /\ Lengths(p) \in Seq(Nat) /\ Len(Lengths(p)) = Len(p)
         /\ \A k \in 1..Len(p) : Lengths(p)[k] = p[k].length /\ p[k].length \in 1..MaxLength
<1>1. Len(p) \in Nat /\ DOMAIN p = 1..Len(p) /\ \A k \in 1..Len(p) : p[k] \in Packets
  OBVIOUS
<1>2. \A k \in 1..Len(p) : p[k].length \in 1..MaxLength /\ p[k].length \in Nat
  BY <1>1, MaxLengthOK DEF Packets
<1> DEFINE n == Len(p)
           l == [k \in 1..n |-> p[k].length]
<1>3. Lengths(p) = l
  BY <1>1 DEF Lengths
<1>4. l \in [1..n -> Nat]
  BY <1>2
<1>5. \A k \in 1..n : l[k] = p[k].length
  OBVIOUS
<1> HIDE DEF l, n
<1>6. n \in Nat
  BY <1>1 DEF n
<1>7. l \in Seq(Nat) /\ Len(l) = n
  BY <1>4, <1>6, FunctionSeq
<1> QED BY <1>2, <1>3, <1>5, <1>7 DEF n

\* The lengths of the datagrams in flight.
LEMMA FlightOK ==
  ASSUME NEW records, records \in [DOMAIN records -> Packets], NEW n \in Nat
  PROVE  /\ Flight(records, n) \in Seq(Nat) /\ Len(Flight(records, n)) = n
         /\ \A k \in 1..n : Flight(records, n)[k] =
              IF k - 1 \in DOMAIN records THEN records[k - 1].length ELSE 0
<1>1. \A s \in DOMAIN records : records[s].length \in Nat
  BY MaxLengthOK DEF Packets
<1> DEFINE f == [k \in 1..n |-> IF k - 1 \in DOMAIN records THEN records[k - 1].length ELSE 0]
<1>2. Flight(records, n) = f
  BY <1>1 DEF Flight
<1>3. f \in [1..n -> Nat]
  BY <1>1
<1>4. \A k \in 1..n : f[k] = IF k - 1 \in DOMAIN records THEN records[k - 1].length ELSE 0
  OBVIOUS
<1> HIDE DEF f
<1>5. f \in Seq(Nat) /\ Len(f) = n
  BY <1>3, FunctionSeq
<1> QED BY <1>2, <1>4, <1>5

\* resendMap.add: the bytes in flight grow by those of the new records.
LEMMA RecordOK ==
  ASSUME NEW records, records \in [DOMAIN records -> Packets],
         NEW s \in Nat, DOMAIN records \subseteq 0..(s - 1), NEW p \in Seq(Packets)
  PROVE  /\ Record(records, s, p) \in [DOMAIN records \cup s..(s + Len(p) - 1) -> Packets]
         /\ DOMAIN records \cup s..(s + Len(p) - 1) \subseteq 0..(s + Len(p) - 1)
         /\ Total(Flight(Record(records, s, p), s + Len(p)))
              = Total(Flight(records, s)) + Total(Lengths(p))
<1> DEFINE D == DOMAIN records
           m == Len(p)
           E == D \cup s..(s + m - 1)
           r == Record(records, s, p)
           f == Flight(records, s)
           l == Lengths(p)
           g == Flight(r, s + m)
<1>0. m \in Nat
  OBVIOUS
<1>1. r = [t \in E |-> IF t >= s THEN p[t - s + 1] ELSE records[t]]
  BY DEF Record
<1>2. \A t \in s..(s + m - 1) : t \notin D /\ t >= s /\ t - s + 1 \in 1..m
  BY <1>0
<1>3. \A t \in D : t \in Nat /\ ~(t >= s)
  OBVIOUS
<1>4. r \in [E -> Packets]
  <2>1. \A t \in E : (IF t >= s THEN p[t - s + 1] ELSE records[t]) \in Packets
    BY <1>2, <1>3
  <2> QED BY <1>1, <2>1
<1>5. E \subseteq 0..(s + m - 1)
  <2>1. \A t \in D : t \in 0..(s - 1)
    OBVIOUS
  <2>2. \A t \in D : t \in 0..(s + m - 1)
    BY <2>1, <1>0
  <2>3. \A t \in s..(s + m - 1) : t \in 0..(s + m - 1)
    BY <1>0
  <2> QED BY <2>2, <2>3
<1> HIDE DEF r
<1>6. /\ f \in Seq(Nat) /\ Len(f) = s
      /\ \A k \in 1..s : f[k] = IF k - 1 \in D THEN records[k - 1].length ELSE 0
  <2>1. records \in [DOMAIN records -> Packets] /\ DOMAIN records = D
    OBVIOUS
  <2> QED BY <2>1, FlightOK
<1>7. /\ g \in Seq(Nat) /\ Len(g) = s + m
      /\ \A k \in 1..(s + m) : g[k] = IF k - 1 \in E THEN r[k - 1].length ELSE 0
  <2> DEFINE x == s + m
  <2>1. x \in Nat
    BY <1>0
  <2>2. r \in [DOMAIN r -> Packets] /\ DOMAIN r = E
    BY <1>4
  <2> HIDE DEF E, m, x
  <2>3. /\ Flight(r, x) \in Seq(Nat) /\ Len(Flight(r, x)) = x
        /\ \A k \in 1..x : Flight(r, x)[k] = IF k - 1 \in E THEN r[k - 1].length ELSE 0
    BY <2>1, <2>2, FlightOK
  <2> QED BY <2>3 DEF x
<1>8. l \in Seq(Nat) /\ Len(l) = m /\ \A k \in 1..m : l[k] = p[k].length
  BY LengthsOK
<1> HIDE DEF f, g, l
<1>9. g = f \o l
  <2>1. ASSUME NEW k \in 1..s PROVE g[k] = f[k]
    <3>1. k \in 1..(s + m) /\ k - 1 \in Nat /\ ~(k - 1 >= s) /\ k - 1 \notin s..(s + m - 1)
      BY <1>0
    <3>2. k - 1 \in E <=> k - 1 \in D
      BY <3>1
    <3>3. k - 1 \in D => r[k - 1] = records[k - 1]
      BY <3>1, <3>2, <1>1
    <3> QED BY <3>1, <3>2, <3>3, <1>6, <1>7
  <2>2. ASSUME NEW k \in 1..m PROVE g[s + k] = l[k]
    <3>1. /\ s + k \in 1..(s + m) /\ (s + k) - 1 \in s..(s + m - 1) /\ (s + k) - 1 >= s
          /\ ((s + k) - 1) - s + 1 = k
      BY <1>0
    <3>2. r[(s + k) - 1] = p[k]
      BY <3>1, <1>1
    <3>3. g[s + k] = r[(s + k) - 1].length
      BY <3>1, <1>7
    <3> QED BY <3>2, <3>3, <1>8
  <2> DEFINE h == f \o l
  <2>3. /\ h \in Seq(Nat) /\ Len(h) = s + m
        /\ \A k \in 1..s : h[k] = f[k]
        /\ \A k \in 1..m : h[s + k] = l[k]
    <3>1. f \in Seq(Nat) /\ l \in Seq(Nat)
      BY <1>6, <1>8
    <3>2. h \in Seq(Nat) /\ Len(h) = Len(f) + Len(l)
      BY <3>1
    <3>3. \A k \in 1..Len(f) : h[k] = f[k]
      BY <3>1
    <3>4. \A k \in 1..Len(l) : h[Len(f) + k] = l[k]
      BY <3>1
    <3> QED BY <3>2, <3>3, <3>4, <1>6, <1>8
  <2> HIDE DEF h
  <2>4. ASSUME NEW k \in 1..(s + m) PROVE g[k] = h[k]
    <3>1. CASE k <= s
      <4>1. k \in 1..s
        BY <3>1, <1>0
      <4> QED BY <4>1, <2>1, <2>3
    <3>2. CASE ~(k <= s)
      <4>1. k - s \in 1..m /\ s + (k - s) = k
        BY <3>2, <1>0
      <4>2. g[s + (k - s)] = l[k - s] /\ h[s + (k - s)] = l[k - s]
        BY <4>1, <2>2, <2>3
      <4> QED BY <4>1, <4>2
    <3> QED BY <3>1, <3>2
  <2>5. g = h
    BY <2>3, <2>4, <1>7, SameSeq
  <2> QED BY <2>5 DEF h
<1>10. Total(g) = Total(f) + Total(l)
  BY <1>6, <1>8, <1>9, TotalsConcat
<1> QED BY <1>4, <1>5, <1>10 DEF f, g, l, r

\* The records of the numbers, in their order.
Selected(records, numbers) == [i \in 1..Len(numbers) |-> records[numbers[i]]]

\* resendMap.remove: the bytes in flight shrink by those of the records removed.
LEMMA DropOK ==
  ASSUME NEW records, records \in [DOMAIN records -> Packets],
         NEW n \in Nat, DOMAIN records \subseteq 0..(n - 1), NEW numbers \in Seq(DOMAIN records),
          \A i, j \in 1..Len(numbers) : numbers[i] = numbers[j] => i = j
  PROVE  LET gone == Selected(records, numbers)
             left == Drop(records, Range(numbers))
         IN  /\ gone \in Seq(Packets) /\ Len(gone) = Len(numbers)
             /\ left \in [DOMAIN records \ Range(numbers) -> Packets]
             /\ Total(Flight(records, n)) = Total(Flight(left, n)) + Total(Lengths(gone))
<1> DEFINE D == DOMAIN records
           m == Len(numbers)
           gone == [i \in 1..m |-> records[numbers[i]]]
           R == Range(numbers)
           left == Drop(records, R)
           f == Flight(records, n)
           g == Flight(left, n)
           o == [i \in 1..m |-> numbers[i] + 1]
           mask == [k \in 1..n |-> IF \E i \in 1..Len(o) : o[i] = k THEN f[k] ELSE 0]
<1>0. m \in Nat /\ \A i \in 1..m : numbers[i] \in D /\ numbers[i] \in 0..(n - 1) /\ numbers[i] \in R
  <2>1. m \in Nat /\ DOMAIN numbers = 1..m /\ \A i \in 1..m : numbers[i] \in D
    OBVIOUS
  <2>2. \A i \in 1..m : numbers[i] \in R
    BY <2>1 DEF Range
  <2> QED BY <2>1, <2>2
<1>1. gone \in Seq(Packets) /\ Len(gone) = m /\ \A i \in 1..m : gone[i] = records[numbers[i]]
  <2>1. \A i \in 1..m : records[numbers[i]] \in Packets
    BY <1>0
  <2>2. gone \in [1..m -> Packets] /\ \A i \in 1..m : gone[i] = records[numbers[i]]
    BY <2>1
  <2> HIDE DEF m, gone
  <2> QED BY <1>0, <2>2, FunctionSeq
<1>2. left = [s \in D \ R |-> records[s]]
  BY DEF Drop
<1>3. left \in [D \ R -> Packets]
  BY <1>2
<1>4. /\ f \in Seq(Nat) /\ Len(f) = n
      /\ \A k \in 1..n : f[k] = IF k - 1 \in D THEN records[k - 1].length ELSE 0
  <2>1. records \in [DOMAIN records -> Packets] /\ DOMAIN records = D
    OBVIOUS
  <2> QED BY <2>1, FlightOK
<1> HIDE DEF left
<1>5. /\ g \in Seq(Nat) /\ Len(g) = n
      /\ \A k \in 1..n : g[k] = IF k - 1 \in D \ R THEN left[k - 1].length ELSE 0
  <2> DEFINE E == D \ R
  <2>1. left \in [DOMAIN left -> Packets] /\ DOMAIN left = E
    BY <1>3
  <2> HIDE DEF E
  <2>2. /\ g \in Seq(Nat) /\ Len(g) = n
        /\ \A k \in 1..n : g[k] = IF k - 1 \in E THEN left[k - 1].length ELSE 0
    BY <2>1, FlightOK
  <2> QED BY <2>2 DEF E
<1>6. o \in Seq(1..n) /\ Len(o) = m /\ \A i \in 1..m : o[i] = numbers[i] + 1
  <2>1. \A i \in 1..m : numbers[i] + 1 \in 1..n
    BY <1>0
  <2> HIDE DEF m
  <2> QED BY <1>0, <2>1, SMTT(40)
<1> HIDE DEF f, g, o
<1>7. \A i, j \in 1..Len(o) : o[i] = o[j] => i = j
  <2> SUFFICES ASSUME NEW i \in 1..m, NEW j \in 1..m, o[i] = o[j] PROVE i = j
    BY <1>6
  <2> DEFINE x == numbers[i]
             y == numbers[j]
  <2>1. x + 1 = y + 1 /\ x \in Int /\ y \in Int
    BY <1>6, <1>0
  <2>2. x = y => i = j
    OBVIOUS
  <2> HIDE DEF x, y
  <2> QED BY <2>1, <2>2
<1>8. \A k \in 1..n : f[k] \in Nat
  BY <1>4
<1>9. /\ mask \in Seq(Nat) /\ Len(mask) = n
      /\ \A k \in 1..n : mask[k] = IF k - 1 \in R THEN f[k] ELSE 0
  <2>1. ASSUME NEW k \in 1..n PROVE (\E i \in 1..Len(o) : o[i] = k) <=> k - 1 \in R
    <3>1. ASSUME NEW i \in 1..m PROVE o[i] = k <=> numbers[i] = k - 1
      <4>1. o[i] = numbers[i] + 1 /\ numbers[i] \in Int
        BY <1>6, <1>0
      <4> QED BY <4>1
    <3>2. k - 1 \in R <=> \E i \in 1..m : numbers[i] = k - 1
      <4>1. DOMAIN numbers = 1..m
        OBVIOUS
      <4> QED BY <4>1 DEF Range
    <3> QED BY <3>1, <3>2, <1>6
  <2>2. \A k \in 1..n : mask[k] = IF k - 1 \in R THEN f[k] ELSE 0
    BY <2>1
  <2>3. mask \in [1..n -> Nat]
    BY <1>8
  <2> HIDE DEF mask
  <2>4. mask \in Seq(Nat) /\ Len(mask) = n
    BY <2>3, FunctionSeq
  <2> QED BY <2>2, <2>4
<1>10. Total([i \in 1..Len(o) |-> f[o[i]]]) = Total(mask)
  BY <1>4, <1>6, <1>7, TotalSelected
<1>11. Lengths(gone) = [i \in 1..Len(o) |-> f[o[i]]]
  <2>1. ASSUME NEW i \in 1..m PROVE f[o[i]] = gone[i].length
    <3>1. o[i] = numbers[i] + 1 /\ o[i] \in 1..n /\ o[i] - 1 = numbers[i] /\ numbers[i] \in D
      <4>1. o[i] = numbers[i] + 1 /\ numbers[i] \in 0..(n - 1) /\ numbers[i] \in D
        BY <1>6, <1>0
      <4> QED BY <4>1
    <3>2. f[o[i]] = records[numbers[i]].length
      BY <3>1, <1>4
    <3> QED BY <3>2, <1>1
  <2>2. DOMAIN gone = 1..m
    OBVIOUS
  <2> HIDE DEF gone
  <2>3. Lengths(gone) = [i \in 1..m |-> gone[i].length]
    BY <2>2 DEF Lengths
  <2> QED BY <2>1, <2>3, <1>6
<1> HIDE DEF mask
<1>12. ASSUME NEW k \in 1..n PROVE f[k] = g[k] + mask[k]
  <2>1. R \subseteq D
    BY <1>0 DEF Range
  <2>2. k - 1 \in D \ R => left[k - 1] = records[k - 1]
    BY <1>2
  <2>3. f[k] \in Nat
    BY <1>8
  <2>4. CASE k - 1 \in R
    <3>1. g[k] = 0 /\ mask[k] = f[k]
      BY <2>4, <1>5, <1>9
    <3> QED BY <3>1, <2>3
  <2>5. CASE k - 1 \notin R
    <3>1. mask[k] = 0 /\ g[k] = f[k]
      BY <2>2, <2>5, <1>4, <1>5, <1>9
    <3> QED BY <3>1, <2>3
  <2> QED BY <2>4, <2>5
<1>13. Total(f) = Total(g) + Total(mask)
  <2>1. Len(mask) = Len(g) /\ Len(f) = Len(g) /\ \A k \in 1..Len(g) : f[k] = g[k] + mask[k]
    BY <1>4, <1>5, <1>9, <1>12
  <2> QED BY <1>4, <1>5, <1>9, <2>1, TotalPlus
<1>14. Total(f) = Total(g) + Total(Lengths(gone))
  BY <1>10, <1>11, <1>13
<1> HIDE DEF gone, R
<1>15. gone \in Seq(Packets) /\ Len(gone) = m
  BY <1>1
<1> QED BY <1>3, <1>14, <1>15 DEF f, g, left, gone, R, Selected

\* A total of lengths is a number.
LEMMA TotalNat ==
  ASSUME NEW l \in Seq(Nat)
  PROVE  Total(l) \in Nat
<1>1. Len(l) \in Nat
  OBVIOUS
<1>2. Len(l) \in 0..Len(l)
  BY <1>1
<1> QED BY <1>2, TotalsOK DEF Total

\* What is left of a budget: nothing, or what was not spent.
LEMMA SpendOK ==
  ASSUME NEW budget \in Nat, NEW p \in Seq(Packets)
  PROVE  /\ Spend(budget, p) \in Nat
         /\ Spend(budget, p) = 0 \/ Spend(budget, p) + Total(Lengths(p)) = budget
<1>1. Total(Lengths(p)) \in Nat
  BY LengthsOK, TotalNat
<1> DEFINE t == Total(Lengths(p))
<1>2. Spend(budget, p) = IF budget - t > 0 THEN budget - t ELSE 0
  BY DEF Spend
<1> HIDE DEF t
<1>3. t \in Nat
  BY <1>1 DEF t
<1> QED BY <1>2, <1>3 DEF t

\* The packets a budget pays for cost less than the budget and one datagram,
\* and nothing when there is no budget.
LEMMA PaidOK ==
  ASSUME NEW budget \in Nat, NEW p \in Seq(Packets)
  PROVE  /\ Paid(budget, p) \in Seq(Packets)
         /\ Unpaid(budget, p) \in Seq(Packets)
         /\ Total(Lengths(Paid(budget, p))) \in Nat
         /\ \/ Total(Lengths(Paid(budget, p))) = 0
            \/ /\ budget > 0
               /\ Total(Lengths(Paid(budget, p))) < budget + MaxLength
<1> DEFINE l == Lengths(p)
           k == Affordable(budget, l)
           q == SubSeq(p, 1, k)
           lq == Lengths(q)
<1>1. l \in Seq(Nat) /\ Len(l) = Len(p) /\ Len(p) \in Nat
      /\ \A i \in 1..Len(p) : l[i] = p[i].length /\ p[i].length \in 1..MaxLength
  BY LengthsOK
<1> HIDE DEF l
<1>2. /\ k \in 0..Len(l)
      /\ \A j \in 0..(k - 1) : Totals(l)[j] < budget
  BY <1>1, AffordableOK
<1>3. Paid(budget, p) = q
  BY DEF Paid, l
<1>4. Unpaid(budget, p) \in Seq(Packets)
  <2>1. Unpaid(budget, p) = SubSeq(p, k + 1, Len(p))
    BY DEF Unpaid, l
  <2> HIDE DEF k
  <2>2. k + 1 \in 1..(Len(p) + 1)
    BY <1>1, <1>2
  <2> QED BY <2>1, <2>2, <1>1
<1> HIDE DEF k
<1>5. k \in Nat /\ k <= Len(p) /\ k \in 0..k /\ k \in 0..Len(l)
  BY <1>1, <1>2
<1>6. q \in Seq(Packets) /\ Len(q) = k /\ \A i \in 1..k : q[i] = p[i]
  BY <1>1, <1>5
<1> HIDE DEF q
<1>7. lq \in Seq(Nat) /\ Len(lq) = k /\ \A i \in 1..k : lq[i] = q[i].length
  BY <1>6, LengthsOK
<1> HIDE DEF lq
<1>8. \A i \in 1..k : lq[i] = l[i]
  BY <1>1, <1>5, <1>6, <1>7, SMTT(40)
<1>9. Totals(lq)[k] = Totals(l)[k]
  <2>1. k \in 0..Len(lq) /\ k <= Len(l)
    BY <1>5, <1>7, <1>1
  <2> QED BY <2>1, <1>1, <1>5, <1>7, <1>8, TotalsPrefix
<1>10. Total(lq) = Totals(l)[k]
  BY <1>7, <1>9 DEF Total
<1>11. Total(lq) \in Nat
  BY <1>7, TotalNat
<1>12. CASE k = 0
  <2>1. Total(lq) = 0
    BY <1>10, <1>12, <1>1, TotalsOK
  <2> QED BY <2>1, <1>3, <1>4, <1>6, <1>11 DEF lq
<1>13. CASE k # 0
  <2>1. k - 1 \in 0..(k - 1) /\ k \in 1..Len(l) /\ k - 1 \in 0..Len(l) /\ k \in 1..Len(p)
    BY <1>5, <1>13, <1>1
  <2> DEFINE a == Totals(l)[k - 1]
             b == l[k]
  <2>2. a \in Nat /\ a < budget /\ Totals(l)[k] = a + b
    BY <2>1, <1>1, <1>2, TotalsOK
  <2>3. b \in 1..MaxLength /\ MaxLength \in Nat
    BY <2>1, <1>1, MaxLengthOK
  <2> HIDE DEF a, b
  <2>4. Total(lq) < budget + MaxLength /\ budget > 0
    BY <2>2, <2>3, <1>10
  <2> QED BY <2>4, <1>3, <1>4, <1>6, <1>11 DEF lq
<1> QED BY <1>12, <1>13

\* The budgets are never negative, and in slow start the window has room for
\* the one of new packets.
LEMMA BandwidthOK ==
  ASSUME NEW c, NEW s \in Nat, NEW total \in Nat, ControllerOK(c, s, total),
         NEW e \in Nat, NEW u \in Nat, NEW b \in BOOLEAN
  PROVE  /\ TransmissionBandwidth(c, e, u, b) \in Nat
         /\ RetransmissionBandwidth(c, e, u, b) \in Nat
         /\ c.kind = "UDT" /\ c.isInSlowStart =>
              TransmissionBandwidth(c, e, u, b) = 0 \/ u + TransmissionBandwidth(c, e, u, b) <= c.window
<1>1. ControllerOK(c, s, total)
  OBVIOUS
<1>2. \/ c.kind = "UDT" /\ c \in UDT!Controllers(RoundTrips)
      \/ c.kind = "SlidingWindow" /\ c \in Window!Controllers
  <2>1. c \in UDT!Controllers(RoundTrips) \cup Window!Controllers
    BY <1>1 DEF ControllerOK
  <2> QED BY <2>1, ControllerKinds
<1>3. CASE c.kind = "UDT"
  <2>1. c.window \in Nat /\ c.snd \in Nat \ {0}
    BY <1>2, <1>3 DEF UDT!Controllers
  <2>2. IdleCap \in Nat
    BY Constants
  <2> DEFINE dt == IF b THEN e ELSE UDT!Lower(e, IdleCap)
             w == c.window
             snd == c.snd
             g == UDT!GetTransmissionBandwidth(c, e, u, b)
  <2>3. dt \in Nat
    BY <2>2 DEF UDT!Lower
  <2>4. g = IF c.isInSlowStart THEN UDT!Higher(w - u, 0) ELSE IF dt > 0 THEN dt \div snd ELSE 0
    BY DEF UDT!GetTransmissionBandwidth
  <2>5. TransmissionBandwidth(c, e, u, b) = g
    BY <1>3 DEF TransmissionBandwidth
  <2>6. RetransmissionBandwidth(c, e, u, b) = IF c.isInSlowStart THEN w ELSE g
    BY <1>3 DEF RetransmissionBandwidth, UDT!GetRetransmissionBandwidth
  <2>7. w \in Nat /\ snd \in Nat \ {0}
    BY <2>1
  <2> HIDE DEF dt, w, snd, g
  <2>8. dt \div snd \in Nat
    BY <2>3, <2>7
  <2>9. UDT!Higher(w - u, 0) \in Nat /\ (UDT!Higher(w - u, 0) = 0 \/ u + UDT!Higher(w - u, 0) <= w)
    BY <2>7 DEF UDT!Higher
  <2> QED BY <2>4, <2>5, <2>6, <2>7, <2>8, <2>9 DEF w
<1>4. CASE c.kind = "SlidingWindow"
  <2>1. c.cwnd \in Nat
    BY <1>2, <1>4 DEF Window!Controllers
  <2>2. TransmissionBandwidth(c, e, u, b) = IF u <= c.cwnd THEN c.cwnd - u ELSE 0
    BY <1>4 DEF TransmissionBandwidth, Window!GetTransmissionBandwidth
  <2>3. RetransmissionBandwidth(c, e, u, b) = u
    BY <1>4 DEF RetransmissionBandwidth, Window!GetRetransmissionBandwidth
  <2> QED BY <1>4, <2>1, <2>2, <2>3
<1> QED BY <1>2, <1>3, <1>4

\* A tick after SndCap renews the budget that is needed.
LEMMA BudgetLeft ==
  ASSUME NEW c, NEW s \in Nat, NEW total \in Nat, ControllerOK(c, s, total), NEW u \in Nat
  PROVE  /\ u = 0 => TransmissionBandwidth(c, SndCap, u, TRUE) > 0
         /\ u > 0 => RetransmissionBandwidth(c, SndCap, u, TRUE) > 0
<1>1. ControllerOK(c, s, total)
  OBVIOUS
<1>2. \/ c.kind = "UDT" /\ c \in UDT!Controllers(RoundTrips)
      \/ c.kind = "SlidingWindow" /\ c \in Window!Controllers
  <2>1. c \in UDT!Controllers(RoundTrips) \cup Window!Controllers
    BY <1>1 DEF ControllerOK
  <2> QED BY <2>1, ControllerKinds
<1>3. CASE c.kind = "UDT"
  <2> DEFINE w == c.window
             snd == c.snd
             g == UDT!GetTransmissionBandwidth(c, SndCap, u, TRUE)
             W == CwndMin * MTU
  <2>1. w \in Nat /\ snd \in Nat \ {0} /\ snd <= SndCap
    BY <1>1, <1>2, <1>3 DEF UDT!Controllers, ControllerOK
  <2>2. SndCap \in Nat \ {0}
    BY Constants
  <2>3. W \in Nat \ {0}
    BY WindowSizes
  <2>4. c.isInSlowStart => w = UDT!Higher(total, W)
    BY <1>1, <1>3 DEF ControllerOK
  <2>5. g = IF c.isInSlowStart THEN UDT!Higher(w - u, 0)
            ELSE IF SndCap > 0 THEN SndCap \div snd ELSE 0
    BY DEF UDT!GetTransmissionBandwidth
  <2>6. TransmissionBandwidth(c, SndCap, u, TRUE) = g
    BY <1>3 DEF TransmissionBandwidth
  <2>7. RetransmissionBandwidth(c, SndCap, u, TRUE) = IF c.isInSlowStart THEN w ELSE g
    BY <1>3 DEF RetransmissionBandwidth, UDT!GetRetransmissionBandwidth
  <2> HIDE DEF w, snd, g, W
  <2>8. SndCap \div snd > 0
    BY <2>1, <2>2
  <2>9. CASE c.isInSlowStart
    <3>1. w > 0
      BY <2>3, <2>4, <2>9 DEF UDT!Higher
    <3>2. u = 0 => UDT!Higher(w - u, 0) > 0
      BY <3>1, <2>1 DEF UDT!Higher
    <3> QED BY <3>1, <3>2, <2>5, <2>6, <2>7, <2>9
  <2>10. CASE ~c.isInSlowStart
    <3>1. SndCap > 0
      BY <2>2
    <3>2. g = SndCap \div snd
      BY <3>1, <2>5, <2>10
    <3>3. RetransmissionBandwidth(c, SndCap, u, TRUE) = g
      BY <2>7, <2>10
    <3> QED BY <3>2, <3>3, <2>6, <2>8
  <2> QED BY <2>9, <2>10
<1>4. CASE c.kind = "SlidingWindow"
  <2>1. c.cwnd \in Nat /\ MTU <= c.cwnd /\ MTU \in Nat \ {0}
    BY <1>1, <1>2, <1>4, Constants DEF Window!Controllers, ControllerOK
  <2>2. TransmissionBandwidth(c, SndCap, u, TRUE) = IF u <= c.cwnd THEN c.cwnd - u ELSE 0
    BY <1>4 DEF TransmissionBandwidth, Window!GetTransmissionBandwidth
  <2>3. RetransmissionBandwidth(c, SndCap, u, TRUE) = u
    BY <1>4 DEF RetransmissionBandwidth, Window!GetRetransmissionBandwidth
  <2> DEFINE x == c.cwnd
  <2>4. x \in Nat \ {0}
    BY <2>1
  <2>5. TransmissionBandwidth(c, SndCap, u, TRUE) = IF u <= x THEN x - u ELSE 0
    BY <2>2
  <2> HIDE DEF x
  <2>6. u = 0 => (IF u <= x THEN x - u ELSE 0) > 0
    BY <2>4
  <2> QED BY <2>3, <2>5, <2>6
<1> QED BY <1>2, <1>3, <1>4

\* Packets one after the other cost the sum of their costs.
LEMMA LengthsConcat ==
  ASSUME NEW p \in Seq(Packets), NEW q \in Seq(Packets)
  PROVE  Total(Lengths(p \o q)) = Total(Lengths(p)) + Total(Lengths(q))
<1> DEFINE h == p \o q
           a == Lengths(p)
           b == Lengths(q)
           l == Lengths(h)
           ab == a \o b
<1>1. /\ h \in Seq(Packets) /\ Len(h) = Len(p) + Len(q)
      /\ Len(p) \in Nat /\ Len(q) \in Nat
      /\ \A k \in 1..Len(p) : h[k] = p[k]
      /\ \A k \in 1..Len(q) : h[Len(p) + k] = q[k]
  <2>1. h \in Seq(Packets) /\ Len(h) = Len(p) + Len(q) /\ Len(p) \in Nat /\ Len(q) \in Nat
    OBVIOUS
  <2>2. \A k \in 1..Len(p) : h[k] = p[k]
    OBVIOUS
  <2>3. \A k \in 1..Len(q) : h[Len(p) + k] = q[k]
    OBVIOUS
  <2> QED BY <2>1, <2>2, <2>3
<1> HIDE DEF h
<1>2. a \in Seq(Nat) /\ Len(a) = Len(p) /\ \A k \in 1..Len(p) : a[k] = p[k].length
  BY LengthsOK
<1>3. b \in Seq(Nat) /\ Len(b) = Len(q) /\ \A k \in 1..Len(q) : b[k] = q[k].length
  BY LengthsOK
<1>4. l \in Seq(Nat) /\ Len(l) = Len(h) /\ \A k \in 1..Len(h) : l[k] = h[k].length
  BY <1>1, LengthsOK
<1> HIDE DEF a, b, l
<1>5. /\ ab \in Seq(Nat) /\ Len(ab) = Len(a) + Len(b)
      /\ \A k \in 1..Len(a) : ab[k] = a[k]
      /\ \A k \in 1..Len(b) : ab[Len(a) + k] = b[k]
  <2>0. a \in Seq(Nat) /\ b \in Seq(Nat)
    BY <1>2, <1>3
  <2>1. ab \in Seq(Nat) /\ Len(ab) = Len(a) + Len(b)
    BY <2>0
  <2>2. \A k \in 1..Len(a) : ab[k] = a[k]
    BY <2>0
  <2>3. \A k \in 1..Len(b) : ab[Len(a) + k] = b[k]
    BY <2>0
  <2> QED BY <2>1, <2>2, <2>3
<1>6. Total(ab) = Total(a) + Total(b)
  BY <1>2, <1>3, TotalsConcat
<1> DEFINE x == Len(p)
           y == Len(q)
<1> HIDE DEF ab, x, y
<1>7. ASSUME NEW k \in 1..(x + y) PROVE l[k] = ab[k]
  <2>0. x \in Nat /\ y \in Nat /\ k \in 1..Len(h)
    BY <1>1 DEF x, y
  <2>1. CASE k <= x
    <3>1. k \in 1..x
      BY <2>0, <2>1
    <3> QED BY <3>1, <2>0, <1>1, <1>2, <1>4, <1>5, ZenonT(60) DEF x
  <2>2. CASE ~(k <= x)
    <3> DEFINE j == k - x
    <3>1. j \in 1..y /\ x + j = k
      BY <2>0, <2>2
    <3> HIDE DEF j
    <3>2. h[x + j] = q[j] /\ ab[x + j] = b[j] /\ b[j] = q[j].length
      BY <3>1, <1>1, <1>2, <1>3, <1>5 DEF x, y
    <3>3. l[x + j] = h[x + j].length
      BY <3>1, <2>0, <1>4
    <3> QED BY <3>1, <3>2, <3>3
  <2> QED BY <2>1, <2>2
<1>8. l = ab
  <2>1. Len(l) = x + y /\ Len(ab) = x + y
    BY <1>1, <1>2, <1>3, <1>4, <1>5 DEF x, y
  <2> QED BY <2>1, <1>4, <1>5, <1>7, SameSeq
<1> QED BY <1>6, <1>8 DEF l, a, b, h

\* sendDatagram for a number of packets: every one gets a record and is counted
\* by the controller and in the bytes in flight.
LEMMA TransmitOK ==
  ASSUME NEW c, NEW total \in Nat, seq \in Nat, ControllerOK(c, seq, total),
         NEW p \in Seq(Packets), NEW records, records \in [DOMAIN records -> Packets],
         DOMAIN records \subseteq 0..(seq - 1),
         NEW bytes \in Nat, bytes = Total(Flight(records, seq)),
         Transmit(c, p, records, bytes)
  PROVE  /\ seq' \in 0..MaxSeq /\ seq' = seq + Len(p) /\ seq <= seq'
         /\ unacknowledged' \in [DOMAIN unacknowledged' -> Packets]
         /\ DOMAIN unacknowledged' = DOMAIN records \cup seq..(seq' - 1)
         /\ DOMAIN unacknowledged' \subseteq 0..(seq' - 1)
         /\ inFlightBytes' = Total(Flight(unacknowledged', seq'))
         /\ inFlightBytes' = bytes + Total(Lengths(p)) /\ inFlightBytes' \in Nat
         /\ ControllerOK(cc', seq', total)
         /\ cc'.kind = c.kind
         /\ c.kind = "UDT" => cc'.isInSlowStart = c.isInSlowStart /\ cc'.window = c.window
<1> DEFINE D == DOMAIN records
<1>1. /\ seq + Len(p) <= MaxSeq /\ seq' = seq + Len(p)
      /\ unacknowledged' = Record(records, seq, p)
      /\ inFlightBytes' = bytes + Total(Lengths(p))
      /\ cc' = AfterSending(c, Len(p))
  BY DEF Transmit
<1>2. Len(p) \in Nat /\ MaxSeq \in Nat
  BY Constants
<1>3. seq' \in 0..MaxSeq /\ seq <= seq' /\ seq + Len(p) - 1 = seq' - 1
  BY <1>1, <1>2
<1>4. /\ Record(records, seq, p) \in [D \cup seq..(seq + Len(p) - 1) -> Packets]
      /\ D \cup seq..(seq + Len(p) - 1) \subseteq 0..(seq + Len(p) - 1)
      /\ Total(Flight(Record(records, seq, p), seq + Len(p)))
           = Total(Flight(records, seq)) + Total(Lengths(p))
  BY RecordOK
<1>5. /\ unacknowledged' \in [D \cup seq..(seq' - 1) -> Packets]
      /\ D \cup seq..(seq' - 1) \subseteq 0..(seq' - 1)
  BY <1>1, <1>3, <1>4
<1>6. inFlightBytes' = Total(Flight(unacknowledged', seq'))
  BY <1>1, <1>4
<1>7. Total(Lengths(p)) \in Nat
  BY LengthsOK, TotalNat
<1>8. inFlightBytes' \in Nat
  BY <1>1, <1>7
<1>9. /\ ControllerOK(cc', seq', total) /\ cc'.kind = c.kind
      /\ c.kind = "UDT" => cc'.isInSlowStart = c.isInSlowStart /\ cc'.window = c.window
  BY <1>1, <1>2, AfterSendingOK
<1>10. /\ unacknowledged' \in [DOMAIN unacknowledged' -> Packets]
       /\ DOMAIN unacknowledged' = D \cup seq..(seq' - 1)
  BY <1>5
<1> QED BY <1>1, <1>3, <1>5, <1>6, <1>8, <1>9, <1>10

\* In slow start a budget is no more than what the window has left.
BudgetOK(c, budget, bytes) ==
  c.kind = "UDT" /\ c.isInSlowStart =>
    /\ budget = 0 \/ bytes + budget <= c.window
    /\ bytes < c.window + MaxLength

\* Spending a budget keeps the bytes in flight under the window and one
\* datagram.
LEMMA SpentOK ==
  ASSUME NEW budget \in Nat, NEW p \in Seq(Packets), NEW bytes \in Nat, NEW w \in Nat,
         budget = 0 \/ bytes + budget <= w, bytes < w + MaxLength
  PROVE  LET sent == Paid(budget, p)
             after == Spend(budget, sent)
             t == Total(Lengths(sent))
         IN  /\ after = 0 \/ (bytes + t) + after <= w
             /\ bytes + t < w + MaxLength
<1> DEFINE sent == Paid(budget, p)
           after == Spend(budget, sent)
           t == Total(Lengths(sent))
<1>1. sent \in Seq(Packets) /\ t \in Nat /\ (t = 0 \/ (budget > 0 /\ t < budget + MaxLength))
  BY PaidOK
<1>2. after \in Nat /\ (after = 0 \/ after + t = budget)
  BY <1>1, SpendOK
<1>3. MaxLength \in Nat
  BY MaxLengthOK
<1> HIDE DEF t, after, sent
<1>4. after = 0 \/ (bytes + t) + after <= w
  BY <1>1, <1>2
<1>5. bytes + t < w + MaxLength
  BY <1>1, <1>3
<1> QED BY <1>4, <1>5 DEF t, after, sent
-----------------------------------------------------------------------------
\* The queue of numbers to resend, with a set that tells which are still due.
IsQueue(q, set, D, s) ==
  /\ q \in Seq(0..(s - 1)) /\ Len(q) <= MaxNackQueueSize
  /\ \A i, j \in 1..Len(q) : q[i] = q[j] => i = j
  /\ \A t \in set : \E i \in 1..Len(q) : q[i] = t
  /\ \A i \in 1..Len(q) : q[i] \in D => q[i] \in set

\* New datagrams are not in the queue.
LEMMA QueueSent ==
  ASSUME NEW q, NEW set, NEW D, NEW E, NEW s \in Nat, NEW t \in Nat, s <= t,
         IsQueue(q, set, D, s), E \subseteq D \cup s..(t - 1)
  PROVE  IsQueue(q, set, E, t)
<1>1. q \in Seq(0..(s - 1)) /\ Len(q) \in Nat
  BY DEF IsQueue
<1>2. \A i \in 1..Len(q) : q[i] \in 0..(s - 1)
  BY <1>1
<1>3. \A i \in 1..Len(q) : q[i] \in 0..(t - 1) /\ q[i] \notin s..(t - 1)
  BY <1>2
<1>4. q \in [1..Len(q) -> 0..(t - 1)]
  BY <1>1, <1>3
<1>5. q \in Seq(0..(t - 1))
  BY <1>1, <1>4, FunctionSeq
<1>6. \A i \in 1..Len(q) : q[i] \in E => q[i] \in set
  BY <1>3 DEF IsQueue
<1> QED BY <1>5, <1>6 DEF IsQueue

\* Numbers that are acknowledged lose their record and their mark together.
LEMMA QueueDropped ==
  ASSUME NEW q, NEW set, NEW D, NEW s, NEW numbers, IsQueue(q, set, D, s)
  PROVE  IsQueue(q, set \ numbers, D \ numbers, s)
BY DEF IsQueue

\* Numbers that leave the queue lose their mark.
LEMMA QueuePopped ==
  ASSUME NEW q, NEW set, NEW D, NEW s \in Nat, NEW n \in 0..Len(q), IsQueue(q, set, D, s)
  PROVE  IsQueue(SubSeq(q, n + 1, Len(q)), set \ Range(SubSeq(q, 1, n)), D, s)
<1> DEFINE rest == SubSeq(q, n + 1, Len(q))
           popped == SubSeq(q, 1, n)
           m == Len(q)
<1>1. q \in Seq(0..(s - 1)) /\ m \in Nat /\ n \in Nat /\ n <= m
  BY DEF IsQueue
<1>2. popped \in Seq(0..(s - 1)) /\ Len(popped) = n /\ \A i \in 1..n : popped[i] = q[i]
  BY <1>1
<1>3. rest \in Seq(0..(s - 1)) /\ Len(rest) = m - n
  BY <1>1
<1>4. \A i \in 1..(m - n) : rest[i] = q[n + i] /\ n + i \in 1..m
  BY <1>1
<1> HIDE DEF rest, popped
<1>5. \A t : t \in Range(popped) <=> \E i \in 1..n : q[i] = t
  <2>1. DOMAIN popped = 1..n
    BY <1>2
  <2> QED BY <2>1, <1>2 DEF Range
<1>6. Len(rest) <= MaxNackQueueSize
  BY <1>1, <1>3, Constants DEF IsQueue
<1>7. ASSUME NEW i \in 1..(m - n), NEW j \in 1..(m - n), rest[i] = rest[j] PROVE i = j
  <2>1. q[n + i] = q[n + j] /\ n + i \in 1..m /\ n + j \in 1..m
    BY <1>4, <1>7
  <2>2. n + i = n + j
    BY <2>1 DEF IsQueue
  <2> QED BY <2>2, <1>1
<1>8. ASSUME NEW t \in set, t \notin Range(popped) PROVE \E i \in 1..(m - n) : rest[i] = t
  <2>1. PICK k \in 1..m : q[k] = t
    BY DEF IsQueue
  <2>2. ~(k <= n)
    BY <2>1, <1>5, <1>8, <1>1
  <2>3. k - n \in 1..(m - n) /\ n + (k - n) = k
    BY <2>2, <1>1
  <2> QED BY <2>1, <2>3, <1>4
<1>9. ASSUME NEW i \in 1..(m - n), rest[i] \in D PROVE rest[i] \in set \ Range(popped)
  <2>1. rest[i] = q[n + i] /\ n + i \in 1..m
    BY <1>4
  <2>2. rest[i] \in set
    BY <2>1, <1>9 DEF IsQueue
  <2>3. ASSUME NEW j \in 1..n PROVE q[j] # rest[i]
    <3>1. j \in 1..m /\ j # n + i
      BY <1>1
    <3> QED BY <3>1, <2>1 DEF IsQueue
  <2> QED BY <2>2, <2>3, <1>5
<1> QED BY <1>3, <1>6, <1>7, <1>8, <1>9 DEF IsQueue, rest, popped

\* Numbers that join the queue are new to it and get a mark.
LEMMA QueueGrown ==
  ASSUME NEW q, NEW set, NEW D, NEW s \in Nat, D \subseteq 0..(s - 1), IsQueue(q, set, D, s),
         NEW n \in Nat, n <= MaxNackQueueSize - Len(q),
         NEW taken \in [1..n -> D \ set], \A i, j \in 1..n : taken[i] = taken[j] => i = j
  PROVE  IsQueue(q \o taken, set \cup Range(taken), D, s)
<1> DEFINE h == q \o taken
           m == Len(q)
           S == 0..(s - 1)
<1>1. q \in Seq(S) /\ m \in Nat /\ MaxNackQueueSize \in Nat
  BY Constants DEF IsQueue
<1>2. taken \in Seq(S) /\ Len(taken) = n /\ DOMAIN taken = 1..n
      /\ \A i \in 1..n : taken[i] \in D /\ taken[i] \notin set
  <2>1. taken \in [1..n -> S]
    OBVIOUS
  <2> HIDE DEF S
  <2>2. taken \in Seq(S) /\ Len(taken) = n
    BY <2>1, FunctionSeq
  <2> QED BY <2>2
<1>3. /\ h \in Seq(S) /\ Len(h) = m + n
      /\ \A i \in 1..m : h[i] = q[i]
      /\ \A i \in 1..n : h[m + i] = taken[i]
  <2> HIDE DEF S
  <2>1. h \in Seq(S) /\ Len(h) = m + n
    BY <1>1, <1>2
  <2>2. \A i \in 1..m : h[i] = q[i]
    BY <1>1, <1>2
  <2>3. \A i \in 1..n : h[m + i] = taken[i]
    BY <1>1, <1>2
  <2> QED BY <2>1, <2>2, <2>3
<1> HIDE DEF h
<1>4. \A t : t \in Range(taken) <=> \E i \in 1..n : taken[i] = t
  BY <1>2 DEF Range
<1>5. Len(h) <= MaxNackQueueSize
  BY <1>1, <1>3
<1>6. \A k \in 1..(m + n) : k \in 1..m \/ (k - m \in 1..n /\ m + (k - m) = k)
  BY <1>1
<1>7. \A i \in 1..m : i \in 1..(m + n)
  BY <1>1
<1>8. \A i \in 1..n : m + i \in 1..(m + n)
  BY <1>1
<1>9. ASSUME NEW i \in 1..m, NEW j \in 1..n PROVE q[i] # taken[j]
  BY <1>2 DEF IsQueue
<1>10. ASSUME NEW i \in 1..(m + n), NEW j \in 1..(m + n), h[i] = h[j] PROVE i = j
  <2>1. CASE i \in 1..m /\ j \in 1..m
    BY <2>1, <1>3, <1>10 DEF IsQueue
  <2>2. CASE i \in 1..m /\ j - m \in 1..n /\ m + (j - m) = j
    <3>1. h[i] = q[i] /\ h[m + (j - m)] = taken[j - m]
      BY <2>2, <1>3
    <3> QED BY <3>1, <2>2, <1>9, <1>10
  <2>3. CASE j \in 1..m /\ i - m \in 1..n /\ m + (i - m) = i
    <3>1. h[j] = q[j] /\ h[m + (i - m)] = taken[i - m]
      BY <2>3, <1>3
    <3> QED BY <3>1, <2>3, <1>9, <1>10
  <2>4. CASE i - m \in 1..n /\ m + (i - m) = i /\ j - m \in 1..n /\ m + (j - m) = j
    <3>1. taken[i - m] = taken[j - m]
      BY <2>4, <1>3, <1>10
    <3>2. i - m = j - m
      BY <2>4, <3>1
    <3> QED BY <2>4, <3>2
  <2> QED BY <2>1, <2>2, <2>3, <2>4, <1>6
<1>11. ASSUME NEW t \in set \cup Range(taken) PROVE \E i \in 1..(m + n) : h[i] = t
  <2>1. CASE t \in set
    <3>1. PICK i \in 1..m : q[i] = t
      BY <2>1 DEF IsQueue
    <3> QED BY <3>1, <1>3, <1>7
  <2>2. CASE t \in Range(taken)
    <3>1. PICK i \in 1..n : taken[i] = t
      BY <2>2, <1>4
    <3> QED BY <3>1, <1>3, <1>8
  <2> QED BY <2>1, <2>2
<1>12. ASSUME NEW k \in 1..(m + n), h[k] \in D PROVE h[k] \in set \cup Range(taken)
  <2>1. CASE k \in 1..m
    BY <2>1, <1>3, <1>12 DEF IsQueue
  <2>2. CASE k - m \in 1..n /\ m + (k - m) = k
    BY <2>2, <1>3, <1>4, ZenonT(60)
  <2> QED BY <2>1, <2>2, <1>6
<1>13. h \in Seq(0..(s - 1))
  BY <1>3
<1> DEFINE set2 == set \cup Range(taken)
<1>14. Len(h) = m + n
  BY <1>3
<1>15. /\ \A t \in set2 : \E i \in 1..(m + n) : h[i] = t
       /\ \A k \in 1..(m + n) : h[k] \in D => h[k] \in set2
       /\ \A i, j \in 1..(m + n) : h[i] = h[j] => i = j
  BY <1>10, <1>11, <1>12
<1> HIDE DEF set2, m
<1>16. IsQueue(h, set2, D, s)
  BY <1>5, <1>13, <1>14, <1>15 DEF IsQueue
<1> QED BY <1>16 DEF set2, h

\* The types of the variables that the controller depends on.
StateOK ==
  /\ seq \in 0..MaxSeq /\ orderIndex \in 0..MaxWrites
  /\ ccPending \in Seq(Packets)
  /\ unacknowledged \in [DOMAIN unacknowledged -> Packets]
  /\ DOMAIN unacknowledged \subseteq 0..(seq - 1)
  /\ sendBudget \in Nat /\ resendBudget \in Nat /\ inFlightBytes \in Nat
  /\ ccTotalAckedBytes \in Nat

\* The inductive invariant.
PacingInv ==
  /\ StateOK
  /\ IsQueue(ccNackQueue, ccNackSet, DOMAIN unacknowledged, seq)
  /\ ControllerOK(cc, seq, ccTotalAckedBytes)
  /\ InFlightExact
  /\ BudgetOK(cc, sendBudget, inFlightBytes)

\* No number that has lost its record, or loses it now, gets one again.
Sends(dropped) ==
  /\ seq <= seq'
  /\ DOMAIN unacknowledged' \subseteq (DOMAIN unacknowledged \ dropped) \cup seq..(seq' - 1)

\* The fields of UDT that the budget depends on.
LEMMA UDTFields ==
  ASSUME NEW c, NEW s \in Nat, NEW total \in Nat, ControllerOK(c, s, total), c.kind = "UDT"
  PROVE  /\ c.window \in Nat /\ c.isInSlowStart \in BOOLEAN
         /\ c.isInSlowStart => c.window = UDT!Higher(total, CwndMin * MTU)
<1>1. c \in UDT!Controllers(RoundTrips) \cup Window!Controllers
  BY DEF ControllerOK
<1>2. c \in UDT!Controllers(RoundTrips)
  BY <1>1, ControllerKinds
<1>3. c.window \in Nat /\ c.isInSlowStart \in BOOLEAN
  BY <1>2 DEF UDT!Controllers
<1>4. c.isInSlowStart => c.window = UDT!Higher(total, CwndMin * MTU)
  BY DEF ControllerOK
<1> QED BY <1>3, <1>4

\* queueOrSend and the flushes keep the budget within the window.
LEMMA BudgetSpent ==
  ASSUME NEW c, NEW s \in Nat, NEW total \in Nat, ControllerOK(c, s, total), NEW d,
         d.kind = c.kind,
         c.kind = "UDT" => d.isInSlowStart = c.isInSlowStart /\ d.window = c.window,
         NEW budget \in Nat, NEW bytes \in Nat, BudgetOK(c, budget, bytes), NEW p \in Seq(Packets)
  PROVE  BudgetOK(d, Spend(budget, Paid(budget, p)),
                  bytes + Total(Lengths(Paid(budget, p))))
<1> SUFFICES ASSUME d.kind = "UDT", d.isInSlowStart
             PROVE  /\ \/ Spend(budget, Paid(budget, p)) = 0
                       \/ (bytes + Total(Lengths(Paid(budget, p)))) + Spend(budget, Paid(budget, p))
                            <= d.window
                    /\ bytes + Total(Lengths(Paid(budget, p))) < d.window + MaxLength
  BY DEF BudgetOK
<1>1. c.kind = "UDT" /\ d.window = c.window
  OBVIOUS
<1>2. c.isInSlowStart
  <2>1. d.isInSlowStart = c.isInSlowStart
    BY <1>1
  <2> QED BY <2>1
<1>3. c.window \in Nat
  BY <1>1, UDTFields
<1>4. /\ budget = 0 \/ bytes + budget <= c.window
      /\ bytes < c.window + MaxLength
  BY <1>1, <1>2 DEF BudgetOK
<1> QED BY <1>1, <1>3, <1>4, SpentOK

\* A new connection.
LEMMA PacingInit ==
  ASSUME Init PROVE PacingInv
<1>1. /\ seq = 0 /\ orderIndex = 0 /\ ccPending = <<>> /\ unacknowledged = <<>>
      /\ inFlightBytes = 0 /\ ccNackQueue = <<>> /\ ccNackSet = {}
      /\ ccTotalAckedBytes = 0
      /\ sendBudget = TransmissionBandwidth(cc, 0, 0, FALSE)
      /\ resendBudget = RetransmissionBandwidth(cc, 0, 0, FALSE)
  BY DEF Init
<1>2. ControllerOK(cc, 0, 0)
  <2>1. PICK kind \in Kinds : cc = New(kind)
    BY DEF Init
  <2> QED BY <2>1, NewOK
<1>3. /\ sendBudget \in Nat /\ resendBudget \in Nat
      /\ cc.kind = "UDT" /\ cc.isInSlowStart => sendBudget = 0 \/ 0 + sendBudget <= cc.window
  BY <1>1, <1>2, BandwidthOK
<1>4. DOMAIN unacknowledged = {} /\ unacknowledged \in [DOMAIN unacknowledged -> Packets]
  BY <1>1
<1>5. MaxSeq \in Nat /\ MaxWrites \in Nat /\ MaxNackQueueSize \in Nat
  BY Constants
<1>6. StateOK
  <2>1. seq \in 0..MaxSeq /\ orderIndex \in 0..MaxWrites
    BY <1>1, <1>5
  <2>2. ccPending \in Seq(Packets) /\ DOMAIN unacknowledged \subseteq 0..(seq - 1)
    BY <1>1, <1>4
  <2>3. inFlightBytes \in Nat /\ ccTotalAckedBytes \in Nat
    BY <1>1
  <2> QED BY <2>1, <2>2, <2>3, <1>3, <1>4 DEF StateOK
<1>7. IsQueue(ccNackQueue, ccNackSet, DOMAIN unacknowledged, seq)
  <2>1. ccNackQueue \in Seq(0..(seq - 1)) /\ Len(ccNackQueue) = 0
    BY <1>1
  <2> QED BY <2>1, <1>1, <1>5 DEF IsQueue
<1>8. InFlightExact
  <2> DEFINE f == Flight(unacknowledged, seq)
  <2>1. f \in Seq(Nat) /\ Len(f) = 0
    BY <1>1, <1>4, FlightOK
  <2> HIDE DEF f
  <2>2. \A k \in 1..Len(f) : f[k] = 0
    BY <2>1
  <2>3. Total(f) = 0
    BY <2>1, <2>2, TotalZero
  <2> QED BY <2>3, <1>1 DEF InFlightExact, f
<1>9. BudgetOK(cc, sendBudget, inFlightBytes)
  <2> SUFFICES ASSUME cc.kind = "UDT", cc.isInSlowStart
               PROVE  /\ sendBudget = 0 \/ 0 + sendBudget <= cc.window
                      /\ 0 < cc.window + MaxLength
    BY <1>1 DEF BudgetOK
  <2>1. cc.window \in Nat
    BY <1>2, UDTFields
  <2> QED BY <2>1, <1>3, MaxLengthOK
<1> QED BY <1>1, <1>2, <1>6, <1>7, <1>8, <1>9 DEF PacingInv

\* The packets of a write.
LEMMA PacketsOf ==
  ASSUME NEW lengths \in Writes, NEW o \in Nat
  PROVE  [k \in DOMAIN lengths |-> [length |-> lengths[k], orderIndex |-> o]] \in Seq(Packets)
<1>1. lengths \in Seq(1..MaxLength)
  BY MaxLengthOK
<1> DEFINE n == Len(lengths)
           p == [k \in 1..n |-> [length |-> lengths[k], orderIndex |-> o]]
<1>2. n \in Nat /\ DOMAIN lengths = 1..n /\ \A k \in 1..n : lengths[k] \in 1..MaxLength
  <2> DEFINE S == 1..MaxLength
  <2>1. lengths \in Seq(S)
    BY <1>1
  <2> HIDE DEF S
  <2>2. n \in Nat /\ DOMAIN lengths = 1..n /\ \A k \in 1..n : lengths[k] \in S
    BY <2>1
  <2> QED BY <2>2 DEF S
<1>3. p \in [1..n -> Packets]
  BY <1>2 DEF Packets
<1>4. p = [k \in DOMAIN lengths |-> [length |-> lengths[k], orderIndex |-> o]]
  BY <1>2
<1> HIDE DEF p, n
<1>5. p \in Seq(Packets)
  BY <1>2, <1>3, FunctionSeq
<1> QED BY <1>4, <1>5

\* writeWithACK keeps the invariant.
LEMMA PacingWrite ==
  ASSUME PacingInv, NEW lengths \in Writes, Write(lengths) PROVE PacingInv' /\ Sends({})
<1> DEFINE packets == [k \in DOMAIN lengths |-> [length |-> lengths[k], orderIndex |-> orderIndex]]
<1>1. PICK p : p = packets
  OBVIOUS
<1>2. /\ StateOK /\ IsQueue(ccNackQueue, ccNackSet, DOMAIN unacknowledged, seq)
      /\ ControllerOK(cc, seq, ccTotalAckedBytes) /\ InFlightExact
      /\ BudgetOK(cc, sendBudget, inFlightBytes)
  BY DEF PacingInv
<1>3. p \in Seq(Packets)
  BY <1>1, <1>2, PacketsOf DEF StateOK
<1> DEFINE sent == Paid(sendBudget, p)
<1>4. /\ orderIndex < MaxWrites /\ orderIndex' = orderIndex + 1
      /\ Transmit(cc, sent, unacknowledged, inFlightBytes)
      /\ sendBudget' = Spend(sendBudget, sent)
      /\ ccPending' = ccPending \o Unpaid(sendBudget, p)
      /\ ccNackQueue' = ccNackQueue /\ ccNackSet' = ccNackSet
      /\ resendBudget' = resendBudget /\ ccTotalAckedBytes' = ccTotalAckedBytes
  BY <1>1 DEF Write
<1>5. sent \in Seq(Packets) /\ Unpaid(sendBudget, p) \in Seq(Packets) /\ sendBudget \in Nat
  BY <1>2, <1>3, PaidOK DEF StateOK
<1>6. seq \in Nat /\ ccTotalAckedBytes \in Nat /\ inFlightBytes \in Nat
      /\ unacknowledged \in [DOMAIN unacknowledged -> Packets]
      /\ DOMAIN unacknowledged \subseteq 0..(seq - 1)
      /\ inFlightBytes = Total(Flight(unacknowledged, seq))
  BY <1>2 DEF StateOK, InFlightExact
<1> HIDE DEF sent, packets
<1>7. /\ seq' \in 0..MaxSeq /\ seq' = seq + Len(sent) /\ seq <= seq'
      /\ unacknowledged' \in [DOMAIN unacknowledged' -> Packets]
      /\ DOMAIN unacknowledged' = DOMAIN unacknowledged \cup seq..(seq' - 1)
      /\ DOMAIN unacknowledged' \subseteq 0..(seq' - 1)
      /\ inFlightBytes' = Total(Flight(unacknowledged', seq'))
      /\ inFlightBytes' = inFlightBytes + Total(Lengths(sent)) /\ inFlightBytes' \in Nat
      /\ ControllerOK(cc', seq', ccTotalAckedBytes)
      /\ cc'.kind = cc.kind
      /\ cc.kind = "UDT" => cc'.isInSlowStart = cc.isInSlowStart /\ cc'.window = cc.window
  BY <1>2, <1>4, <1>5, <1>6, TransmitOK, ZenonT(60)
<1>8. StateOK'
  <2>1. ccPending' \in Seq(Packets)
    BY <1>2, <1>4, <1>5 DEF StateOK
  <2>2. sendBudget' \in Nat
    BY <1>4, <1>5, SpendOK
  <2>3. orderIndex' \in 0..MaxWrites
    <3>1. orderIndex \in 0..MaxWrites /\ MaxWrites \in Nat
      BY <1>2, Constants DEF StateOK
    <3> QED BY <3>1, <1>4
  <2>4. resendBudget' \in Nat /\ ccTotalAckedBytes' \in Nat
    BY <1>2, <1>4 DEF StateOK
  <2> QED BY <2>1, <2>2, <2>3, <2>4, <1>7 DEF StateOK
<1>9. IsQueue(ccNackQueue, ccNackSet, DOMAIN unacknowledged', seq')
  <2>1. seq' \in Nat
    BY <1>7, Constants
  <2> QED BY <2>1, <1>2, <1>6, <1>7, QueueSent
<1>10. BudgetOK(cc', sendBudget', inFlightBytes')
  BY <1>2, <1>3, <1>4, <1>5, <1>6, <1>7, BudgetSpent DEF sent
<1>11. Sends({})
  BY <1>7 DEF Sends
<1> QED BY <1>4, <1>7, <1>8, <1>9, <1>10, <1>11 DEF PacingInv, InFlightExact

\* A ping keeps the invariant: it is counted and gets no record.
LEMMA PacingPing ==
  ASSUME PacingInv, Ping PROVE PacingInv' /\ Sends({})
<1>2. /\ StateOK /\ IsQueue(ccNackQueue, ccNackSet, DOMAIN unacknowledged, seq)
      /\ ControllerOK(cc, seq, ccTotalAckedBytes) /\ InFlightExact
      /\ BudgetOK(cc, sendBudget, inFlightBytes)
  BY DEF PacingInv
<1>4. /\ seq < MaxSeq /\ seq' = seq + 1 /\ cc' = AfterSending(cc, 1)
      /\ orderIndex' = orderIndex /\ ccPending' = ccPending
      /\ unacknowledged' = unacknowledged /\ inFlightBytes' = inFlightBytes
      /\ ccNackQueue' = ccNackQueue /\ ccNackSet' = ccNackSet
      /\ sendBudget' = sendBudget
      /\ resendBudget' = resendBudget /\ ccTotalAckedBytes' = ccTotalAckedBytes
  BY DEF Ping
<1>5. /\ seq \in Nat /\ seq' \in 0..MaxSeq /\ seq' \in Nat /\ seq <= seq'
      /\ DOMAIN unacknowledged \subseteq 0..(seq - 1)
      /\ unacknowledged \in [DOMAIN unacknowledged -> Packets]
      /\ ccTotalAckedBytes \in Nat
  <2>1. seq \in 0..MaxSeq /\ MaxSeq \in Nat
    BY <1>2, Constants DEF StateOK
  <2>2. seq \in Nat /\ seq' \in 0..MaxSeq /\ seq' \in Nat /\ seq <= seq'
    BY <2>1, <1>4
  <2> QED BY <2>2, <1>2 DEF StateOK
<1>6. DOMAIN unacknowledged \subseteq 0..(seq' - 1)
  BY <1>4, <1>5
<1>7. /\ ControllerOK(cc', seq', ccTotalAckedBytes)
      /\ cc'.kind = cc.kind
      /\ cc.kind = "UDT" => cc'.isInSlowStart = cc.isInSlowStart /\ cc'.window = cc.window
  <2>1. 1 \in Nat
    OBVIOUS
  <2> QED BY <2>1, <1>2, <1>4, <1>5, AfterSendingOK
<1>8. StateOK'
  BY <1>2, <1>4, <1>5, <1>6 DEF StateOK
<1>9. IsQueue(ccNackQueue, ccNackSet, DOMAIN unacknowledged, seq')
  <2>1. DOMAIN unacknowledged \subseteq DOMAIN unacknowledged \cup seq..(seq' - 1)
    OBVIOUS
  <2> QED BY <2>1, <1>2, <1>5, QueueSent
<1>10. Total(Flight(unacknowledged, seq + 1)) = Total(Flight(unacknowledged, seq))
  <2> DEFINE s == seq
             f == Flight(unacknowledged, s)
             g == Flight(unacknowledged, s + 1)
  <2>1. f \in Seq(Nat) /\ Len(f) = s
        /\ \A k \in 1..s : f[k] = IF k - 1 \in DOMAIN unacknowledged THEN unacknowledged[k - 1].length ELSE 0
    BY <1>5, FlightOK
  <2>2. g \in Seq(Nat) /\ Len(g) = s + 1
        /\ \A k \in 1..(s + 1) : g[k] = IF k - 1 \in DOMAIN unacknowledged THEN unacknowledged[k - 1].length ELSE 0
    <3>1. s + 1 \in Nat
      BY <1>5
    <3> QED BY <1>5, <3>1, FlightOK
  <2>3. s \in Nat /\ s \notin DOMAIN unacknowledged
    BY <1>5
  <2> HIDE DEF s, f, g
  <2>4. \A k \in 1..s : g[k] = f[k]
    <3>1. \A k \in 1..s : k \in 1..(s + 1)
      BY <2>3
    <3> QED BY <3>1, <2>1, <2>2
  <2>5. g[s + 1] = 0
    <3>1. s + 1 \in 1..(s + 1) /\ (s + 1) - 1 = s
      BY <2>3
    <3> QED BY <3>1, <2>2, <2>3
  <2>6. s \in 0..Len(f) /\ s <= Len(g) /\ s \in 0..s /\ s + 1 \in 1..Len(g) /\ (s + 1) - 1 = s
        /\ s \in 0..Len(g)
    BY <2>1, <2>2, <2>3
  <2>7. Totals(f)[s] = Totals(g)[s]
    BY <2>1, <2>2, <2>4, <2>6, TotalsPrefix, ZenonT(60)
  <2>8. Totals(g)[s + 1] = Totals(g)[s] + g[s + 1] /\ Totals(g)[s] \in Nat
    BY <2>2, <2>6, TotalsOK
  <2>9. Totals(g)[s + 1] = Totals(f)[s]
    BY <2>5, <2>7, <2>8
  <2>10. Total(g) = Total(f)
    BY <2>9, <2>1, <2>2 DEF Total
  <2> QED BY <2>10 DEF f, g, s
<1>11. InFlightExact'
  BY <1>2, <1>4, <1>10 DEF InFlightExact
<1>12. BudgetOK(cc', sendBudget, inFlightBytes)
  <2> SUFFICES ASSUME cc'.kind = "UDT", cc'.isInSlowStart
               PROVE  /\ sendBudget = 0 \/ inFlightBytes + sendBudget <= cc'.window
                      /\ inFlightBytes < cc'.window + MaxLength
    BY DEF BudgetOK
  <2>1. cc.kind = "UDT" /\ cc'.window = cc.window /\ cc'.isInSlowStart = cc.isInSlowStart
    BY <1>7
  <2>2. cc.isInSlowStart
    BY <2>1
  <2> QED BY <2>1, <2>2, <1>2 DEF BudgetOK
<1>13. Sends({})
  BY <1>4, <1>5 DEF Sends
<1> QED BY <1>4, <1>7, <1>8, <1>9, <1>11, <1>12, <1>13 DEF PacingInv

\* The numbers among the first n of the queue that a tick resends.
Resends(n) ==
  LET popped == SubSeq(ccNackQueue, 1, n)
      queued == Ascending({i \in DOMAIN popped : IsQueued(popped[i])})
  IN  [i \in DOMAIN queued |-> popped[queued[i]]]

\* A tick resends a record once, whatever the queue held.
LEMMA ResendsOK ==
  ASSUME NEW s \in Nat, IsQueue(ccNackQueue, ccNackSet, DOMAIN unacknowledged, s),
         NEW n \in 0..Len(ccNackQueue)
  PROVE  /\ Resends(n) \in Seq(DOMAIN unacknowledged)
         /\ \A i, j \in 1..Len(Resends(n)) : Resends(n)[i] = Resends(n)[j] => i = j
<1> DEFINE popped == SubSeq(ccNackQueue, 1, n)
           Q == {i \in DOMAIN popped : IsQueued(popped[i])}
           D == DOMAIN unacknowledged
           q == ccNackQueue
           S == 0..(s - 1)
           queued == Ascending(Q)
           numbers == [i \in DOMAIN queued |-> popped[queued[i]]]
<1>0. Resends(n) = numbers
  BY DEF Resends
<1>1. q \in Seq(S) /\ Len(q) \in Nat /\ n \in Nat /\ n <= Len(q)
      /\ \A i, j \in 1..Len(q) : q[i] = q[j] => i = j
  BY DEF IsQueue
<1>2. DOMAIN popped = 1..n /\ \A i \in 1..n : popped[i] = q[i] /\ i \in 1..Len(q)
  <2> HIDE DEF S
  <2> QED BY <1>1
<1> HIDE DEF popped
<1>3. Q \subseteq 1..n /\ Q \in SUBSET Nat
  BY <1>2, <1>1
<1>4. IsFiniteSet(Q)
  <2>1. IsFiniteSet(1..n)
    BY <1>1, FS_Interval
  <2> QED BY <2>1, <1>3, FS_Subset
<1> DEFINE m == Cardinality(Q)
<1>5. \A i \in Q : i \in 1..n /\ popped[i] \in D
  BY <1>2 DEF IsQueued
<1> HIDE DEF Q
<1>6. /\ m \in Nat /\ queued \in Seq(Q) /\ Len(queued) = m
      /\ \A i, j \in 1..m : queued[i] = queued[j] => i = j
  BY <1>3, <1>4, AscendingOK
<1> HIDE DEF m, D, queued
<1>7. DOMAIN queued = 1..m /\ \A i \in 1..m : queued[i] \in Q
  BY <1>6
<1>9. numbers \in [1..m -> D] /\ \A i \in 1..m : numbers[i] = popped[queued[i]]
  BY <1>5, <1>7
<1> HIDE DEF numbers
<1>10. numbers \in Seq(D) /\ Len(numbers) = m
  BY <1>6, <1>9, FunctionSeq
<1>11. ASSUME NEW i \in 1..m, NEW j \in 1..m, numbers[i] = numbers[j] PROVE i = j
  <2> DEFINE a == queued[i]
             b == queued[j]
  <2>1. a \in 1..n /\ b \in 1..n /\ popped[a] = popped[b]
    BY <1>5, <1>7, <1>9, <1>11
  <2>2. a = b
    BY <2>1, <1>1, <1>2
  <2> QED BY <2>2, <1>6
<1> QED BY <1>0, <1>10, <1>11 DEF D

\* tick keeps the invariant: it renews the budgets, sends what waits and moves
\* the records of what it resends to new numbers.
LEMMA PacingTick ==
  ASSUME PacingInv, NEW elapsed \in Elapsed, Tick(elapsed) PROVE PacingInv' /\ Sends({})
<1>1. /\ StateOK /\ IsQueue(ccNackQueue, ccNackSet, DOMAIN unacknowledged, seq)
      /\ ControllerOK(cc, seq, ccTotalAckedBytes) /\ InFlightExact
      /\ BudgetOK(cc, sendBudget, inFlightBytes)
  BY DEF PacingInv
<1>2. PICK continuous \in BOOLEAN : continuous = (ccPending # <<>>)
  OBVIOUS
<1>3. PICK budget : budget = TransmissionBandwidth(cc, elapsed, inFlightBytes, continuous)
  OBVIOUS
<1>4. PICK again : again = RetransmissionBandwidth(cc, elapsed, inFlightBytes, continuous)
  OBVIOUS
<1>5. PICK sent : sent = Paid(budget, ccPending)
  OBVIOUS
<1>6. PICK costs : costs = [i \in DOMAIN ccNackQueue |->
                  IF IsQueued(ccNackQueue[i])
                  THEN unacknowledged[ccNackQueue[i]].length ELSE 0]
  OBVIOUS
<1>7. PICK n : n = Affordable(again, costs)
  OBVIOUS
<1>8. PICK popped : popped = SubSeq(ccNackQueue, 1, n)
  OBVIOUS
<1>9. PICK queued : queued = Ascending({i \in DOMAIN popped : IsQueued(popped[i])})
  OBVIOUS
<1>10. PICK numbers : numbers = [i \in DOMAIN queued |-> popped[queued[i]]]
  OBVIOUS
<1>11. PICK resent : resent = [i \in DOMAIN numbers |-> unacknowledged[numbers[i]]]
  OBVIOUS
<1>12. /\ Transmit(AfterBandwidth(cc, continuous), sent \o resent,
                  Drop(unacknowledged, Range(numbers)),
                  Removed(inFlightBytes, resent))
       /\ sendBudget' = Spend(budget, sent)
       /\ resendBudget' = Spend(again, resent)
       /\ ccPending' = Unpaid(budget, ccPending)
       /\ ccNackQueue' = SubSeq(ccNackQueue, n + 1, Len(ccNackQueue))
       /\ ccNackSet' = ccNackSet \ Range(popped)
       /\ orderIndex' = orderIndex /\ ccTotalAckedBytes' = ccTotalAckedBytes
  BY <1>2, <1>3, <1>4, <1>5, <1>6, <1>7, <1>8, <1>9, <1>10, <1>11, ZenonT(60) DEF Tick
<1>13. elapsed \in Nat
  BY PacingAssumption
<1>14. /\ seq \in Nat /\ ccTotalAckedBytes \in Nat /\ inFlightBytes \in Nat
       /\ ccPending \in Seq(Packets)
       /\ unacknowledged \in [DOMAIN unacknowledged -> Packets]
       /\ DOMAIN unacknowledged \subseteq 0..(seq - 1)
       /\ inFlightBytes = Total(Flight(unacknowledged, seq))
  BY <1>1 DEF StateOK, InFlightExact
<1>15. /\ budget \in Nat /\ again \in Nat
       /\ cc.kind = "UDT" /\ cc.isInSlowStart => budget = 0 \/ inFlightBytes + budget <= cc.window
  BY <1>1, <1>3, <1>4, <1>13, <1>14, BandwidthOK
<1>16. sent \in Seq(Packets) /\ Unpaid(budget, ccPending) \in Seq(Packets)
       /\ Total(Lengths(sent)) \in Nat
  BY <1>5, <1>14, <1>15, PaidOK
<1>17. n \in 0..Len(ccNackQueue)
  <2> DEFINE m == Len(ccNackQueue)
  <2>1. m \in Nat /\ DOMAIN ccNackQueue = 1..m
    BY <1>1 DEF IsQueue
  <2>2. \A t \in DOMAIN unacknowledged : unacknowledged[t].length \in Nat
    BY <1>14, MaxLengthOK DEF Packets
  <2>3. costs \in [1..m -> Nat]
    BY <1>6, <2>1, <2>2 DEF IsQueued
  <2> HIDE DEF m
  <2>4. costs \in Seq(Nat) /\ Len(costs) = m
    BY <2>1, <2>3, FunctionSeq
  <2> QED BY <2>4, <1>7, <1>15, AffordableOK DEF m
<1>18. /\ numbers \in Seq(DOMAIN unacknowledged)
       /\ \A i, j \in 1..Len(numbers) : numbers[i] = numbers[j] => i = j
  <2>1. numbers = Resends(n)
    BY <1>8, <1>9, <1>10 DEF Resends
  <2> QED BY <2>1, <1>1, <1>14, <1>17, ResendsOK
<1>19. PICK left : left = Drop(unacknowledged, Range(numbers))
  OBVIOUS
<1>20. /\ resent \in Seq(Packets)
       /\ left \in [DOMAIN unacknowledged \ Range(numbers) -> Packets]
       /\ Total(Flight(unacknowledged, seq)) = Total(Flight(left, seq)) + Total(Lengths(resent))
  <2>1. DOMAIN numbers = 1..Len(numbers)
    BY <1>18
  <2>2. resent = Selected(unacknowledged, numbers)
    BY <2>1, <1>11 DEF Selected
  <2> QED BY <2>2, <1>14, <1>18, <1>19, DropOK
<1>21. /\ left \in [DOMAIN left -> Packets] /\ DOMAIN left \subseteq 0..(seq - 1)
       /\ DOMAIN left \subseteq DOMAIN unacknowledged
  BY <1>14, <1>20
<1>22. PICK bytes : bytes = Removed(inFlightBytes, resent)
  OBVIOUS
<1>23. /\ bytes = Total(Flight(left, seq)) /\ bytes \in Nat
       /\ inFlightBytes = bytes + Total(Lengths(resent)) /\ Total(Lengths(resent)) \in Nat
  <2> DEFINE a == Total(Flight(left, seq))
             b == Total(Lengths(resent))
  <2>1. a \in Nat
    BY <1>14, <1>21, FlightOK, TotalNat
  <2>2. b \in Nat
    BY <1>20, LengthsOK, TotalNat
  <2>3. bytes = inFlightBytes - b /\ inFlightBytes = a + b
    BY <1>14, <1>20, <1>22 DEF Removed
  <2> HIDE DEF a, b
  <2>4. bytes = a /\ bytes \in Nat /\ inFlightBytes = bytes + b
    BY <2>1, <2>2, <2>3
  <2> QED BY <2>2, <2>4 DEF a, b
<1>24. PICK c : c = AfterBandwidth(cc, continuous)
  OBVIOUS
<1>25. /\ ControllerOK(c, seq, ccTotalAckedBytes) /\ c.kind = cc.kind
       /\ cc.kind = "UDT" => c = cc
  BY <1>1, <1>14, <1>24, AfterBandwidthOK
<1>26. PICK p : p = sent \o resent
  OBVIOUS
<1>27. p \in Seq(Packets)
  BY <1>16, <1>20, <1>26
<1>28. Transmit(c, p, left, bytes)
  BY <1>12, <1>19, <1>22, <1>24, <1>26
<1>29. /\ seq' \in 0..MaxSeq /\ seq <= seq'
       /\ unacknowledged' \in [DOMAIN unacknowledged' -> Packets]
       /\ DOMAIN unacknowledged' = DOMAIN left \cup seq..(seq' - 1)
       /\ DOMAIN unacknowledged' \subseteq 0..(seq' - 1)
       /\ inFlightBytes' = Total(Flight(unacknowledged', seq'))
       /\ inFlightBytes' = bytes + Total(Lengths(p)) /\ inFlightBytes' \in Nat
       /\ ControllerOK(cc', seq', ccTotalAckedBytes)
       /\ cc'.kind = c.kind
       /\ c.kind = "UDT" => cc'.isInSlowStart = c.isInSlowStart /\ cc'.window = c.window
  BY <1>14, <1>21, <1>23, <1>25, <1>27, <1>28, TransmitOK, ZenonT(60)
<1>30. inFlightBytes' = inFlightBytes + Total(Lengths(sent))
  <2>1. Total(Lengths(p)) = Total(Lengths(sent)) + Total(Lengths(resent))
    BY <1>16, <1>20, <1>26, LengthsConcat
  <2> QED BY <2>1, <1>16, <1>23, <1>29
<1>31. StateOK'
  <2>1. sendBudget' \in Nat /\ resendBudget' \in Nat
    BY <1>12, <1>15, <1>16, <1>20, SpendOK
  <2>2. ccPending' \in Seq(Packets) /\ orderIndex' \in 0..MaxWrites /\ ccTotalAckedBytes' \in Nat
    BY <1>1, <1>12, <1>16 DEF StateOK
  <2> QED BY <2>1, <2>2, <1>29 DEF StateOK
<1>32. IsQueue(ccNackQueue', ccNackSet', DOMAIN unacknowledged', seq')
  <2>1. IsQueue(ccNackQueue', ccNackSet', DOMAIN unacknowledged, seq)
    BY <1>1, <1>8, <1>12, <1>14, <1>17, QueuePopped
  <2>2. seq' \in Nat /\ DOMAIN unacknowledged' \subseteq DOMAIN unacknowledged \cup seq..(seq' - 1)
    BY <1>21, <1>29, Constants
  <2> QED BY <2>1, <2>2, <1>14, <1>29, QueueSent
<1>33. BudgetOK(cc', sendBudget', inFlightBytes')
  <2>1. BudgetOK(cc, budget, inFlightBytes)
    BY <1>1, <1>15 DEF BudgetOK
  <2>2. cc'.kind = cc.kind
        /\ (cc.kind = "UDT" => cc'.isInSlowStart = cc.isInSlowStart /\ cc'.window = cc.window)
    BY <1>25, <1>29
  <2> QED BY <2>1, <2>2, <1>1, <1>5, <1>12, <1>14, <1>15, <1>30, BudgetSpent
<1>34. Sends({})
  BY <1>21, <1>29 DEF Sends
<1> QED BY <1>12, <1>29, <1>31, <1>32, <1>33, <1>34 DEF PacingInv, InFlightExact

\* There are finitely many records.
LEMMA FiniteRecords ==
  ASSUME seq \in Nat, DOMAIN unacknowledged \subseteq 0..(seq - 1),
         NEW S, S \subseteq DOMAIN unacknowledged
  PROVE  S \in SUBSET Nat /\ IsFiniteSet(S) /\ Cardinality(S) \in Nat
<1>1. IsFiniteSet(0..(seq - 1))
  BY FS_Interval
<1>2. S \subseteq 0..(seq - 1)
  OBVIOUS
<1>3. IsFiniteSet(S)
  BY <1>1, <1>2, FS_Subset
<1>4. Cardinality(S) \in Nat
  BY <1>3, FS_CardinalityType
<1> QED BY <1>2, <1>3, <1>4

\* enqueueResendsLocked keeps the queue and its set in step.
LEMMA EnqueueOK ==
  ASSUME seq \in Nat, DOMAIN unacknowledged \subseteq 0..(seq - 1),
         IsQueue(ccNackQueue, ccNackSet, DOMAIN unacknowledged, seq),
         NEW numbers, numbers \subseteq DOMAIN unacknowledged, Enqueue(numbers)
  PROVE  IsQueue(ccNackQueue', ccNackSet', DOMAIN unacknowledged, seq)
<1> DEFINE new == numbers \ ccNackSet
           room == MaxNackQueueSize - Len(ccNackQueue)
           n == IF room < Cardinality(new) THEN room ELSE Cardinality(new)
<1>1. Cardinality(new) \in Nat
  BY FiniteRecords
<1>2. PICK taken \in [1..n -> new] :
        /\ IsInjective(taken)
        /\ ccNackQueue' = ccNackQueue \o taken
        /\ ccNackSet' = ccNackSet \cup Range(taken)
  BY DEF Enqueue
<1>3. MaxNackQueueSize \in Nat /\ Len(ccNackQueue) \in Nat /\ Len(ccNackQueue) <= MaxNackQueueSize
  BY Constants DEF IsQueue
<1>4. n \in Nat /\ n <= room
  BY <1>1, <1>3
<1> HIDE DEF n
<1>5. \A i, j \in 1..n : taken[i] = taken[j] => i = j
  BY <1>2 DEF IsInjective
<1>6. taken \in [1..n -> DOMAIN unacknowledged \ ccNackSet]
  BY <1>2
<1> QED BY <1>2, <1>4, <1>5, <1>6, QueueGrown

\* checkResend and handleNACK keep the invariant.
LEMMA PacingLoss ==
  ASSUME PacingInv, NEW numbers \in SUBSET DOMAIN unacknowledged,
         CheckResend(numbers) \/ HandleNACK(numbers)
  PROVE  PacingInv'
<1>1. /\ StateOK /\ IsQueue(ccNackQueue, ccNackSet, DOMAIN unacknowledged, seq)
      /\ ControllerOK(cc, seq, ccTotalAckedBytes) /\ InFlightExact
      /\ BudgetOK(cc, sendBudget, inFlightBytes)
  BY DEF PacingInv
<1>2. /\ cc' = AfterNAK(cc) \/ cc' = AfterResend(cc)
      /\ Enqueue(numbers)
      /\ seq' = seq /\ orderIndex' = orderIndex /\ ccPending' = ccPending
      /\ unacknowledged' = unacknowledged /\ inFlightBytes' = inFlightBytes
      /\ sendBudget' = sendBudget /\ resendBudget' = resendBudget
      /\ ccTotalAckedBytes' = ccTotalAckedBytes
  BY DEF CheckResend, HandleNACK
<1>3. seq \in Nat /\ DOMAIN unacknowledged \subseteq 0..(seq - 1) /\ ccTotalAckedBytes \in Nat
  BY <1>1 DEF StateOK
<1>4. StateOK' /\ InFlightExact'
  BY <1>1, <1>2 DEF StateOK, InFlightExact
<1>5. IsQueue(ccNackQueue', ccNackSet', DOMAIN unacknowledged', seq')
  <2>1. numbers \subseteq DOMAIN unacknowledged
    OBVIOUS
  <2>2. IsQueue(ccNackQueue', ccNackSet', DOMAIN unacknowledged, seq)
    BY <2>1, <1>1, <1>2, <1>3, EnqueueOK
  <2> QED BY <2>2, <1>2
<1>6. /\ ControllerOK(cc', seq, ccTotalAckedBytes) /\ cc'.kind = cc.kind
      /\ cc.kind = "UDT" => ~cc'.isInSlowStart
  BY <1>1, <1>2, <1>3, AfterLossOK
<1>7. BudgetOK(cc', sendBudget', inFlightBytes')
  BY <1>6 DEF BudgetOK
<1> QED BY <1>2, <1>4, <1>5, <1>6, <1>7 DEF PacingInv

\* handleACK keeps the invariant: what it removes is taken off the count, and
\* what it flushes fits in the budget that was left.
LEMMA PacingHandleACK ==
  ASSUME PacingInv, NEW rtt \in RoundTrips, HandleACK(rtt)
  PROVE  PacingInv' /\ Sends(ReadPacket(Head(acks)))
<1>1. /\ StateOK /\ IsQueue(ccNackQueue, ccNackSet, DOMAIN unacknowledged, seq)
      /\ ControllerOK(cc, seq, ccTotalAckedBytes) /\ InFlightExact
      /\ BudgetOK(cc, sendBudget, inFlightBytes)
  BY DEF PacingInv
<1>2. PICK numbers : numbers = ReadPacket(Head(acks))
  OBVIOUS
<1>3. PICK known : known = numbers \cap DOMAIN unacknowledged
  OBVIOUS
<1>4. PICK last : last = CHOOSE s \in numbers : \A t \in numbers : t <= s
  OBVIOUS
<1>5. PICK total : total = ccTotalAckedBytes + Cardinality(known) * AckMTU
  OBVIOUS
<1>6. PICK order : order = Ascending(known)
  OBVIOUS
<1>7. PICK gone : gone = [k \in DOMAIN order |-> unacknowledged[order[k]]]
  OBVIOUS
<1>8. PICK sent : sent = Paid(sendBudget, ccPending)
  OBVIOUS
<1>9. PICK b \in BOOLEAN : b = (ccPending # <<>>)
  OBVIOUS
<1>10. /\ ccNackSet' = ccNackSet \ numbers /\ ccTotalAckedBytes' = total
       /\ orderIndex' = orderIndex /\ ccNackQueue' = ccNackQueue /\ resendBudget' = resendBudget
       /\ \/ /\ known = {} /\ seq' = seq /\ unacknowledged' = unacknowledged
             /\ inFlightBytes' = inFlightBytes /\ sendBudget' = sendBudget
             /\ cc' = cc /\ ccPending' = ccPending
          \/ /\ known # {}
             /\ Transmit(AfterAck(cc, rtt, b, total, last), sent,
                         Drop(unacknowledged, known), Removed(inFlightBytes, gone))
             /\ sendBudget' = Spend(sendBudget, sent)
             /\ ccPending' = Unpaid(sendBudget, ccPending)
  BY <1>2, <1>3, <1>4, <1>5, <1>6, <1>7, <1>8, <1>9 DEF HandleACK
<1>11. /\ seq \in Nat /\ ccTotalAckedBytes \in Nat /\ inFlightBytes \in Nat /\ sendBudget \in Nat
       /\ ccPending \in Seq(Packets)
       /\ unacknowledged \in [DOMAIN unacknowledged -> Packets]
       /\ DOMAIN unacknowledged \subseteq 0..(seq - 1)
       /\ inFlightBytes = Total(Flight(unacknowledged, seq))
  BY <1>1 DEF StateOK, InFlightExact
<1>12. known \in SUBSET Nat /\ IsFiniteSet(known) /\ Cardinality(known) \in Nat
  <2>1. known \subseteq DOMAIN unacknowledged
    BY <1>3
  <2> QED BY <2>1, <1>11, FiniteRecords
<1>13. total \in Nat /\ ccTotalAckedBytes <= total
  <2>1. Cardinality(known) * AckMTU \in Nat
    BY <1>12, Constants
  <2> QED BY <2>1, <1>5, <1>11
<1>14. IsQueue(ccNackQueue, ccNackSet \ numbers, DOMAIN unacknowledged \ numbers, seq)
  BY <1>1, QueueDropped
<1>15. CASE known = {}
  <2>1. /\ seq' = seq /\ unacknowledged' = unacknowledged
        /\ inFlightBytes' = inFlightBytes /\ sendBudget' = sendBudget
        /\ cc' = cc /\ ccPending' = ccPending
    BY <1>10, <1>15
  <2>2. total = ccTotalAckedBytes
    <3>1. Cardinality(known) = 0
      BY <1>15, FS_EmptySet
    <3>2. 0 * AckMTU = 0
      BY Constants
    <3> QED BY <3>1, <3>2, <1>5, <1>11
  <2>3. StateOK' /\ InFlightExact'
    BY <2>1, <2>2, <1>1, <1>10 DEF StateOK, InFlightExact
  <2>4. DOMAIN unacknowledged \ numbers = DOMAIN unacknowledged
    BY <1>3, <1>15
  <2>5. Sends(numbers)
    <3>1. seq <= seq'
      BY <2>1, <1>11
    <3> QED BY <3>1, <2>1, <2>4 DEF Sends
  <2> QED BY <2>1, <2>2, <2>3, <2>4, <2>5, <1>1, <1>2, <1>10, <1>14 DEF PacingInv
<1>16. CASE known # {}
  <2>1. PICK c : c = AfterAck(cc, rtt, b, total, last)
    OBVIOUS
  <2>2. PICK left : left = Drop(unacknowledged, known)
    OBVIOUS
  <2>3. PICK bytes : bytes = Removed(inFlightBytes, gone)
    OBVIOUS
  <2>4. /\ Transmit(c, sent, left, bytes)
        /\ sendBudget' = Spend(sendBudget, sent)
        /\ ccPending' = Unpaid(sendBudget, ccPending)
    BY <1>10, <1>16, <2>1, <2>2, <2>3
  <2>5. /\ ControllerOK(c, seq, total) /\ c.kind = cc.kind
        /\ cc.kind = "UDT" /\ c.isInSlowStart => cc.isInSlowStart
    BY <1>1, <1>11, <1>13, <2>1, AfterAckOK
  <2>6. /\ order \in Seq(DOMAIN unacknowledged) /\ Range(order) = known
        /\ \A i, j \in 1..Len(order) : order[i] = order[j] => i = j
    <3> DEFINE m == Cardinality(known)
    <3>1. /\ m \in Nat /\ order \in Seq(known) /\ Len(order) = m
          /\ \A i, j \in 1..m : order[i] = order[j] => i = j
          /\ \A x \in known : \E i \in 1..m : order[i] = x
      BY <1>6, <1>12, AscendingOK
    <3> HIDE DEF m
    <3>2. DOMAIN order = 1..m /\ \A i \in 1..m : order[i] \in known
      BY <3>1
    <3>3. Range(order) = known
      BY <3>1, <3>2 DEF Range
    <3> DEFINE D == DOMAIN unacknowledged
    <3>4. order \in [1..m -> D]
      BY <3>1, <3>2, <1>3
    <3> HIDE DEF D
    <3>5. order \in Seq(D)
      BY <3>1, <3>4, FunctionSeq
    <3> QED BY <3>1, <3>3, <3>5 DEF D
  <2>7. /\ gone \in Seq(Packets)
        /\ left \in [DOMAIN unacknowledged \ known -> Packets]
        /\ Total(Flight(unacknowledged, seq)) = Total(Flight(left, seq)) + Total(Lengths(gone))
    <3>1. DOMAIN order = 1..Len(order)
      BY <2>6
    <3>2. gone = Selected(unacknowledged, order)
      BY <3>1, <1>7 DEF Selected
    <3> QED BY <3>2, <1>11, <2>2, <2>6, DropOK
  <2>8. /\ left \in [DOMAIN left -> Packets] /\ DOMAIN left \subseteq 0..(seq - 1)
        /\ DOMAIN left = DOMAIN unacknowledged \ numbers
    BY <1>3, <1>11, <2>7
  <2>9. bytes = Total(Flight(left, seq)) /\ bytes \in Nat /\ bytes <= inFlightBytes
    <3> DEFINE x == Total(Flight(left, seq))
               y == Total(Lengths(gone))
    <3>1. x \in Nat
      BY <1>11, <2>8, FlightOK, TotalNat
    <3>2. y \in Nat
      BY <2>7, LengthsOK, TotalNat
    <3>3. bytes = inFlightBytes - y /\ inFlightBytes = x + y
      BY <1>11, <2>3, <2>7 DEF Removed
    <3> HIDE DEF x, y
    <3>4. bytes = x /\ bytes \in Nat /\ bytes <= inFlightBytes
      BY <3>1, <3>2, <3>3
    <3> QED BY <3>4 DEF x
  <2>10. sent \in Seq(Packets) /\ Unpaid(sendBudget, ccPending) \in Seq(Packets)
    BY <1>8, <1>11, PaidOK
  <2>11. /\ seq' \in 0..MaxSeq /\ seq <= seq'
         /\ unacknowledged' \in [DOMAIN unacknowledged' -> Packets]
         /\ DOMAIN unacknowledged' = DOMAIN left \cup seq..(seq' - 1)
         /\ DOMAIN unacknowledged' \subseteq 0..(seq' - 1)
         /\ inFlightBytes' = Total(Flight(unacknowledged', seq'))
         /\ inFlightBytes' = bytes + Total(Lengths(sent)) /\ inFlightBytes' \in Nat
         /\ ControllerOK(cc', seq', total)
         /\ cc'.kind = c.kind
         /\ c.kind = "UDT" => cc'.isInSlowStart = c.isInSlowStart /\ cc'.window = c.window
    <3>1. /\ seq \in Nat /\ total \in Nat /\ ControllerOK(c, seq, total)
          /\ sent \in Seq(Packets) /\ bytes \in Nat /\ bytes = Total(Flight(left, seq))
          /\ Transmit(c, sent, left, bytes)
      BY <1>11, <1>13, <2>4, <2>5, <2>9, <2>10
    <3>2. left \in [DOMAIN left -> Packets] /\ DOMAIN left \subseteq 0..(seq - 1)
      BY <2>8
    <3> QED BY <3>1, <3>2, TransmitOK
  <2>12. StateOK'
    <3>1. sendBudget' \in Nat
      BY <1>11, <2>4, <2>10, SpendOK
    <3>2. ccPending' \in Seq(Packets) /\ orderIndex' \in 0..MaxWrites
          /\ ccTotalAckedBytes' \in Nat /\ resendBudget' \in Nat
      BY <1>1, <1>10, <1>13, <2>4, <2>10 DEF StateOK
    <3> QED BY <3>1, <3>2, <2>11 DEF StateOK
  <2>13. IsQueue(ccNackQueue', ccNackSet', DOMAIN unacknowledged', seq')
    <3>1. seq' \in Nat /\ DOMAIN unacknowledged' \subseteq (DOMAIN unacknowledged \ numbers) \cup seq..(seq' - 1)
      BY <2>8, <2>11, Constants
    <3> QED BY <3>1, <1>10, <1>11, <1>14, <2>11, QueueSent
  <2>14. BudgetOK(c, sendBudget, bytes)
    <3> SUFFICES ASSUME c.kind = "UDT", c.isInSlowStart
                 PROVE  /\ sendBudget = 0 \/ bytes + sendBudget <= c.window
                        /\ bytes < c.window + MaxLength
      BY DEF BudgetOK
    <3>1. cc.kind = "UDT" /\ cc.isInSlowStart
      BY <2>5
    <3> DEFINE W == CwndMin * MTU
               v == cc.window
               w == c.window
    <3>2. W \in Nat
      BY WindowSizes
    <3>3. v \in Nat /\ v = UDT!Higher(ccTotalAckedBytes, W)
      BY <3>1, <1>1, <1>11, UDTFields
    <3>4. w \in Nat /\ w = UDT!Higher(total, W)
      BY <2>5, <1>11, <1>13, UDTFields
    <3>5. /\ sendBudget = 0 \/ inFlightBytes + sendBudget <= v
          /\ inFlightBytes < v + MaxLength
      BY <3>1, <1>1 DEF BudgetOK
    <3>6. MaxLength \in Nat
      BY MaxLengthOK
    <3> HIDE DEF W, v, w
    <3>7. v <= w
      BY <3>2, <3>3, <3>4, <1>11, <1>13 DEF UDT!Higher
    <3>8. /\ sendBudget = 0 \/ bytes + sendBudget <= w
          /\ bytes < w + MaxLength
      BY <3>3, <3>4, <3>5, <3>6, <3>7, <1>11, <2>9
    <3> QED BY <3>8 DEF w
  <2>15. BudgetOK(cc', sendBudget', inFlightBytes')
    BY <2>4, <2>5, <2>9, <2>11, <2>14, <1>8, <1>11, <1>13, BudgetSpent
  <2>16. Sends(numbers)
    BY <2>8, <2>11 DEF Sends
  <2> QED BY <1>2, <1>10, <2>11, <2>12, <2>13, <2>15, <2>16 DEF PacingInv, InFlightExact
<1> QED BY <1>15, <1>16

\* Every step keeps the invariant.
LEMMA PacingStep ==
  ASSUME PacingInv, [Next]_vars PROVE PacingInv'
<1>1. ASSUME NEW lengths \in Writes, Write(lengths) PROVE PacingInv'
  BY <1>1, PacingWrite
<1>2. CASE Ping
  BY <1>2, PacingPing
<1>3. ASSUME NEW elapsed \in Elapsed, Tick(elapsed) PROVE PacingInv'
  BY <1>3, PacingTick
<1>4. ASSUME NEW old \in SUBSET DOMAIN unacknowledged, CheckResend(old) PROVE PacingInv'
  BY <1>4, PacingLoss
<1>5. ASSUME NEW missing \in SUBSET DOMAIN unacknowledged, HandleNACK(missing) PROVE PacingInv'
  BY <1>5, PacingLoss
<1>6. ASSUME NEW numbers, SendACK(numbers) PROVE PacingInv'
  BY <1>6 DEF SendACK, PacingInv, StateOK, InFlightExact
<1>7. CASE LoseACK
  BY <1>7 DEF LoseACK, PacingInv, StateOK, InFlightExact
<1>8. ASSUME NEW rtt \in RoundTrips, HandleACK(rtt) PROVE PacingInv'
  BY <1>8, PacingHandleACK
<1>9. CASE UNCHANGED vars
  BY <1>9 DEF vars, PacingInv, StateOK, InFlightExact
<1> QED BY <1>1, <1>2, <1>3, <1>4, <1>5, <1>6, <1>7, <1>8, <1>9 DEF Next

\* The inductive invariant: records, count, queue, controller and budget of a
\* Conn agree after every step, for both controllers.
THEOREM PacingInvariant == Spec => []PacingInv
<1>1. Init => PacingInv
  BY PacingInit
<1>2. PacingInv /\ [Next]_vars => PacingInv'
  BY PacingStep
<1> QED BY <1>1, <1>2, PTL DEF Spec

\* The invariant has the types.
LEMMA PacingTypes ==
  ASSUME PacingInv PROVE TypeOK
<1>1. /\ StateOK /\ IsQueue(ccNackQueue, ccNackSet, DOMAIN unacknowledged, seq)
      /\ ControllerOK(cc, seq, ccTotalAckedBytes)
  BY DEF PacingInv
<1>2. ccNackSet \subseteq Range(ccNackQueue)
  <2>1. DOMAIN ccNackQueue = 1..Len(ccNackQueue)
    BY <1>1 DEF IsQueue
  <2> QED BY <2>1, <1>1 DEF IsQueue, Range
<1>3. Len(ccNackQueue) <= MaxNackQueueSize
  BY <1>1 DEF IsQueue
<1>4. cc \in UDT!Controllers(RoundTrips) \cup Window!Controllers
  BY <1>1 DEF ControllerOK
<1> QED BY <1>1, <1>2, <1>3, <1>4 DEF TypeOK, StateOK

\* The invariant leaves no connection without a budget.
LEMMA PacingStarved ==
  ASSUME PacingInv PROVE NeverStarved
<1>1. /\ StateOK /\ ControllerOK(cc, seq, ccTotalAckedBytes) /\ InFlightExact
  BY DEF PacingInv
<1>2. /\ seq \in Nat /\ ccTotalAckedBytes \in Nat /\ inFlightBytes \in Nat
      /\ unacknowledged \in [DOMAIN unacknowledged -> Packets]
      /\ DOMAIN unacknowledged \subseteq 0..(seq - 1)
  BY <1>1 DEF StateOK
<1>3. /\ inFlightBytes = 0 => TransmissionBandwidth(cc, SndCap, inFlightBytes, TRUE) > 0
      /\ inFlightBytes > 0 => RetransmissionBandwidth(cc, SndCap, inFlightBytes, TRUE) > 0
  BY <1>1, <1>2, BudgetLeft
<1> DEFINE D == DOMAIN unacknowledged
           f == Flight(unacknowledged, seq)
<1>4. /\ f \in Seq(Nat) /\ Len(f) = seq
      /\ \A k \in 1..seq : f[k] = IF k - 1 \in D THEN unacknowledged[k - 1].length ELSE 0
  BY <1>2, FlightOK
<1>5. inFlightBytes = Total(f)
  BY <1>1 DEF InFlightExact
<1> HIDE DEF f
<1>6. D = {} => inFlightBytes = 0
  <2> SUFFICES ASSUME D = {} PROVE Total(f) = 0
    BY <1>5
  <2>1. \A k \in 1..Len(f) : f[k] = 0
    BY <1>4
  <2> QED BY <2>1, <1>4, TotalZero
<1>7. D # {} => inFlightBytes > 0
  <2> SUFFICES ASSUME NEW t \in D PROVE Total(f) > 0
    BY <1>5
  <2>1. t \in 0..(seq - 1)
    BY <1>2
  <2>2. t + 1 \in 1..seq /\ (t + 1) - 1 = t
    BY <2>1, <1>2
  <2>3. f[t + 1] = unacknowledged[t].length
    BY <2>2, <1>4
  <2>4. unacknowledged[t].length \in Nat \ {0}
    BY <1>2, MaxLengthOK DEF Packets
  <2>5. f[t + 1] <= Total(f)
    BY <2>2, <1>4, TotalsGrow
  <2>6. Total(f) \in Nat
    BY <1>4, TotalNat
  <2> DEFINE x == f[t + 1]
  <2>7. x \in Nat \ {0} /\ x <= Total(f)
    BY <2>3, <2>4, <2>5
  <2> HIDE DEF x
  <2> QED BY <2>6, <2>7
<1>8. unacknowledged = <<>> <=> D = {}
  BY <1>2
<1> QED BY <1>3, <1>6, <1>7, <1>8 DEF NeverStarved

\* The sending half keeps its types: no counter of bytes is ever negative, the
\* resend queue is never longer than MaxNackQueueSize and every mark of the
\* set is in the queue (conn.go, enqueueResendsLocked).
THEOREM PacingTypeCorrect == Spec => []TypeOK
BY PacingInvariant, PacingTypes, PTL

\* resendMap.inFlightBytes is the sum of the lengths of the records, whatever
\* is sent, resent, lost or acknowledged twice.
THEOREM FlightCounted == Spec => []InFlightExact
<1>1. PacingInv => InFlightExact
  BY DEF PacingInv
<1> QED BY <1>1, PacingInvariant, PTL

\* In slow start no more than the window and the rest of one datagram is in
\* flight (GetTransmissionBandwidth, queueOrSend, the flushes).
THEOREM WindowKept == Spec => []SlowStartWindowKept
<1>1. PacingInv => SlowStartWindowKept
  BY DEF PacingInv, BudgetOK, SlowStartWindowKept
<1> QED BY <1>1, PacingInvariant, PTL

\* No history of losses and acknowledgements leaves a connection without the
\* budget it needs (capMinSnd, the minimal windows).
THEOREM BudgetsReturn == Spec => []NeverStarved
BY PacingInvariant, PacingStarved, PTL

\* The controller counts datagrams as the connection does, resends and pings
\* included (onDatagramSent).
THEOREM BlocksCounted == Spec => []BlocksFollowSeq
<1>1. PacingInv => BlocksFollowSeq
  BY DEF PacingInv, ControllerOK, BlocksFollowSeq
<1> QED BY <1>1, PacingInvariant, PTL
=============================================================================

----------------------- MODULE AcknowledgementProofs ------------------------
(***************************************************************************)
(* Acknowledgements: the callback of a write runs once, and a set of       *)
(* numbers arrives as it was written, in as many packets as it takes.      *)
(***************************************************************************)
EXTENDS PacingProofs

\* The groups of the first o writes after x acknowledgements: a write is
\* called for once, and its group, if there still is one, is as many counts
\* away from one as a uint32 can be.
CallsOK(left, calls, o, x) ==
  /\ left \in [DOMAIN left -> Nat] /\ DOMAIN left \subseteq 0..(o - 1)
  /\ calls \in Seq(0..(o - 1))
  /\ \A j, k \in 1..Len(calls) : calls[j] = calls[k] => j = k
  /\ \A k \in 1..Len(calls) :
       calls[k] \in DOMAIN left => left[calls[k]] = 0 \/ left[calls[k]] + x >= UintMax

\* What holds after x acknowledgements holds after more.
LEMMA CallsLater ==
  ASSUME NEW left, NEW calls, NEW o, NEW x \in Nat, NEW y \in Nat, x <= y, CallsOK(left, calls, o, x)
  PROVE  CallsOK(left, calls, o, y)
<1>1. ASSUME NEW k \in 1..Len(calls), calls[k] \in DOMAIN left
      PROVE  left[calls[k]] = 0 \/ left[calls[k]] + y >= UintMax
  <2> DEFINE z == left[calls[k]]
  <2>1. z \in Nat /\ (z = 0 \/ z + x >= UintMax)
    BY <1>1 DEF CallsOK
  <2> HIDE DEF z
  <2>2. z = 0 \/ z + y >= UintMax
    BY <2>1 DEF UintMax
  <2> QED BY <2>2 DEF z
<1> QED BY <1>1 DEF CallsOK

\* A packet of a group that is not the last one is counted down.
LEMMA CallsLess ==
  ASSUME NEW left, NEW calls, NEW o, NEW x \in Nat, CallsOK(left, calls, o, x),
         NEW a \in DOMAIN left
  PROVE  CallsOK([left EXCEPT ![a] = Less(@)], calls, o, x + 1)
<1> DEFINE m == [left EXCEPT ![a] = Less(left[a])]
<1>1. left \in [DOMAIN left -> Nat]
  BY DEF CallsOK
<1>2. \A z \in Nat : Less(z) \in Nat
  BY DEF Less, UintMax
<1>3. DOMAIN m = DOMAIN left /\ m \in [DOMAIN left -> Nat]
      /\ m[a] = Less(left[a]) /\ \A b \in DOMAIN left : b # a => m[b] = left[b]
  BY <1>1, <1>2
<1> HIDE DEF m
<1>4. ASSUME NEW k \in 1..Len(calls), calls[k] \in DOMAIN m
      PROVE  m[calls[k]] = 0 \/ m[calls[k]] + (x + 1) >= UintMax
  <2> DEFINE z == left[calls[k]]
  <2>1. z \in Nat /\ (z = 0 \/ z + x >= UintMax)
    BY <1>3, <1>4, <1>1 DEF CallsOK
  <2>2. m[calls[k]] = z \/ m[calls[k]] = Less(z)
    BY <1>3, <1>4
  <2> DEFINE y == m[calls[k]]
  <2>3. y = z \/ y = Less(z)
    BY <2>2
  <2> HIDE DEF z, y
  <2>4. y = 0 \/ y + (x + 1) >= UintMax
    BY <2>1, <2>3 DEF Less, UintMax
  <2> QED BY <2>4 DEF y
<1>5. CallsOK(m, calls, o, x + 1)
  BY <1>3, <1>4 DEF CallsOK
<1> QED BY <1>5 DEF m

\* The last packet of a group: the callback is called, and what is left under
\* the index stays away from one.
LEMMA CallsDone ==
  ASSUME NEW left, NEW calls, NEW o \in Nat, NEW x \in Nat, x + 1 < UintMax,
         CallsOK(left, calls, o, x), NEW a \in DOMAIN left, left[a] = 1, NEW B
  PROVE  CallsOK(Drop([left EXCEPT ![a] = 0], B), Append(calls, a), o, x + 1)
<1> DEFINE l == [left EXCEPT ![a] = 0]
           m == Drop(l, B)
           c == Append(calls, a)
           n == Len(calls)
           S == 0..(o - 1)
<1>1. /\ left \in [DOMAIN left -> Nat] /\ DOMAIN left \subseteq S /\ calls \in Seq(S) /\ n \in Nat
      /\ \A j, k \in 1..n : calls[j] = calls[k] => j = k
  BY DEF CallsOK
<1>2. DOMAIN l = DOMAIN left /\ l[a] = 0 /\ \A b \in DOMAIN left : b # a => l[b] = left[b]
  BY <1>1
<1>3. \A b \in DOMAIN left : l[b] \in Nat
  BY <1>1, <1>2
<1> HIDE DEF l
<1>4. DOMAIN m = DOMAIN left \ B /\ \A b \in DOMAIN m : m[b] = l[b]
  BY <1>2 DEF Drop
<1>5. m \in [DOMAIN m -> Nat]
  <2>1. m = [b \in DOMAIN left \ B |-> l[b]]
    BY <1>2 DEF Drop
  <2> QED BY <2>1, <1>3
<1> HIDE DEF m
<1>6. a \in S
  BY <1>1
<1>7. c \in Seq(S) /\ Len(c) = n + 1 /\ c[n + 1] = a /\ \A k \in 1..n : c[k] = calls[k]
  <2> HIDE DEF S
  <2> QED BY <1>1, <1>6
<1>8. \A k \in 1..n : calls[k] # a
  <2> SUFFICES ASSUME NEW k \in 1..n, calls[k] = a PROVE FALSE
    OBVIOUS
  <2>1. left[a] = 0 \/ left[a] + x >= UintMax
    BY DEF CallsOK
  <2> QED BY <2>1 DEF UintMax
<1> HIDE DEF c
<1>9. \A k \in 1..(n + 1) : k \in 1..n \/ k = n + 1
  BY <1>1
<1>10. ASSUME NEW j \in 1..(n + 1), NEW k \in 1..(n + 1), c[j] = c[k] PROVE j = k
  BY <1>1, <1>7, <1>8, <1>9, <1>10
<1>11. ASSUME NEW k \in 1..(n + 1), c[k] \in DOMAIN m
       PROVE  m[c[k]] = 0 \/ m[c[k]] + (x + 1) >= UintMax
  <2>1. CASE k = n + 1
    BY <2>1, <1>2, <1>4, <1>7, <1>11
  <2>2. CASE k \in 1..n
    <3>1. c[k] = calls[k] /\ calls[k] # a /\ calls[k] \in DOMAIN left
      BY <2>2, <1>4, <1>7, <1>8, <1>11
    <3> DEFINE z == left[calls[k]]
    <3>2. z \in Nat /\ (z = 0 \/ z + x >= UintMax)
      BY <2>2, <3>1, <1>1 DEF CallsOK
    <3>3. m[c[k]] = z
      BY <3>1, <1>2, <1>4, <1>11
    <3> HIDE DEF z
    <3> QED BY <3>2, <3>3 DEF UintMax
  <2> QED BY <2>1, <2>2, <1>9
<1>12. DOMAIN m \subseteq 0..(o - 1)
  BY <1>1, <1>4
<1> HIDE DEF n
<1>13. CallsOK(m, c, o, x + 1)
  BY <1>5, <1>7, <1>10, <1>11, <1>12 DEF CallsOK
<1> QED BY <1>13 DEF m, c, l

\* Groups and calls, as CountDown takes and returns them.
Groups(o) == [left : UNION {[D -> Nat] : D \in SUBSET (0..(o - 1))}, called : Seq(0..(o - 1))]

\* The members of Groups, field by field.
LEMMA GroupsOK ==
  ASSUME NEW o, NEW g
  PROVE  /\ g \in Groups(o) => /\ g = [left |-> g.left, called |-> g.called]
                               /\ g.left \in [DOMAIN g.left -> Nat]
                               /\ DOMAIN g.left \subseteq 0..(o - 1)
                               /\ g.called \in Seq(0..(o - 1))
         /\ \A left, calls, x : CallsOK(left, calls, o, x) => [left |-> left, called |-> calls] \in Groups(o)
<1>1. \A f, D : D \subseteq 0..(o - 1) /\ f \in [D -> Nat] => f \in UNION {[E -> Nat] : E \in SUBSET (0..(o - 1))}
  OBVIOUS
<1>2. ASSUME NEW f \in UNION {[E -> Nat] : E \in SUBSET (0..(o - 1))}
      PROVE  f \in [DOMAIN f -> Nat] /\ DOMAIN f \subseteq 0..(o - 1)
  OBVIOUS
<1>3. ASSUME g \in Groups(o)
      PROVE  /\ g = [left |-> g.left, called |-> g.called]
             /\ g.left \in UNION {[D -> Nat] : D \in SUBSET (0..(o - 1))}
             /\ g.called \in Seq(0..(o - 1))
  BY <1>3 DEF Groups
<1>4. ASSUME NEW left, NEW calls, NEW x, CallsOK(left, calls, o, x)
      PROVE  [left |-> left, called |-> calls] \in Groups(o)
  <2>1. left \in [DOMAIN left -> Nat] /\ DOMAIN left \subseteq 0..(o - 1) /\ calls \in Seq(0..(o - 1))
    BY <1>4 DEF CallsOK
  <2>2. left \in UNION {[E -> Nat] : E \in SUBSET (0..(o - 1))}
    BY <2>1, <1>1
  <2> QED BY <2>1, <2>2 DEF Groups
<1> QED BY <1>2, <1>3, <1>4

\* CountDown returns groups and calls.
LEMMA CountDownTypes ==
  ASSUME NEW o \in Nat, NEW g \in Groups(o), NEW p
  PROVE  CountDown(g, p) \in Groups(o)
<1> DEFINE a == p[1]
           T == UNION {[D -> Nat] : D \in SUBSET (0..(o - 1))}
           S == 0..(o - 1)
<1>1. /\ g = [left |-> g.left, called |-> g.called]
      /\ g.left \in [DOMAIN g.left -> Nat] /\ DOMAIN g.left \subseteq S /\ g.called \in Seq(S)
  BY GroupsOK
<1>2. CASE a \notin DOMAIN g.left
  BY <1>2 DEF CountDown
<1>3. CASE a \in DOMAIN g.left /\ g.left[a] # 1
  <2> DEFINE m == [g.left EXCEPT ![a] = Less(g.left[a])]
  <2>1. CountDown(g, p) = [g EXCEPT !.left = m]
    BY <1>3 DEF CountDown
  <2>2. Less(g.left[a]) \in Nat
    BY <1>1, <1>3 DEF Less, UintMax
  <2>3. m \in [DOMAIN g.left -> Nat]
    BY <2>2, <1>1, <1>3
  <2>4. m \in T
    BY <2>3, <1>1
  <2> HIDE DEF m
  <2> QED BY <2>1, <2>4 DEF Groups
<1>4. CASE a \in DOMAIN g.left /\ g.left[a] = 1
  <2> DEFINE l == [g.left EXCEPT ![a] = 0]
             m == Drop(l, {p[2]})
             c == Append(g.called, a)
  <2>1. CountDown(g, p) = [left |-> m, called |-> c]
    BY <1>4 DEF CountDown
  <2>2. l \in [DOMAIN g.left -> Nat]
    BY <1>1, <1>4
  <2>3. m \in [DOMAIN g.left \ {p[2]} -> Nat]
    <3> HIDE DEF l
    <3> QED BY <2>2 DEF Drop
  <2>4. m \in T
    <3> HIDE DEF m
    <3> QED BY <2>3, <1>1
  <2>5. c \in Seq(S)
    <3>1. a \in S
      BY <1>1, <1>4
    <3> HIDE DEF S
    <3> QED BY <3>1, <1>1
  <2> HIDE DEF m, c, T
  <2>6. m \in T /\ c \in Seq(0..(o - 1))
    BY <2>4, <2>5
  <2> QED BY <2>1, <2>6 DEF Groups, T
<1> QED BY <1>2, <1>3, <1>4

\* One packet is one count, under whatever order index its group is looked up.
LEMMA CountDownOK ==
  ASSUME NEW o \in Nat, NEW g \in Groups(o), NEW p, NEW x \in Nat, x + 1 < UintMax,
         CallsOK(g.left, g.called, o, x)
  PROVE  CallsOK(CountDown(g, p).left, CountDown(g, p).called, o, x + 1)
<1> DEFINE a == p[1]
<1>1. g = [left |-> g.left, called |-> g.called]
  BY GroupsOK
<1>2. CASE a \notin DOMAIN g.left
  <2>1. CountDown(g, p) = g
    BY <1>2 DEF CountDown
  <2>2. x + 1 \in Nat /\ x <= x + 1
    OBVIOUS
  <2> QED BY <2>1, <2>2, CallsLater
<1>3. CASE a \in DOMAIN g.left /\ g.left[a] # 1
  <2> DEFINE m == [g.left EXCEPT ![a] = Less(g.left[a])]
  <2>1. CountDown(g, p) = [g EXCEPT !.left = m]
    BY <1>3 DEF CountDown
  <2>2. CallsOK(m, g.called, o, x + 1)
    BY <1>3, CallsLess
  <2> HIDE DEF m
  <2>3. CountDown(g, p).left = m /\ CountDown(g, p).called = g.called
    BY <2>1, <1>1
  <2> QED BY <2>2, <2>3
<1>4. CASE a \in DOMAIN g.left /\ g.left[a] = 1
  <2> DEFINE m == Drop([g.left EXCEPT ![a] = 0], {p[2]})
             c == Append(g.called, a)
  <2>1. CountDown(g, p) = [left |-> m, called |-> c]
    BY <1>4 DEF CountDown
  <2>2. CallsOK(m, c, o, x + 1)
    BY <1>4, CallsDone
  <2> HIDE DEF m, c
  <2> QED BY <2>1, <2>2
<1> QED BY <1>2, <1>3, <1>4

\* The packets of an acknowledgement are as many counts.
LEMMA CountedDownOK ==
  ASSUME NEW order, Len(order) \in Nat, NEW seen, NEW left, NEW calls, NEW o \in Nat, NEW x \in Nat,
         x + Len(order) < UintMax, CallsOK(left, calls, o, x)
  PROVE  CallsOK(CountedDown(order, seen, left, calls).left,
                 CountedDown(order, seen, left, calls).called, o, x + Len(order))
<1> DEFINE n == Len(order)
           S == Groups(o)
           base == [left |-> left, called |-> calls]
           step == [p \in (1..n) \X S |-> CountDown(p[2], seen[order[p[1]]])]
           Eq(f) == f = [k \in 0..n |-> IF k = 0 THEN base ELSE CountDown(f[k - 1], seen[order[k]])]
           g == CHOOSE f : Eq(f)
<1>0. n \in Nat /\ base \in S
  BY GroupsOK
<1>1. step \in [(1..n) \X S -> S]
  <2>1. ASSUME NEW p \in (1..n) \X S PROVE CountDown(p[2], seen[order[p[1]]]) \in S
    BY CountDownTypes
  <2> HIDE DEF S
  <2> QED BY <2>1
<1>2. \A k \in 1..n, d \in S : step[<<k, d>>] = CountDown(d, seen[order[k]])
  <2> HIDE DEF S
  <2> QED OBVIOUS
<1>3. CountedDown(order, seen, left, calls) = g[n]
  BY DEF CountedDown
<1> HIDE DEF step, S, base
<1>4. PICK f : IsRecursive(f, n, S, base, step)
  <2> HIDE DEF n
  <2> QED BY <1>0, <1>1, Recursion
<1>5. Eq(f)
  <2>0. /\ f \in [0..n -> S] /\ f[0] = base
        /\ \A k \in 1..n : f[k] = step[<<k, f[k - 1]>>]
    BY <1>4 DEF IsRecursive
  <2>1. ASSUME NEW k \in 1..n PROVE f[k] = CountDown(f[k - 1], seen[order[k]])
    <3>1. k - 1 \in 0..n
      BY <1>0
    <3>2. f[k - 1] \in S
      BY <3>1, <2>0
    <3> QED BY <1>2, <2>0, <3>2
  <2>2. \A k \in 0..n : f[k] = IF k = 0 THEN base ELSE CountDown(f[k - 1], seen[order[k]])
    <3>1. \A k \in 0..n : k = 0 \/ k \in 1..n
      BY <1>0
    <3> QED BY <2>0, <2>1, <3>1
  <2> QED BY <2>0, <2>2
<1>6. Eq(g)
  <2> HIDE DEF Eq
  <2> QED BY <1>5
<1> HIDE DEF g
<1>7. g[0] = base /\ \A k \in 1..n : g[k] = CountDown(g[k - 1], seen[order[k]])
  <2>1. g = [k \in 0..n |-> IF k = 0 THEN base ELSE CountDown(g[k - 1], seen[order[k]])]
    BY <1>6
  <2>2. 0 \in 0..n /\ \A k \in 1..n : k \in 0..n /\ k # 0
    BY <1>0
  <2> QED BY <2>1, <2>2
<1> DEFINE P(k) == g[k] \in S /\ CallsOK(g[k].left, g[k].called, o, x + k)
           G == {k \in 0..n : P(k)}
<1>8. 0 \in G
  <2>1. base.left = left /\ base.called = calls /\ x + 0 = x
    BY DEF base
  <2>2. P(0)
    BY <2>1, <1>0, <1>7
  <2>3. 0 \in 0..n
    BY <1>0
  <2> HIDE DEF P
  <2> QED BY <2>2, <2>3
<1>9. ASSUME NEW m \in 0..(n - 1), m \in G PROVE m + 1 \in G
  <2>1. m + 1 \in 1..n /\ m + 1 \in 0..n /\ (m + 1) - 1 = m /\ x + m \in Nat
        /\ (x + m) + 1 < UintMax /\ (x + m) + 1 = x + (m + 1)
    BY <1>0 DEF UintMax
  <2>2. g[m] \in S /\ CallsOK(g[m].left, g[m].called, o, x + m)
    BY <1>9
  <2>3. g[m + 1] = CountDown(g[m], seen[order[m + 1]])
    BY <2>1, <1>7
  <2> DEFINE d == g[m]
             y == x + m
             p == seen[order[m + 1]]
  <2>4. d \in Groups(o) /\ y \in Nat /\ y + 1 < UintMax /\ CallsOK(d.left, d.called, o, y)
    BY <2>1, <2>2 DEF S
  <2> HIDE DEF d, y, p
  <2>5. CountDown(d, p) \in Groups(o)
    BY <2>4, CountDownTypes
  <2>6. CallsOK(CountDown(d, p).left, CountDown(d, p).called, o, y + 1)
    BY <2>4, CountDownOK
  <2>7. P(m + 1)
    BY <2>1, <2>3, <2>5, <2>6 DEF S, d, y, p
  <2> HIDE DEF P
  <2> QED BY <2>1, <2>7
<1>10. 0..n \subseteq G
  <2> HIDE DEF G, n
  <2> QED BY <1>0, <1>8, <1>9, IntervalInduction
<1>11. n \in 0..n
  BY <1>0
<1>12. P(n)
  <2> HIDE DEF P
  <2> QED BY <1>10, <1>11
<1> QED BY <1>3, <1>12

\* The numbers that were sent and have no record any more.
Gone == 0..(seq - 1) \ DOMAIN unacknowledged

\* Every number gone has counted down one group at most.
CalledInv == CallsOK(acknowledgements, called, orderIndex, Cardinality(Gone))

\* A number that has lost its record never gets it back: the numbers gone grow
\* by the ones an acknowledgement removes.
LEMMA GoneGrows ==
  ASSUME StateOK, StateOK', seq <= seq', NEW known, known \subseteq DOMAIN unacknowledged,
         DOMAIN unacknowledged' \subseteq (DOMAIN unacknowledged \ known) \cup seq..(seq' - 1)
  PROVE  /\ Cardinality(Gone) \in Nat /\ Cardinality(known) \in Nat /\ Cardinality(Gone') \in Nat
         /\ Cardinality(Gone) + Cardinality(known) <= seq
         /\ Cardinality(Gone) + Cardinality(known) <= Cardinality(Gone')
         /\ Cardinality(Gone) <= Cardinality(Gone')
<1>1. seq \in Nat /\ seq' \in Nat /\ DOMAIN unacknowledged \subseteq 0..(seq - 1)
  BY Constants DEF StateOK
<1> DEFINE A == Gone
           B == A \cup known
           C == Gone'
           I == 0..(seq - 1)
           J == 0..(seq' - 1)
<1>2. IsFiniteSet(I) /\ Cardinality(I) = seq
  <2>1. 0 \in Int /\ seq - 1 \in Int /\ 0 <= (seq - 1) + 1
    BY <1>1
  <2>2. IsFiniteSet(I) /\ Cardinality(I) = IF 0 > seq - 1 THEN 0 ELSE (seq - 1) - 0 + 1
    BY <2>1, FS_Interval
  <2> HIDE DEF I
  <2> QED BY <2>2, <1>1
<1>3. IsFiniteSet(J)
  BY <1>1, FS_Interval
<1>4. A \subseteq I /\ known \subseteq I /\ B \subseteq I /\ A \cap known = {} /\ C \subseteq J
  BY <1>1 DEF Gone
<1>5. B \subseteq C
  <2> SUFFICES ASSUME NEW t \in B PROVE t \in C
    OBVIOUS
  <2>1. t \in I /\ t \notin DOMAIN unacknowledged \ known
    BY <1>1 DEF Gone
  <2>2. t \in J /\ t \notin seq..(seq' - 1)
    <3>1. \A a, b \in Nat : a <= b => \A v \in 0..(a - 1) : v \in 0..(b - 1) /\ v \notin a..(b - 1)
      OBVIOUS
    <3> QED BY <3>1, <2>1, <1>1
  <2>3. t \notin DOMAIN unacknowledged'
    BY <2>1, <2>2
  <2> QED BY <2>2, <2>3 DEF Gone
<1> HIDE DEF A, B, C, I, J
<1>6. IsFiniteSet(A) /\ IsFiniteSet(known) /\ IsFiniteSet(B) /\ IsFiniteSet(C)
  BY <1>2, <1>3, <1>4, FS_Subset
<1>7. Cardinality(A) \in Nat /\ Cardinality(known) \in Nat /\ Cardinality(B) \in Nat /\ Cardinality(C) \in Nat
  BY <1>6, FS_CardinalityType
<1>8. Cardinality(B) = Cardinality(A) + Cardinality(known)
  <2>1. Cardinality(A \cup known) = Cardinality(A) + Cardinality(known) - Cardinality(A \cap known)
    BY <1>6, FS_Union
  <2>2. Cardinality(A \cap known) = 0
    BY <1>4, FS_EmptySet
  <2> QED BY <2>1, <2>2, <1>7 DEF B
<1>9. Cardinality(B) <= Cardinality(I)
  BY <1>2, <1>4, FS_Subset
<1>10. Cardinality(B) <= Cardinality(C)
  BY <1>5, <1>6, FS_Subset
<1> QED BY <1>2, <1>7, <1>8, <1>9, <1>10 DEF A, C

\* The same for a step that is no acknowledgement.
LEMMA GoneLater ==
  ASSUME StateOK, StateOK', Sends({})
  PROVE  Cardinality(Gone) \in Nat /\ Cardinality(Gone') \in Nat /\ Cardinality(Gone) <= Cardinality(Gone')
<1>1. seq <= seq' /\ {} \subseteq DOMAIN unacknowledged
      /\ DOMAIN unacknowledged' \subseteq (DOMAIN unacknowledged \ {}) \cup seq..(seq' - 1)
  BY DEF Sends
<1> QED BY <1>1, GoneGrows

\* A new connection has no groups.
LEMMA CalledInit ==
  ASSUME Init PROVE CalledInv
<1>1. acknowledgements = <<>> /\ called = <<>> /\ orderIndex = 0
  BY DEF Init
<1>2. DOMAIN acknowledgements = {} /\ acknowledgements \in [{} -> Nat]
  BY <1>1
<1>3. called \in Seq(0..(orderIndex - 1)) /\ Len(called) = 0
  BY <1>1
<1> QED BY <1>2, <1>3 DEF CalledInv, CallsOK

\* Steps that leave the groups alone.
LEMMA CalledIdle ==
  ASSUME CalledInv, StateOK, StateOK', Sends({}), UNCHANGED <<groupVars, orderIndex>>
  PROVE  CalledInv'
<1>1. acknowledgements' = acknowledgements /\ called' = called /\ orderIndex' = orderIndex
  BY DEF groupVars
<1> DEFINE x == Cardinality(Gone)
           y == Cardinality(Gone')
<1>2. x \in Nat /\ y \in Nat /\ x <= y
  BY GoneLater
<1>3. CallsOK(acknowledgements, called, orderIndex, x)
  BY DEF CalledInv
<1>4. CalledInv' <=> CallsOK(acknowledgements, called, orderIndex, y)
  BY <1>1 DEF CalledInv
<1> HIDE DEF x, y
<1> QED BY <1>2, <1>3, <1>4, CallsLater

\* A group for a new order index.
LEMMA CallsWrite ==
  ASSUME NEW left, NEW calls, NEW o \in Nat, NEW x, CallsOK(left, calls, o, x), NEW n \in Nat
  PROVE  CallsOK([a \in DOMAIN left \cup {o} |-> IF a = o THEN n ELSE left[a]], calls, o + 1, x)
<1> DEFINE m == [a \in DOMAIN left \cup {o} |-> IF a = o THEN n ELSE left[a]]
<1>1. left \in [DOMAIN left -> Nat] /\ DOMAIN left \subseteq 0..(o - 1)
      /\ calls \in Seq(0..(o - 1)) /\ Len(calls) \in Nat
  BY DEF CallsOK
<1>2. m \in [DOMAIN left \cup {o} -> Nat] /\ DOMAIN m = DOMAIN left \cup {o}
      /\ \A a \in DOMAIN left : a # o => m[a] = left[a]
  BY <1>1
<1>3. \A a \in 0..(o - 1) : a \in 0..((o + 1) - 1) /\ a # o
  OBVIOUS
<1>4. o \in 0..((o + 1) - 1)
  OBVIOUS
<1> HIDE DEF m
<1>5. DOMAIN m \subseteq 0..((o + 1) - 1)
  BY <1>1, <1>2, <1>3, <1>4
<1>6. \A k \in 1..Len(calls) : calls[k] \in 0..(o - 1)
  BY <1>1
<1>7. calls \in Seq(0..((o + 1) - 1))
  <2> DEFINE S == 0..((o + 1) - 1)
  <2>1. \A k \in 1..Len(calls) : calls[k] \in S
    BY <1>3, <1>6
  <2>2. calls \in [1..Len(calls) -> S]
    BY <2>1, <1>1
  <2> HIDE DEF S
  <2>3. calls \in Seq(S)
    BY <2>2, <1>1, FunctionSeq
  <2> QED BY <2>3 DEF S
<1>8. ASSUME NEW k \in 1..Len(calls), calls[k] \in DOMAIN m
      PROVE  m[calls[k]] = 0 \/ m[calls[k]] + x >= UintMax
  <2>1. calls[k] # o /\ calls[k] \in DOMAIN left /\ m[calls[k]] = left[calls[k]]
    BY <1>2, <1>3, <1>6, <1>8
  <2> QED BY <2>1 DEF CallsOK
<1>9. m \in [DOMAIN m -> Nat]
  BY <1>2
<1>10. CallsOK(m, calls, o + 1, x)
  BY <1>5, <1>7, <1>8, <1>9 DEF CallsOK
<1> QED BY <1>10 DEF m

\* writeWithACK registers its group under an index that was never called for.
LEMMA CalledWrite ==
  ASSUME CalledInv, StateOK, StateOK', Sends({}), NEW lengths \in Writes, Write(lengths)
  PROVE  CalledInv'
<1> DEFINE x == Cardinality(Gone)
           y == Cardinality(Gone')
<1>1. /\ orderIndex' = orderIndex + 1 /\ called' = called
      /\ acknowledgements' = [o \in DOMAIN acknowledgements \cup {orderIndex} |->
              IF o = orderIndex THEN Len(lengths) ELSE acknowledgements[o]]
  BY DEF Write
<1>2. x \in Nat /\ y \in Nat /\ x <= y
  BY GoneLater
<1>3. CallsOK(acknowledgements, called, orderIndex, x)
  BY DEF CalledInv
<1>4. CalledInv' <=> CallsOK(acknowledgements', called, orderIndex + 1, y)
  BY <1>1 DEF CalledInv
<1>5. orderIndex \in Nat
  BY Constants DEF StateOK
<1>6. Len(lengths) \in Nat
  <2>1. lengths \in Seq(1..MaxLength)
    BY MaxLengthOK
  <2> QED BY <2>1
<1> HIDE DEF x, y
<1>7. CallsOK(acknowledgements', called, orderIndex + 1, x)
  <2> DEFINE left == acknowledgements
             n == Len(lengths)
             m == [o \in DOMAIN left \cup {orderIndex} |-> IF o = orderIndex THEN n ELSE left[o]]
  <2>1. acknowledgements' = m
    BY <1>1
  <2> HIDE DEF n
  <2>2. n \in Nat
    BY <1>6 DEF n
  <2>3. CallsOK(m, called, orderIndex + 1, x)
    BY <2>2, <1>3, <1>5, CallsWrite
  <2> HIDE DEF m
  <2> QED BY <2>1, <2>3
<1> QED BY <1>2, <1>4, <1>7, CallsLater

\* handleACK counts down once for every record it removes.
LEMMA CalledHandleACK ==
  ASSUME MaxSeq < UintMax, CalledInv, StateOK, StateOK', NEW rtt \in RoundTrips, HandleACK(rtt),
         Sends(ReadPacket(Head(acks)))
  PROVE  CalledInv'
<1>1. PICK known : known = ReadPacket(Head(acks)) \cap DOMAIN unacknowledged
  OBVIOUS
<1>2. PICK order : order = Ascending(known)
  OBVIOUS
<1>3. orderIndex' = orderIndex
  BY DEF HandleACK
<1>4. PICK seen : /\ acknowledgements' = CountedDown(order, seen, acknowledgements, called).left
                  /\ called' = CountedDown(order, seen, acknowledgements, called).called
  BY <1>1, <1>2 DEF HandleACK
<1> DEFINE x == Cardinality(Gone)
           y == Cardinality(Gone')
           n == Cardinality(known)
<1>5. /\ x \in Nat /\ n \in Nat /\ y \in Nat /\ x + n <= seq /\ x + n <= y
  <2>1. /\ known \subseteq DOMAIN unacknowledged /\ seq <= seq'
        /\ DOMAIN unacknowledged' \subseteq (DOMAIN unacknowledged \ known) \cup seq..(seq' - 1)
    BY <1>1 DEF Sends
  <2> QED BY <2>1, GoneGrows
<1>6. Len(order) = n
  <2>1. seq \in Nat /\ DOMAIN unacknowledged \subseteq 0..(seq - 1)
    BY Constants DEF StateOK
  <2>2. known \in SUBSET Nat /\ IsFiniteSet(known)
    BY <1>1, <2>1, FiniteRecords
  <2> QED BY <1>2, <2>2, AscendingOK
<1>7. seq \in 0..MaxSeq /\ MaxSeq \in Nat /\ orderIndex \in Nat
  BY Constants DEF StateOK
<1>8. CallsOK(acknowledgements, called, orderIndex, x)
  BY DEF CalledInv
<1>9. CalledInv' <=> CallsOK(acknowledgements', called', orderIndex, y)
  BY <1>3 DEF CalledInv
<1> HIDE DEF x, y, n
<1>10. x + Len(order) < UintMax /\ Len(order) \in Nat /\ x + n \in Nat
  BY <1>5, <1>6, <1>7 DEF UintMax
<1>11. CallsOK(acknowledgements', called', orderIndex, x + n)
  BY <1>4, <1>5, <1>6, <1>7, <1>8, <1>10, CountedDownOK
<1> QED BY <1>5, <1>9, <1>10, <1>11, CallsLater

\* Every step keeps the invariant of the groups.
LEMMA CalledStep ==
  ASSUME MaxSeq < UintMax, PacingInv, CalledInv, [Next]_vars PROVE CalledInv'
<1>0. StateOK /\ StateOK'
  BY PacingStep DEF PacingInv
<1>1. ASSUME NEW lengths \in Writes, Write(lengths) PROVE CalledInv'
  BY <1>0, <1>1, PacingWrite, CalledWrite
<1>2. ASSUME UNCHANGED <<groupVars, orderIndex>>, Sends({}) PROVE CalledInv'
  BY <1>0, <1>2, CalledIdle
<1>3. CASE Ping
  <2>1. UNCHANGED <<groupVars, orderIndex>> /\ Sends({})
    BY <1>3, PacingPing DEF Ping
  <2> QED BY <2>1, <1>2
<1>4. ASSUME NEW elapsed \in Elapsed, Tick(elapsed) PROVE CalledInv'
  <2>1. UNCHANGED <<groupVars, orderIndex>>
    BY <1>4 DEF Tick
  <2>2. Sends({})
    BY <1>4, PacingTick
  <2> QED BY <2>1, <2>2, <1>2
<1>5. ASSUME UNCHANGED <<groupVars, orderIndex, seq, unacknowledged>> PROVE CalledInv'
  <2>1. seq \in Nat
    BY <1>0, Constants DEF StateOK
  <2>2. Sends({})
    BY <1>5, <2>1 DEF Sends
  <2> QED BY <1>2, <1>5, <2>2
<1>6. ASSUME NEW old \in SUBSET DOMAIN unacknowledged, CheckResend(old) PROVE CalledInv'
  <2>1. UNCHANGED <<groupVars, orderIndex, seq, unacknowledged>>
    BY <1>6 DEF CheckResend
  <2> QED BY <2>1, <1>5
<1>7. ASSUME NEW missing \in SUBSET DOMAIN unacknowledged, HandleNACK(missing) PROVE CalledInv'
  <2>1. UNCHANGED <<groupVars, orderIndex, seq, unacknowledged>>
    BY <1>7 DEF HandleNACK
  <2> QED BY <2>1, <1>5
<1>8. ASSUME NEW numbers, SendACK(numbers) PROVE CalledInv'
  <2>1. UNCHANGED <<groupVars, orderIndex, seq, unacknowledged>>
    BY <1>8 DEF SendACK
  <2> QED BY <2>1, <1>5
<1>9. CASE LoseACK
  <2>1. UNCHANGED <<groupVars, orderIndex, seq, unacknowledged>>
    BY <1>9 DEF LoseACK
  <2> QED BY <2>1, <1>5
<1>10. ASSUME NEW rtt \in RoundTrips, HandleACK(rtt) PROVE CalledInv'
  BY <1>0, <1>10, PacingHandleACK, CalledHandleACK
<1>11. CASE UNCHANGED vars
  <2>1. UNCHANGED <<groupVars, orderIndex, seq, unacknowledged>>
    BY <1>11 DEF vars, groupVars
  <2> QED BY <2>1, <1>5
<1> QED BY <1>1, <1>3, <1>4, <1>6, <1>7, <1>8, <1>9, <1>10, <1>11 DEF Next

\* The callback of OnACK is called at most once for a write, even when the
\* order index of a packet back in the pool is read, as long as fewer datagrams
\* are sent than it takes to count a uint32 down from its maximum (handleACK).
THEOREM CallbackOnce ==
  ASSUME MaxSeq < UintMax
  PROVE  Spec => []CalledOnce
<1>1. Init => CalledInv
  BY CalledInit
<1>2. PacingInv /\ CalledInv /\ [Next]_vars => CalledInv'
  BY CalledStep
<1>3. CalledInv => CalledOnce
  <2> SUFFICES ASSUME CalledInv PROVE CalledOnce
    OBVIOUS
  <2>1. DOMAIN called = 1..Len(called)
    BY DEF CalledInv, CallsOK
  <2> QED BY <2>1 DEF CalledInv, CallsOK, CalledOnce
<1> QED BY <1>1, <1>2, <1>3, PacingInvariant, PTL DEF Spec

\* A record of an acknowledgement whose numbers are the ones of the wire.
Ranges == [first : 0..(IndexSpace - 1), last : 0..(IndexSpace - 1)]

\* Records of ranges that do not end before they start.
IsRuns(records) ==
  /\ records \in Seq(Ranges)
  /\ \A i \in 1..Len(records) : records[i].first <= records[i].last

\* How many numbers each record stands for.
Counts(records) == [i \in 1..Len(records) |-> RangeWidth(records[i]) + 1]

\* A number of the wire is written as it is.
LEMMA OnWireSame ==
  ASSUME NEW x \in 0..(IndexSpace - 1)
  PROVE  OnWire(x) = x
<1>1. IndexSpace \in Nat \ {0}
  BY IndexSpaceAssumption
<1> QED BY <1>1 DEF OnWire

\* The width of a record.
LEMMA RunWidth ==
  ASSUME NEW r \in Ranges, r.first <= r.last
  PROVE  /\ OnWire(r.first) = r.first /\ OnWire(r.last) = r.last
         /\ RangeWidth(r) = r.last - r.first /\ RangeWidth(r) \in Nat
<1>1. r.first \in 0..(IndexSpace - 1) /\ r.last \in 0..(IndexSpace - 1)
  BY DEF Ranges
<1>2. OnWire(r.first) = r.first /\ OnWire(r.last) = r.last
  BY <1>1, OnWireSame
<1> DEFINE a == r.first
           b == r.last
<1>3. RangeWidth(r) = b - a
  BY <1>2 DEF RangeWidth
<1>4. a \in Nat /\ b \in Nat /\ a <= b
  BY <1>1
<1> HIDE DEF a, b
<1>5. RangeWidth(r) \in Nat
  BY <1>3, <1>4
<1> QED BY <1>2, <1>3, <1>5 DEF a, b

\* How many numbers the records stand for, one by one.
LEMMA CountsOK ==
  ASSUME NEW records, IsRuns(records)
  PROVE  /\ Len(records) \in Nat
         /\ Counts(records) \in Seq(Nat) /\ Len(Counts(records)) = Len(records)
         /\ \A i \in 1..Len(records) :
              /\ Counts(records)[i] = RangeWidth(records[i]) + 1 /\ RangeWidth(records[i]) \in Nat
              /\ Counts(records)[i] = (records[i].last - records[i].first) + 1
<1> DEFINE n == Len(records)
           c == [i \in 1..n |-> RangeWidth(records[i]) + 1]
<1>1. n \in Nat /\ \A i \in 1..n : records[i] \in Ranges /\ records[i].first <= records[i].last
  <2>1. records \in Seq(Ranges)
    BY DEF IsRuns
  <2> QED BY <2>1 DEF IsRuns
<1>2. \A i \in 1..n : RangeWidth(records[i]) \in Nat
                      /\ RangeWidth(records[i]) = records[i].last - records[i].first
  BY <1>1, RunWidth
<1>3. c \in [1..n -> Nat]
  BY <1>2
<1>4. \A i \in 1..n : c[i] = RangeWidth(records[i]) + 1
  OBVIOUS
<1>5. Counts(records) = c
  BY DEF Counts
<1> HIDE DEF c
<1>6. c \in Seq(Nat) /\ Len(c) = n
  <2> HIDE DEF n
  <2> QED BY <1>1, <1>3, FunctionSeq
<1> QED BY <1>1, <1>2, <1>4, <1>5, <1>6

\* read counts the numbers of the records before the k-th.
LEMMA CountUpToIs ==
  ASSUME NEW records, IsRuns(records), NEW k \in 0..Len(records)
  PROVE  CountUpTo(records, k) = Totals(Counts(records))[k]
<1> DEFINE c == Counts(records)
           T == Totals(c)
           Eq(f) == f = [i \in 0..k |-> IF i = 0 THEN 0 ELSE f[i - 1] + RangeWidth(records[i]) + 1]
           f == [i \in 0..k |-> T[i]]
           g == CHOOSE h : Eq(h)
<1>1. /\ Len(records) \in Nat /\ c \in Seq(Nat) /\ Len(c) = Len(records)
      /\ \A i \in 1..Len(records) : c[i] = RangeWidth(records[i]) + 1 /\ RangeWidth(records[i]) \in Nat
  BY CountsOK
<1>2. CountUpTo(records, k) = g[k]
  BY DEF CountUpTo
<1> HIDE DEF c
<1>3. /\ T \in [0..Len(c) -> Nat] /\ T[0] = 0
      /\ \A i \in 1..Len(c) : T[i] = T[i - 1] + c[i]
  BY <1>1, TotalsOK
<1> HIDE DEF T
<1>4. k \in Nat /\ 0 \in 0..k /\ k \in 0..k
      /\ \A i \in 1..k : i \in 1..Len(c) /\ i \in 0..k /\ i - 1 \in 0..k /\ i - 1 \in 0..Len(c) /\ i # 0
  BY <1>1
<1>5. \A i \in 1..k : T[i] = T[i - 1] + RangeWidth(records[i]) + 1
  <2> SUFFICES ASSUME NEW i \in 1..k PROVE T[i] = T[i - 1] + RangeWidth(records[i]) + 1
    OBVIOUS
  <2> DEFINE w == RangeWidth(records[i])
             t == T[i - 1]
  <2>1. w \in Nat /\ t \in Nat /\ T[i] = t + c[i] /\ c[i] = w + 1
    BY <1>1, <1>3, <1>4
  <2> HIDE DEF w, t
  <2>2. T[i] = t + w + 1
    BY <2>1
  <2> QED BY <2>2 DEF w, t
<1>6. Eq(f)
  <2>1. \A i \in 0..k : f[i] = T[i]
    OBVIOUS
  <2>2. DOMAIN f = 0..k /\ f = [i \in 0..k |-> f[i]]
    OBVIOUS
  <2> HIDE DEF f
  <2>3. ASSUME NEW i \in 0..k
        PROVE  f[i] = IF i = 0 THEN 0 ELSE f[i - 1] + RangeWidth(records[i]) + 1
    <3>1. CASE i = 0
      BY <3>1, <2>1, <1>3
    <3>2. CASE i # 0
      <4>1. i \in 1..k /\ i - 1 \in 0..k
        BY <3>2, <1>4
      <4> QED BY <3>2, <4>1, <2>1, <1>5
    <3> QED BY <3>1, <3>2
  <2> QED BY <2>2, <2>3
<1>7. Eq(g)
  <2> HIDE DEF Eq
  <2> QED BY <1>6
<1> HIDE DEF g
<1>8. g[0] = 0 /\ \A i \in 1..k : g[i] = g[i - 1] + RangeWidth(records[i]) + 1
  <2>1. g = [i \in 0..k |-> IF i = 0 THEN 0 ELSE g[i - 1] + RangeWidth(records[i]) + 1]
    BY <1>7
  <2> QED BY <2>1, <1>4
<1> DEFINE G == {i \in 0..k : g[i] = T[i]}
<1>9. 0 \in G
  BY <1>3, <1>4, <1>8
<1>10. ASSUME NEW m \in 0..(k - 1), m \in G PROVE m + 1 \in G
  <2>1. m + 1 \in 1..k /\ (m + 1) - 1 = m /\ m + 1 \in 0..k
    BY <1>4
  <2>2. g[m + 1] = g[m] + RangeWidth(records[m + 1]) + 1
    BY <2>1, <1>8
  <2>3. T[m + 1] = T[m] + RangeWidth(records[m + 1]) + 1
    BY <2>1, <1>5
  <2>4. g[m] = T[m]
    BY <1>10
  <2> QED BY <2>1, <2>2, <2>3, <2>4
<1>11. 0..k \subseteq G
  <2> HIDE DEF G
  <2> QED BY <1>4, <1>9, <1>10, IntervalInduction
<1> QED BY <1>2, <1>4, <1>11 DEF T, c

\* read takes a packet that stands for no more numbers than the limit.
LEMMA ReadableOK ==
  ASSUME NEW records, IsRuns(records), Total(Counts(records)) <= MaxAcknowledgementPackets
  PROVE  IsReadable(records)
<1> DEFINE c == Counts(records)
           T == Totals(c)
           n == Len(records)
<1>1. /\ n \in Nat /\ c \in Seq(Nat) /\ Len(c) = n
      /\ \A i \in 1..n : c[i] = RangeWidth(records[i]) + 1 /\ RangeWidth(records[i]) \in Nat
  BY CountsOK
<1>2. DOMAIN records = 1..n
  <2>1. records \in Seq(Ranges)
    BY DEF IsRuns
  <2> QED BY <2>1
<1>3. MaxAcknowledgementPackets \in Nat
  BY PacingAssumption
<1>4. ASSUME NEW k \in 1..n
      PROVE  LET before == CountUpTo(records, k - 1)
             IN  IF RangeWidth(records[k]) = 0
                 THEN before + 1 <= MaxAcknowledgementPackets
                 ELSE before + RangeWidth(records[k]) \in 0..MaxAcknowledgementPackets
  <2>1. k - 1 \in 0..n /\ k \in 0..n /\ k \in 1..Len(c) /\ k - 1 \in 0..Len(c) /\ n \in 0..n
        /\ k \in 0..Len(c) /\ k \in 0..n
    BY <1>1
  <2> DEFINE a == CountUpTo(records, k - 1)
             w == RangeWidth(records[k])
             M == MaxAcknowledgementPackets
  <2>2. a = T[k - 1]
    BY <2>1, CountUpToIs
  <2>3. w \in Nat /\ c[k] = w + 1
    BY <1>1
  <2> HIDE DEF c
  <2>4. T[k - 1] \in Nat /\ T[k] = T[k - 1] + c[k] /\ T[k] \in Nat
    BY <2>1, <1>1, TotalsOK
  <2>5. T[k] <= T[n]
    BY <2>1, <1>1, TotalsGrow
  <2>6. T[n] <= M /\ T[n] \in Nat
    <3>1. Total(c) = T[n]
      BY <1>1 DEF Total
    <3>2. Total(c) <= M
      BY DEF c
    <3> QED BY <3>1, <3>2, <1>1, TotalNat
  <2> DEFINE x == T[k]
             y == T[n]
             z == c[k]
  <2>7. a \in Nat /\ x = a + z /\ x \in Nat /\ x <= y /\ y <= M /\ y \in Nat /\ z = w + 1
    BY <2>2, <2>3, <2>4, <2>5, <2>6
  <2>8. M \in Nat
    BY <1>3
  <2> HIDE DEF a, w, x, y, z, M
  <2>9. IF w = 0 THEN a + 1 <= M ELSE a + w \in 0..M
    BY <2>3, <2>7, <2>8
  <2> QED BY <2>9 DEF a, w, M
<1> QED BY <1>2, <1>4 DEF IsReadable

\* read returns the numbers from the first to the last of every record.
LEMMA RunsRead ==
  ASSUME NEW records, IsRuns(records)
  PROVE  /\ ReadPacket(records) = UNION {records[i].first..records[i].last : i \in 1..Len(records)}
         /\ ReadPacket(records) \subseteq 0..(IndexSpace - 1)
         /\ IsFiniteSet(ReadPacket(records))
<1>1. \A i \in 1..Len(records) : records[i] \in Ranges /\ records[i].first <= records[i].last
  <2>1. records \in Seq(Ranges)
    BY DEF IsRuns
  <2> QED BY <2>1 DEF IsRuns
<1>2. \A i \in 1..Len(records) : OnWire(records[i].first) = records[i].first
                                 /\ OnWire(records[i].last) = records[i].last
  BY <1>1, RunWidth
<1>3. ReadPacket(records) = UNION {records[i].first..records[i].last : i \in 1..Len(records)}
  BY <1>2 DEF ReadPacket, NumbersUpTo
<1>4. \A i \in 1..Len(records) : records[i].first \in 0..(IndexSpace - 1) /\ records[i].last \in 0..(IndexSpace - 1)
  BY <1>1 DEF Ranges
<1>5. IndexSpace \in Nat
  BY IndexSpaceAssumption
<1>6. ASSUME NEW i \in 1..Len(records) PROVE records[i].first..records[i].last \subseteq 0..(IndexSpace - 1)
  <2> DEFINE a == records[i].first
             b == records[i].last
  <2>1. a \in 0..(IndexSpace - 1) /\ b \in 0..(IndexSpace - 1)
    BY <1>4
  <2> HIDE DEF a, b
  <2>2. a..b \subseteq 0..(IndexSpace - 1)
    BY <2>1, <1>5
  <2> QED BY <2>2 DEF a, b
<1>7. ReadPacket(records) \subseteq 0..(IndexSpace - 1)
  BY <1>3, <1>6
<1>8. IsFiniteSet(0..(IndexSpace - 1))
  BY <1>5, FS_Interval
<1>9. IsFiniteSet(ReadPacket(records))
  BY <1>7, <1>8, FS_Subset
<1> QED BY <1>3, <1>7, <1>9

\* One more record.
LEMMA RunsAppend ==
  ASSUME NEW records, IsRuns(records), NEW r \in Ranges, r.first <= r.last
  PROVE  /\ IsRuns(Append(records, r))
         /\ ReadPacket(Append(records, r)) = ReadPacket(records) \cup (r.first..r.last)
         /\ Total(Counts(Append(records, r))) = Total(Counts(records)) + ((r.last - r.first) + 1)
<1> DEFINE n == Len(records)
           h == Append(records, r)
<1>1. records \in Seq(Ranges) /\ n \in Nat
  BY DEF IsRuns
<1>2. h \in Seq(Ranges) /\ Len(h) = n + 1 /\ h[n + 1] = r /\ \A i \in 1..n : h[i] = records[i]
  BY <1>1
<1> HIDE DEF h
<1>3. (\A i \in 1..(n + 1) : i \in 1..n \/ i = n + 1) /\ n + 1 \in 1..(n + 1) /\ \A i \in 1..n : i \in 1..(n + 1)
  BY <1>1
<1>4. IsRuns(h)
  <2>1. \A i \in 1..Len(h) : h[i].first <= h[i].last
    BY <1>2, <1>3 DEF IsRuns
  <2> QED BY <2>1, <1>2 DEF IsRuns
<1>5. ReadPacket(h) = ReadPacket(records) \cup (r.first..r.last)
  <2>1. ReadPacket(h) = UNION {h[i].first..h[i].last : i \in 1..(n + 1)}
    BY <1>2, <1>4, RunsRead
  <2>2. ReadPacket(records) = UNION {records[i].first..records[i].last : i \in 1..n}
    BY RunsRead
  <2>3. \A x : x \in ReadPacket(h) <=> \E i \in 1..(n + 1) : x \in h[i].first..h[i].last
    BY <2>1
  <2>4. \A x : x \in ReadPacket(records) <=> \E i \in 1..n : x \in records[i].first..records[i].last
    BY <2>2
  <2>5. \A x : x \in ReadPacket(h) <=> x \in ReadPacket(records) \/ x \in r.first..r.last
    BY <2>3, <2>4, <1>2, <1>3
  <2> QED BY <2>5
<1> DEFINE a == Counts(records)
           b == Counts(h)
           z == (r.last - r.first) + 1
<1>6. a \in Seq(Nat) /\ Len(a) = n /\ \A i \in 1..n : a[i] = RangeWidth(records[i]) + 1
  BY CountsOK
<1>7. b \in Seq(Nat) /\ Len(b) = n + 1 /\ \A i \in 1..(n + 1) : b[i] = RangeWidth(h[i]) + 1
  BY <1>2, <1>4, CountsOK
<1>8. b[n + 1] = z
  BY <1>2, <1>3, <1>7, RunWidth
<1>9. \A i \in 1..n : b[i] = a[i]
  BY <1>2, <1>3, <1>6, <1>7
<1> HIDE DEF a, b, z
<1>10. Totals(b)[n + 1] = Totals(b)[n] + b[n + 1]
  <2>1. n + 1 \in 1..Len(b) /\ (n + 1) - 1 = n
    BY <1>1, <1>7
  <2> QED BY <2>1, <1>7, TotalsOK
<1>11. Totals(a)[n] = Totals(b)[n]
  <2>1. n \in 0..Len(a) /\ n <= Len(b) /\ n \in 0..n
    BY <1>1, <1>6, <1>7
  <2> QED BY <2>1, <1>6, <1>7, <1>9, TotalsPrefix
<1>12. Total(b) = Total(a) + z
  BY <1>6, <1>7, <1>8, <1>10, <1>11 DEF Total
<1> QED BY <1>4, <1>5, <1>12 DEF a, b, z, h

\* What write keeps while it takes numbers.
Writers == [size : Nat, n : Nat, full : BOOLEAN, range : Ranges, records : Seq(Ranges)]

\* The loop of write: full, the first number, the next of a range, a new range.
LEMMA TakeCases ==
  ASSUME NEW w \in Writers, NEW x \in 0..(IndexSpace - 1)
  PROVE  /\ w.full \/ w.size >= AckMTU - 7 => TakeNumber(w, x) = [w EXCEPT !.full = TRUE]
         /\ ~w.full /\ w.size < AckMTU - 7 /\ w.n = 0 =>
              TakeNumber(w, x) = [w EXCEPT !.n = 1, !.range = [first |-> x, last |-> x]]
         /\ ~w.full /\ w.size < AckMTU - 7 /\ w.n > 0 /\ x = w.range.last + 1 =>
              TakeNumber(w, x) = [w EXCEPT !.n = w.n + 1, !.range = [first |-> w.range.first, last |-> x]]
         /\ ~w.full /\ w.size < AckMTU - 7 /\ w.n > 0 /\ x # w.range.last + 1 =>
              TakeNumber(w, x) = [w EXCEPT !.n = w.n + 1, !.records = Append(w.records, w.range),
                                           !.size = w.size + RecordSize(w.range),
                                           !.range = [first |-> x, last |-> x]]
<1> DEFINE A == w.full
           B == w.size >= AckMTU - 7
           C == w.n = 0
           D == x = w.range.last + 1
<1>0. w.size \in Nat /\ w.n \in Nat /\ AckMTU \in Nat
  BY Constants DEF Writers
<1>1. (w.size < AckMTU - 7 <=> ~B) /\ (w.n > 0 <=> ~C)
  BY <1>0
<1>2. w.range \in Ranges
  BY DEF Writers
<1>3. [w.range EXCEPT !.last = x] = [first |-> w.range.first, last |-> x]
  BY <1>2 DEF Ranges
<1>4. ASSUME A \/ B PROVE TakeNumber(w, x) = [w EXCEPT !.full = TRUE]
  BY <1>1, <1>4 DEF TakeNumber
<1>5. ASSUME ~A, ~B, C PROVE TakeNumber(w, x) = [w EXCEPT !.n = 1, !.range = [first |-> x, last |-> x]]
  BY <1>1, <1>5 DEF TakeNumber
<1>6. ASSUME ~A, ~B, ~C, D
      PROVE  TakeNumber(w, x) = [w EXCEPT !.n = w.n + 1, !.range = [first |-> w.range.first, last |-> x]]
  <2>1. TakeNumber(w, x) = [w EXCEPT !.n = w.n + 1, !.range = [w.range EXCEPT !.last = x]]
    BY <1>1, <1>6 DEF TakeNumber
  <2> QED BY <2>1, <1>3
<1>7. ASSUME ~A, ~B, ~C, ~D
      PROVE  TakeNumber(w, x) = [w EXCEPT !.n = w.n + 1, !.records = Append(w.records, w.range),
                                           !.size = w.size + RecordSize(w.range),
                                           !.range = [first |-> x, last |-> x]]
  BY <1>1, <1>7 DEF TakeNumber
<1> QED BY <1>1, <1>4, <1>5, <1>6, <1>7

\* The loop of write keeps its types.
LEMMA TakeTypes ==
  ASSUME NEW w \in Writers, NEW x \in 0..(IndexSpace - 1)
  PROVE  TakeNumber(w, x) \in Writers
<1>0. /\ w.size \in Nat /\ w.n \in Nat /\ w.range \in Ranges /\ w.records \in Seq(Ranges)
      /\ w.full \in BOOLEAN /\ AckMTU \in Nat
  BY Constants DEF Writers
<1>1. [first |-> x, last |-> x] \in Ranges /\ [first |-> w.range.first, last |-> x] \in Ranges
  BY <1>0 DEF Ranges
<1>2. RecordSize(w.range) \in Nat
  BY DEF RecordSize, SingleSize, RangeSize
<1>3. Append(w.records, w.range) \in Seq(Ranges)
  BY <1>0
<1>4. w.n + 1 \in Nat /\ w.size + RecordSize(w.range) \in Nat
  BY <1>0, <1>2
<1>5. CASE w.full \/ w.size >= AckMTU - 7
  <2>1. TakeNumber(w, x) = [w EXCEPT !.full = TRUE]
    BY <1>5, TakeCases
  <2> QED BY <2>1 DEF Writers
<1>6. CASE ~w.full /\ w.size < AckMTU - 7 /\ w.n = 0
  <2>1. TakeNumber(w, x) = [w EXCEPT !.n = 1, !.range = [first |-> x, last |-> x]]
    BY <1>6, TakeCases
  <2> DEFINE q == [first |-> x, last |-> x]
  <2>2. q \in Ranges /\ 1 \in Nat
    BY <1>1
  <2> HIDE DEF q
  <2>3. [w EXCEPT !.n = 1, !.range = q] \in Writers
    BY <2>2 DEF Writers
  <2> QED BY <2>1, <2>3 DEF q
<1>7. CASE ~w.full /\ w.size < AckMTU - 7 /\ w.n > 0 /\ x = w.range.last + 1
  <2>1. TakeNumber(w, x) = [w EXCEPT !.n = w.n + 1, !.range = [first |-> w.range.first, last |-> x]]
    BY <1>7, TakeCases
  <2> QED BY <2>1, <1>1, <1>4 DEF Writers
<1>8. CASE ~w.full /\ w.size < AckMTU - 7 /\ w.n > 0 /\ x # w.range.last + 1
  <2>1. TakeNumber(w, x) = [w EXCEPT !.n = w.n + 1, !.records = Append(w.records, w.range),
                                           !.size = w.size + RecordSize(w.range),
                                           !.range = [first |-> x, last |-> x]]
    BY <1>8, TakeCases
  <2> QED BY <2>1, <1>1, <1>3, <1>4 DEF Writers
<1> QED BY <1>0, <1>5, <1>6, <1>7, <1>8

\* What write has of the first k of the numbers l.
HasTaken(w, l, k) ==
  /\ w \in Writers
  /\ k = 0 => w = Untaken
  /\ ~w.full => w.n = k
  /\ k > 0 => /\ w.n \in 1..k
              /\ IsRuns(w.records) /\ w.range.first <= w.range.last
              /\ ReadPacket(w.records) \cup (w.range.first..w.range.last) = {l[i] : i \in 1..w.n}
              /\ Total(Counts(w.records)) + ((w.range.last - w.range.first) + 1) = w.n

\* What is to be shown of one iteration.
LEMMA MakeTaken ==
  ASSUME NEW l, NEW m \in Nat, NEW v \in Writers, v.full \/ v.n = m + 1, v.n \in 1..(m + 1),
         IsRuns(v.records), v.range.first <= v.range.last,
         ReadPacket(v.records) \cup (v.range.first..v.range.last) = {l[i] : i \in 1..v.n},
         Total(Counts(v.records)) + ((v.range.last - v.range.first) + 1) = v.n
  PROVE  HasTaken(v, l, m + 1)
<1>1. m + 1 # 0
  OBVIOUS
<1>2. ~v.full => v.n = m + 1
  OBVIOUS
<1> QED BY <1>1, <1>2 DEF HasTaken

\* Before the loop there is room for a number.
LEMMA UntakenOK ==
  /\ Untaken \in Writers /\ Untaken.n = 0 /\ ~Untaken.full
  /\ Untaken.size < AckMTU - 7 /\ Untaken.records = <<>>
<1>1. 0 \in 0..(IndexSpace - 1)
  BY IndexSpaceAssumption
<1>2. [first |-> 0, last |-> 0] \in Ranges
  BY <1>1 DEF Ranges
<1>3. 3 < AckMTU - 7
  BY PacingAssumption
<1> QED BY <1>2, <1>3 DEF Untaken, Writers, HeaderSize

\* A packet without records.
LEMMA NoRuns ==
  /\ IsRuns(<<>>) /\ ReadPacket(<<>>) = {} /\ Total(Counts(<<>>)) = 0
<1> DEFINE e == <<>>
<1>1. e \in Seq(Ranges) /\ Len(e) = 0
  OBVIOUS
<1> HIDE DEF e
<1>2. IsRuns(e)
  BY <1>1 DEF IsRuns
<1>3. ReadPacket(e) = {}
  BY <1>1, <1>2, RunsRead
<1>4. Counts(e) \in Seq(Nat) /\ Len(Counts(e)) = 0
  BY <1>1, <1>2, CountsOK
<1>5. \A k \in 1..Len(Counts(e)) : Counts(e)[k] = 0
  BY <1>4
<1>6. Total(Counts(e)) = 0
  BY <1>4, <1>5, TotalZero
<1> QED BY <1>2, <1>3, <1>6 DEF e

\* An iteration of write takes the next number or finds the packet full.
LEMMA TakeStep ==
  ASSUME NEW l, NEW m \in Nat, NEW x \in 0..(IndexSpace - 1), x = l[m + 1],
         NEW w, HasTaken(w, l, m)
  PROVE  HasTaken(TakeNumber(w, x), l, m + 1)
<1> DEFINE v == TakeNumber(w, x)
           a == w.range.first
           b == w.range.last
           n == w.n
           c == Total(Counts(w.records))
           R == ReadPacket(w.records)
<1>0. /\ w \in Writers /\ w.size \in Nat /\ n \in Nat /\ w.range \in Ranges
      /\ w.records \in Seq(Ranges) /\ AckMTU \in Nat /\ w.full \in BOOLEAN
  BY Constants DEF HasTaken, Writers
<1>1. a \in Nat /\ b \in Nat /\ x \in Nat /\ a \in 0..(IndexSpace - 1)
  BY <1>0, IndexSpaceAssumption DEF Ranges
<1>2. v \in Writers
  BY <1>0, TakeTypes
<1>3. m + 1 # 0 /\ m + 1 > 0 /\ m + 1 \in 1..(m + 1)
  OBVIOUS
<1>4. CASE w.full \/ w.size >= AckMTU - 7
  <2>1. v = [w EXCEPT !.full = TRUE]
    BY <1>0, <1>4, TakeCases
  <2>2. v.full /\ v.n = w.n /\ v.range = w.range /\ v.records = w.records
    BY <2>1, <1>0 DEF Writers
  <2>3. m > 0
    <3> SUFFICES ASSUME m = 0 PROVE FALSE
      OBVIOUS
    <3>1. w = Untaken
      BY DEF HasTaken
    <3>2. ~w.full /\ w.size < AckMTU - 7
      BY <3>1, UntakenOK
    <3> QED BY <3>2, <1>0, <1>4
  <2>4. n \in 1..m
    BY <2>3 DEF HasTaken
  <2>5. n \in 1..(m + 1)
    BY <2>4
  <2>6. /\ IsRuns(w.records) /\ w.range.first <= w.range.last
        /\ ReadPacket(w.records) \cup (w.range.first..w.range.last) = {l[i] : i \in 1..w.n}
        /\ Total(Counts(w.records)) + ((w.range.last - w.range.first) + 1) = w.n
    BY <2>3 DEF HasTaken
  <2> HIDE DEF v
  <2>7. /\ IsRuns(v.records) /\ v.range.first <= v.range.last
        /\ ReadPacket(v.records) \cup (v.range.first..v.range.last) = {l[i] : i \in 1..v.n}
        /\ Total(Counts(v.records)) + ((v.range.last - v.range.first) + 1) = v.n
        /\ v.n \in 1..(m + 1)
    BY <2>2, <2>5, <2>6
  <2>8. v.full \/ v.n = m + 1
    BY <2>2
  <2>9. HasTaken(v, l, m + 1)
    BY <1>2, <2>7, <2>8, MakeTaken
  <2> QED BY <2>9 DEF v
<1>5. CASE ~(w.full \/ w.size >= AckMTU - 7) /\ n = 0
  <2>0. ~w.full /\ w.size < AckMTU - 7 /\ w.n = 0
    BY <1>0, <1>5
  <2>1. v = [w EXCEPT !.n = 1, !.range = [first |-> x, last |-> x]]
    BY <1>0, <2>0, TakeCases, ZenonT(60)
  <2>2. m = 0 /\ w = Untaken
    BY <2>0 DEF HasTaken
  <2>3. v.n = 1 /\ v.range.first = x /\ v.range.last = x /\ v.records = <<>>
    BY <2>1, <2>2, <1>0, UntakenOK DEF Writers
  <2>4. {l[i] : i \in 1..1} = {x}
    BY <2>2
  <2>5. x..x = {x} /\ (x - x) + 1 = 1 /\ x <= x
    BY <1>1
  <2> HIDE DEF v
  <2>6. /\ ReadPacket(v.records) \cup (v.range.first..v.range.last) = {l[i] : i \in 1..v.n}
        /\ IsRuns(v.records)
        /\ Total(Counts(v.records)) + ((v.range.last - v.range.first) + 1) = v.n
    <3>1. ReadPacket(v.records) = {} /\ IsRuns(v.records) /\ Total(Counts(v.records)) = 0
      BY <2>3, NoRuns
    <3>2. (v.range.last - v.range.first) + 1 = 1 /\ v.range.first..v.range.last = {x}
      BY <2>3, <2>5
    <3>3. {l[i] : i \in 1..v.n} = {x}
      BY <2>3, <2>4
    <3>4. ReadPacket(v.records) \cup (v.range.first..v.range.last) = {l[i] : i \in 1..v.n}
      BY <3>1, <3>2, <3>3
    <3>5. Total(Counts(v.records)) + ((v.range.last - v.range.first) + 1) = v.n
      BY <3>1, <3>2, <2>3
    <3> QED BY <3>1, <3>4, <3>5
  <2>7. v.n = m + 1 /\ v.n \in 1..(m + 1)
    BY <2>2, <2>3
  <2>8. v.range.first <= v.range.last
    BY <2>3, <2>5
  <2>9. HasTaken(v, l, m + 1)
    BY <1>2, <2>6, <2>7, <2>8, MakeTaken
  <2> QED BY <2>9 DEF v
<1>6. ASSUME ~(w.full \/ w.size >= AckMTU - 7), n # 0
      PROVE  /\ ~w.full /\ w.size < AckMTU - 7 /\ w.n > 0 /\ n = m /\ m > 0
             /\ IsRuns(w.records) /\ a <= b /\ R \cup (a..b) = {l[i] : i \in 1..m}
             /\ c + ((b - a) + 1) = m /\ c \in Nat
             /\ {l[i] : i \in 1..(m + 1)} = {l[i] : i \in 1..m} \cup {x}
  <2>1. ~w.full /\ w.size < AckMTU - 7 /\ w.n > 0
    BY <1>0, <1>6
  <2>2. n = m
    BY <2>1 DEF HasTaken
  <2>3. m > 0
    BY <2>1, <2>2
  <2>4. /\ IsRuns(w.records) /\ a <= b /\ R \cup (a..b) = {l[i] : i \in 1..m}
        /\ c + ((b - a) + 1) = m
    BY <2>2, <2>3 DEF HasTaken
  <2>5. c \in Nat
    BY <2>4, CountsOK, TotalNat
  <2>6. {l[i] : i \in 1..(m + 1)} = {l[i] : i \in 1..m} \cup {x}
    <3>1. \A i \in 1..(m + 1) : i \in 1..m \/ i = m + 1
      OBVIOUS
    <3>2. \A i \in 1..m : i \in 1..(m + 1)
      OBVIOUS
    <3> QED BY <3>1, <3>2, <1>3
  <2> QED BY <2>1, <2>2, <2>3, <2>4, <2>5, <2>6
<1>7. CASE ~(w.full \/ w.size >= AckMTU - 7) /\ n # 0 /\ x = b + 1
  <2>1. v = [w EXCEPT !.n = w.n + 1, !.range = [first |-> a, last |-> x]]
    BY <1>0, <1>6, <1>7, TakeCases
  <2>2. v.n = m + 1 /\ v.range.first = a /\ v.range.last = x /\ v.records = w.records
    BY <2>1, <1>0, <1>6, <1>7 DEF Writers
  <2>3. a <= b
    BY <1>6, <1>7
  <2>4. a..x = (a..b) \cup {x} /\ a <= x
    <3> HIDE DEF a, b
    <3> QED BY <2>3, <1>1, <1>7
  <2>5. R \cup (a..x) = {l[i] : i \in 1..(m + 1)}
    <3>1. R \cup (a..b) = {l[i] : i \in 1..m} /\ {l[i] : i \in 1..(m + 1)} = {l[i] : i \in 1..m} \cup {x}
      BY <1>6, <1>7
    <3> HIDE DEF a, b, R
    <3> QED BY <3>1, <2>4
  <2>6. c + ((x - a) + 1) = m + 1
    <3>1. c + ((b - a) + 1) = m /\ c \in Nat
      BY <1>6, <1>7
    <3> HIDE DEF a, b, c
    <3> QED BY <3>1, <1>1, <1>7
  <2>7. IsRuns(v.records)
    BY <2>2, <1>6, <1>7
  <2>8. /\ ReadPacket(v.records) \cup (v.range.first..v.range.last) = {l[i] : i \in 1..v.n}
        /\ Total(Counts(v.records)) + ((v.range.last - v.range.first) + 1) = v.n
        /\ v.range.first <= v.range.last /\ v.n \in 1..(m + 1)
    BY <2>2, <2>4, <2>5, <2>6, <1>3
  <2> HIDE DEF v
  <2>9. v.n = m + 1
    BY <2>2 DEF v
  <2>10. HasTaken(v, l, m + 1)
    BY <1>2, <2>7, <2>8, <2>9, MakeTaken
  <2> QED BY <2>10 DEF v
<1>8. CASE ~(w.full \/ w.size >= AckMTU - 7) /\ n # 0 /\ x # b + 1
  <2>1. v = [w EXCEPT !.n = w.n + 1, !.records = Append(w.records, w.range),
                                           !.size = w.size + RecordSize(w.range),
                                           !.range = [first |-> x, last |-> x]]
    BY <1>0, <1>6, <1>8, TakeCases
  <2>2. v.n = m + 1 /\ v.range.first = x /\ v.range.last = x /\ v.records = Append(w.records, w.range)
    BY <2>1, <1>0, <1>6, <1>8 DEF Writers
  <2>3. /\ IsRuns(v.records) /\ ReadPacket(v.records) = R \cup (a..b)
        /\ Total(Counts(v.records)) = c + ((b - a) + 1)
    BY <2>2, <1>0, <1>6, <1>8, RunsAppend
  <2>4. x..x = {x} /\ (x - x) + 1 = 1 /\ x <= x
    BY <1>1
  <2>5. ReadPacket(v.records) \cup (x..x) = {l[i] : i \in 1..(m + 1)}
    <3>1. R \cup (a..b) = {l[i] : i \in 1..m} /\ {l[i] : i \in 1..(m + 1)} = {l[i] : i \in 1..m} \cup {x}
      BY <1>6, <1>8
    <3> HIDE DEF a, b, R, v
    <3> QED BY <3>1, <2>3, <2>4
  <2>6. Total(Counts(v.records)) + ((x - x) + 1) = m + 1
    <3>1. Total(Counts(v.records)) = m
      BY <2>3, <1>6, <1>8
    <3> QED BY <3>1, <2>4
  <2>7. /\ ReadPacket(v.records) \cup (v.range.first..v.range.last) = {l[i] : i \in 1..v.n}
        /\ Total(Counts(v.records)) + ((v.range.last - v.range.first) + 1) = v.n
        /\ v.range.first <= v.range.last /\ v.n \in 1..(m + 1)
    BY <2>2, <2>4, <2>5, <2>6, <1>3
  <2> HIDE DEF v
  <2>8. v.n = m + 1 /\ IsRuns(v.records)
    BY <2>2, <2>3 DEF v
  <2>9. HasTaken(v, l, m + 1)
    BY <1>2, <2>7, <2>8, MakeTaken
  <2> QED BY <2>9 DEF v
<1> QED BY <1>4, <1>5, <1>7, <1>8

\* After the loop write has a prefix of the numbers.
LEMMA TakenOK ==
  ASSUME NEW l \in Seq(0..(IndexSpace - 1))
  PROVE  HasTaken(Taken(l), l, Len(l))
<1> DEFINE n == Len(l)
           S == Writers
           step == [p \in (1..n) \X S |-> TakeNumber(p[2], l[p[1]])]
           Eq(f) == f = [k \in 0..n |-> IF k = 0 THEN Untaken ELSE TakeNumber(f[k - 1], l[k])]
           g == CHOOSE f : Eq(f)
           I == 0..(IndexSpace - 1)
<1>0. n \in Nat /\ Untaken \in S /\ \A k \in 1..n : l[k] \in I
  <2> HIDE DEF I
  <2>1. l \in Seq(I)
    BY DEF I
  <2> QED BY <2>1, UntakenOK
<1>1. step \in [(1..n) \X S -> S]
  <2>1. ASSUME NEW p \in (1..n) \X S PROVE TakeNumber(p[2], l[p[1]]) \in S
    <3>1. p[1] \in 1..n /\ p[2] \in S
      OBVIOUS
    <3>2. l[p[1]] \in I
      BY <3>1, <1>0
    <3> QED BY <3>1, <3>2, TakeTypes
  <2> HIDE DEF S, I
  <2> QED BY <2>1
<1>2. \A k \in 1..n, d \in S : step[<<k, d>>] = TakeNumber(d, l[k])
  <2> HIDE DEF S
  <2> QED OBVIOUS
<1>3. Taken(l) = g[n]
  BY DEF Taken
<1> HIDE DEF step, S
<1>4. PICK f : IsRecursive(f, n, S, Untaken, step)
  <2> HIDE DEF n
  <2> QED BY <1>0, <1>1, Recursion
<1>5. Eq(f)
  <2>0. /\ f \in [0..n -> S] /\ f[0] = Untaken
        /\ \A k \in 1..n : f[k] = step[<<k, f[k - 1]>>]
    BY <1>4 DEF IsRecursive
  <2>1. ASSUME NEW k \in 1..n PROVE f[k] = TakeNumber(f[k - 1], l[k])
    <3>1. k - 1 \in 0..n
      BY <1>0
    <3>2. f[k - 1] \in S
      BY <3>1, <2>0
    <3> QED BY <1>2, <2>0, <3>2
  <2>2. \A k \in 0..n : f[k] = IF k = 0 THEN Untaken ELSE TakeNumber(f[k - 1], l[k])
    <3>1. \A k \in 0..n : k = 0 \/ k \in 1..n
      BY <1>0
    <3> QED BY <2>0, <2>1, <3>1
  <2> QED BY <2>0, <2>2
<1>6. Eq(g)
  <2> HIDE DEF Eq
  <2> QED BY <1>5
<1> HIDE DEF g
<1>7. g[0] = Untaken /\ \A k \in 1..n : g[k] = TakeNumber(g[k - 1], l[k])
  <2>1. g = [k \in 0..n |-> IF k = 0 THEN Untaken ELSE TakeNumber(g[k - 1], l[k])]
    BY <1>6
  <2>2. 0 \in 0..n /\ \A k \in 1..n : k \in 0..n /\ k # 0
    BY <1>0
  <2> QED BY <2>1, <2>2
<1> DEFINE G == {k \in 0..n : HasTaken(g[k], l, k)}
<1>8. 0 \in G
  <2>1. HasTaken(Untaken, l, 0)
    BY UntakenOK DEF HasTaken
  <2> QED BY <2>1, <1>0, <1>7
<1>9. ASSUME NEW m \in 0..(n - 1), m \in G PROVE m + 1 \in G
  <2>1. m + 1 \in 1..n /\ m + 1 \in 0..n /\ (m + 1) - 1 = m /\ m \in Nat
    BY <1>0
  <2>2. HasTaken(g[m], l, m)
    BY <1>9
  <2>3. g[m + 1] = TakeNumber(g[m], l[m + 1]) /\ l[m + 1] \in I
    BY <2>1, <1>0, <1>7
  <2> DEFINE w == g[m]
             x == l[m + 1]
  <2>4. HasTaken(w, l, m) /\ x \in 0..(IndexSpace - 1) /\ x = l[m + 1]
    BY <2>2, <2>3
  <2> HIDE DEF w, x
  <2>5. HasTaken(TakeNumber(w, x), l, m + 1)
    BY <2>1, <2>4, TakeStep
  <2> QED BY <2>1, <2>3, <2>5 DEF w, x
<1>10. 0..n \subseteq G
  <2> HIDE DEF G, n
  <2> QED BY <1>0, <1>8, <1>9, IntervalInduction
<1>11. n \in 0..n
  BY <1>0
<1> QED BY <1>3, <1>10, <1>11

\* The records of one packet, which stand for no more numbers than they have.
IsPacket(records) == IsRuns(records) /\ Total(Counts(records)) <= Cardinality(ReadPacket(records))

\* write takes at least one number, and its records read back as exactly the
\* numbers it took.
LEMMA WritePacketOK ==
  ASSUME NEW l \in Seq(0..(IndexSpace - 1)), Len(l) > 0,
         \A i, j \in 1..Len(l) : l[i] = l[j] => i = j
  PROVE  /\ WritePacket(l).n \in 1..Len(l)
         /\ IsPacket(WritePacket(l).records)
         /\ ReadPacket(WritePacket(l).records) = {l[i] : i \in 1..WritePacket(l).n}
<1> DEFINE w == Taken(l)
           q == Append(w.records, w.range)
           n == w.n
<1>0. Len(l) \in Nat
  OBVIOUS
<1>1. HasTaken(w, l, Len(l))
  BY TakenOK
<1>2. WritePacket(l).records = q /\ WritePacket(l).n = n
  BY DEF WritePacket
<1> HIDE DEF w
<1>3. /\ n \in 1..Len(l) /\ IsRuns(w.records) /\ w.range.first <= w.range.last
      /\ ReadPacket(w.records) \cup (w.range.first..w.range.last) = {l[i] : i \in 1..n}
      /\ Total(Counts(w.records)) + ((w.range.last - w.range.first) + 1) = n
      /\ w.range \in Ranges
  BY <1>1 DEF HasTaken, Writers
<1>4. IsRuns(q) /\ ReadPacket(q) = {l[i] : i \in 1..n} /\ Total(Counts(q)) = n
  BY <1>3, RunsAppend
<1> HIDE DEF q, n
<1>5. n <= Cardinality(ReadPacket(q))
  <2> DEFINE T == ReadPacket(q)
             f == [i \in 1..n |-> l[i]]
  <2>1. n \in Nat /\ n <= Len(l)
    BY <1>0, <1>3 DEF n
  <2>2. \A i \in 1..n : i \in 1..Len(l)
    BY <2>1, <1>0
  <2>3. f \in [1..n -> T]
    BY <1>4
  <2>4. \A i, j \in 1..n : f[i] = f[j] => i = j
    BY <2>2
  <2>5. DOMAIN f = 1..n
    OBVIOUS
  <2> HIDE DEF f, T
  <2>6. f \in Injection(1..n, T)
    BY <2>3, <2>4, <2>5 DEF Injection, IsInjective
  <2>7. IsFiniteSet(T)
    BY <1>4, RunsRead DEF T
  <2>8. Cardinality(1..n) <= Cardinality(T)
    BY <2>6, <2>7, FS_Injection
  <2>9. Cardinality(1..n) = n
    <3>1. 1 \in Int /\ n \in Int
      BY <2>1
    <3>2. Cardinality(1..n) = IF 1 > n THEN 0 ELSE n - 1 + 1
      BY <3>1, FS_Interval
    <3> QED BY <3>2, <2>1
  <2> QED BY <2>8, <2>9 DEF T
<1> QED BY <1>2, <1>3, <1>4, <1>5 DEF IsPacket, n, q

\* f is defined by recursion down from n + 1, each value from a later one.
IsDownward(f, n, S, base, jump, step) ==
  /\ f \in [1..(n + 1) -> S] /\ f[n + 1] = base
  /\ \A k \in 1..n : f[k] = step[<<k, f[jump[k]]>>]

\* Such a function exists.
LEMMA DownRecursion ==
  ASSUME NEW n \in Nat, NEW S, NEW base \in S, NEW step \in [(1..n) \X S -> S],
         NEW jump \in [1..n -> Nat], \A k \in 1..n : jump[k] \in (k + 1)..(n + 1)
  PROVE  \E f : IsDownward(f, n, S, base, jump, step)
<1> DEFINE P(m) == \E f \in [((n + 1) - m)..(n + 1) -> S] :
                     /\ f[n + 1] = base
                     /\ \A k \in ((n + 1) - m)..n : f[k] = step[<<k, f[jump[k]]>>]
           G == {m \in 0..n : P(m)}
<1>1. P(0)
  <2> DEFINE f == [k \in ((n + 1) - 0)..(n + 1) |-> base]
  <2>1. f \in [((n + 1) - 0)..(n + 1) -> S] /\ f[n + 1] = base
        /\ \A k \in ((n + 1) - 0)..n : f[k] = step[<<k, f[jump[k]]>>]
    OBVIOUS
  <2> QED BY <2>1
<1>2. ASSUME NEW m \in 1..n, P(m - 1) PROVE P(m)
  <2>0. PICK a : a = (n + 1) - m
    OBVIOUS
  <2>1. a \in 1..n /\ (n + 1) - (m - 1) = a + 1
    BY <2>0
  <2>2. PICK f \in [(a + 1)..(n + 1) -> S] :
          f[n + 1] = base /\ \A k \in (a + 1)..n : f[k] = step[<<k, f[jump[k]]>>]
    BY <1>2, <2>1
  <2> DEFINE g == [k \in a..(n + 1) |-> IF k = a THEN step[<<a, f[jump[a]]>>] ELSE f[k]]
  <2>3. \A k \in a..n : jump[k] \in (a + 1)..(n + 1) /\ f[jump[k]] \in S
    <3> SUFFICES ASSUME NEW k \in a..n PROVE jump[k] \in (a + 1)..(n + 1)
      OBVIOUS
    <3>1. k \in 1..n
      BY <2>1
    <3>2. jump[k] \in (k + 1)..(n + 1)
      BY <3>1
    <3> QED BY <2>1, <3>2
  <2>4. step[<<a, f[jump[a]]>>] \in S
    <3>1. a \in a..n
      BY <2>1
    <3> QED BY <2>1, <2>3, <3>1
  <2>5. \A k \in a..(n + 1) : k = a \/ k \in (a + 1)..(n + 1)
    BY <2>1
  <2>6. g \in [a..(n + 1) -> S]
    BY <2>4, <2>5
  <2>7. \A k \in (a + 1)..(n + 1) : g[k] = f[k]
    BY <2>1
  <2>8. g[a] = step[<<a, f[jump[a]]>>]
    BY <2>1
  <2> HIDE DEF g
  <2>9. g[n + 1] = base
    BY <2>1, <2>2, <2>7
  <2>10. ASSUME NEW k \in a..n PROVE g[k] = step[<<k, g[jump[k]]>>]
    <3>1. g[jump[k]] = f[jump[k]]
      BY <2>3, <2>7
    <3>2. k = a \/ k \in (a + 1)..n
      BY <2>1
    <3>3. \A i \in (a + 1)..n : i \in (a + 1)..(n + 1)
      BY <2>1
    <3> QED BY <3>1, <3>2, <3>3, <2>2, <2>7, <2>8
  <2> QED BY <2>0, <2>6, <2>9, <2>10
<1> HIDE DEF P
<1>3. 0..n \subseteq G
  <2>1. 0 \in G
    BY <1>1
  <2>2. ASSUME NEW m \in 0..(n - 1), m \in G PROVE m + 1 \in G
    <3>1. m + 1 \in 1..n /\ (m + 1) - 1 = m /\ P(m)
      BY <2>2
    <3>2. P((m + 1) - 1)
      BY <3>1
    <3>3. P(m + 1)
      BY <3>1, <3>2, <1>2
    <3> QED BY <3>1, <3>3
  <2> HIDE DEF G
  <2> QED BY <2>1, <2>2, IntervalInduction
<1>4. P(n) /\ (n + 1) - n = 1
  BY <1>3
<1> QED BY <1>4 DEF P, IsDownward

\* Packets that can be read, that have no number in common, and the numbers of
\* all of them.
AcksOK(packets, T) ==
  /\ packets \in Seq(Seq(Ranges))
  /\ \A k \in 1..Len(packets) : IsPacket(packets[k])
  /\ \A j, k \in 1..Len(packets) :
       j # k => ReadPacket(packets[j]) \cap ReadPacket(packets[k]) = {}
  /\ T = UNION {ReadPacket(packets[k]) : k \in 1..Len(packets)}

\* No packets, no numbers.
LEMMA AcksNone == AcksOK(<<>>, {})
<1>1. <<>> \in Seq(Seq(Ranges)) /\ Len(<<>>) = 0
  OBVIOUS
<1>2. 1..0 = {}
  OBVIOUS
<1> QED BY <1>1, <1>2 DEF AcksOK

\* One more packet in front.
LEMMA AcksCons ==
  ASSUME NEW packets, NEW T, AcksOK(packets, T), NEW r \in Seq(Ranges), IsPacket(r),
         ReadPacket(r) \cap T = {}
  PROVE  AcksOK(<<r>> \o packets, ReadPacket(r) \cup T)
<1> DEFINE q == <<r>> \o packets
           n == Len(packets)
<1>1. packets \in Seq(Seq(Ranges)) /\ n \in Nat
  BY DEF AcksOK
<1>2. q \in Seq(Seq(Ranges)) /\ Len(q) = n + 1 /\ q[1] = r /\ \A k \in 1..n : q[k + 1] = packets[k]
  <2> DEFINE S == Seq(Ranges)
  <2>1. r \in S /\ packets \in Seq(S)
    BY <1>1
  <2> HIDE DEF S
  <2>2. q \in Seq(S) /\ Len(q) = n + 1 /\ q[1] = r /\ \A k \in 1..n : q[k + 1] = packets[k]
    BY <2>1
  <2> QED BY <2>2 DEF S
<1> HIDE DEF q
<1>3. \A k \in 1..Len(q) : k = 1 \/ (k - 1 \in 1..n /\ q[k] = packets[k - 1])
  <2> SUFFICES ASSUME NEW k \in 1..Len(q), k # 1 PROVE k - 1 \in 1..n /\ q[k] = packets[k - 1]
    OBVIOUS
  <2>1. k - 1 \in 1..n /\ (k - 1) + 1 = k
    BY <1>1, <1>2
  <2> QED BY <2>1, <1>2
<1>4. \A k \in 1..n : IsPacket(packets[k]) /\ ReadPacket(packets[k]) \subseteq T
  BY DEF AcksOK
<1>5. \A k \in 1..Len(q) : IsPacket(q[k])
  BY <1>2, <1>3, <1>4
<1>6. ASSUME NEW j \in 1..Len(q), NEW k \in 1..Len(q), j # k
      PROVE  ReadPacket(q[j]) \cap ReadPacket(q[k]) = {}
  <2>1. CASE j = 1
    <3>1. k - 1 \in 1..n /\ q[k] = packets[k - 1] /\ q[j] = r
      BY <1>2, <1>3, <1>6, <2>1
    <3> QED BY <3>1, <1>4
  <2>2. CASE k = 1
    <3>1. j - 1 \in 1..n /\ q[j] = packets[j - 1] /\ q[k] = r
      BY <1>2, <1>3, <1>6, <2>2
    <3> QED BY <3>1, <1>4
  <2>3. CASE j # 1 /\ k # 1
    <3>1. j - 1 \in 1..n /\ q[j] = packets[j - 1] /\ k - 1 \in 1..n /\ q[k] = packets[k - 1]
      BY <1>3, <2>3
    <3>2. j - 1 # k - 1
      BY <1>6
    <3> QED BY <3>1, <3>2 DEF AcksOK
  <2> QED BY <2>1, <2>2, <2>3
<1>7. ReadPacket(r) \cup T = UNION {ReadPacket(q[k]) : k \in 1..Len(q)}
  <2>1. T = UNION {ReadPacket(packets[k]) : k \in 1..n}
    BY DEF AcksOK
  <2>2. 1 \in 1..Len(q) /\ \A k \in 1..n : k + 1 \in 1..Len(q)
    BY <1>1, <1>2
  <2>3. ASSUME NEW x, x \in ReadPacket(r) \cup T PROVE \E k \in 1..Len(q) : x \in ReadPacket(q[k])
    <3>1. CASE x \in ReadPacket(r)
      BY <3>1, <2>2, <1>2
    <3>2. CASE x \in T
      <4>1. PICK k \in 1..n : x \in ReadPacket(packets[k])
        BY <2>1, <3>2
      <4> QED BY <4>1, <2>2, <1>2
    <3> QED BY <3>1, <3>2, <2>3
  <2>4. ASSUME NEW k \in 1..Len(q), NEW x \in ReadPacket(q[k]) PROVE x \in ReadPacket(r) \cup T
    BY <1>2, <1>3, <1>4
  <2> QED BY <2>3, <2>4
<1> QED BY <1>2, <1>5, <1>6, <1>7 DEF AcksOK, q

\* The first packet arrives or is lost.
LEMMA AcksTail ==
  ASSUME NEW packets, NEW T, AcksOK(packets, T), packets # <<>>
  PROVE  AcksOK(Tail(packets), T \ ReadPacket(Head(packets)))
<1> DEFINE q == Tail(packets)
           n == Len(packets)
           h == Head(packets)
<1>1. packets \in Seq(Seq(Ranges)) /\ n \in Nat
  BY DEF AcksOK
<1>2. /\ q \in Seq(Seq(Ranges)) /\ n \in Nat \ {0} /\ Len(q) = n - 1 /\ h = packets[1]
      /\ \A k \in 1..(n - 1) : q[k] = packets[k + 1]
  <2> DEFINE S == Seq(Ranges)
  <2>1. packets \in Seq(S)
    BY <1>1
  <2> HIDE DEF S
  <2>2. /\ q \in Seq(S) /\ n \in Nat \ {0} /\ Len(q) = n - 1 /\ h = packets[1]
        /\ \A k \in 1..(n - 1) : q[k] = packets[k + 1]
    BY <2>1
  <2> QED BY <2>2 DEF S
<1> HIDE DEF q, h
<1>3. \A k \in 1..Len(q) : k + 1 \in 1..n /\ k + 1 # 1 /\ q[k] = packets[k + 1]
  BY <1>2
<1>4. 1 \in 1..n /\ \A k \in 1..n : k = 1 \/ (k - 1 \in 1..Len(q) /\ q[k - 1] = packets[k])
  <2>1. 1 \in 1..n
    BY <1>2
  <2> SUFFICES ASSUME NEW k \in 1..n, k # 1 PROVE k - 1 \in 1..Len(q) /\ q[k - 1] = packets[k]
    BY <2>1
  <2>2. k - 1 \in 1..Len(q) /\ (k - 1) + 1 = k
    BY <1>2
  <2> QED BY <2>2, <1>3
<1>5. \A k \in 1..Len(q) : IsPacket(q[k])
  BY <1>3 DEF AcksOK
<1>6. ASSUME NEW j \in 1..Len(q), NEW k \in 1..Len(q), j # k
      PROVE  ReadPacket(q[j]) \cap ReadPacket(q[k]) = {}
  <2>1. j + 1 # k + 1
    BY <1>6
  <2> QED BY <1>3, <2>1 DEF AcksOK
<1>7. \A k \in 1..Len(q) : ReadPacket(q[k]) \cap ReadPacket(h) = {}
  BY <1>2, <1>3, <1>4 DEF AcksOK
<1>8. T \ ReadPacket(h) = UNION {ReadPacket(q[k]) : k \in 1..Len(q)}
  <2>1. T = UNION {ReadPacket(packets[k]) : k \in 1..n}
    BY DEF AcksOK
  <2>2. ASSUME NEW x, x \in T \ ReadPacket(h) PROVE \E k \in 1..Len(q) : x \in ReadPacket(q[k])
    <3>1. PICK k \in 1..n : x \in ReadPacket(packets[k])
      BY <2>1, <2>2
    <3>2. k # 1
      BY <3>1, <2>2, <1>2
    <3> QED BY <3>1, <3>2, <1>4
  <2>3. ASSUME NEW k \in 1..Len(q), NEW x \in ReadPacket(q[k]) PROVE x \in T \ ReadPacket(h)
    BY <2>1, <1>3, <1>7
  <2> QED BY <2>2, <2>3
<1> QED BY <1>2, <1>5, <1>6, <1>8 DEF AcksOK, q, h

\* The packet sendAcknowledgement writes when k - 1 numbers are written.
PacketFrom(l, k) == WritePacket(SubSeq(l, k, Len(l)))

\* Each packet of sendAcknowledgement goes on where the one before it ended.
LEMMA PacketFromOK ==
  ASSUME NEW l \in Seq(0..(IndexSpace - 1)), NEW k \in 1..Len(l),
         \A i, j \in 1..Len(l) : l[i] = l[j] => i = j
  PROVE  /\ PacketFrom(l, k).n \in Nat /\ k + PacketFrom(l, k).n \in (k + 1)..(Len(l) + 1)
         /\ PacketFrom(l, k).records \in Seq(Ranges) /\ IsPacket(PacketFrom(l, k).records)
         /\ ReadPacket(PacketFrom(l, k).records) = {l[i] : i \in k..((k + PacketFrom(l, k).n) - 1)}
<1> DEFINE I == 0..(IndexSpace - 1)
           n == Len(l)
           s == SubSeq(l, k, n)
           p == PacketFrom(l, k)
<1>1. n \in Nat /\ k \in 1..n /\ l \in Seq(I)
  OBVIOUS
<1>2. s \in Seq(I) /\ Len(s) = (n - k) + 1 /\ \A i \in 1..Len(s) : s[i] = l[(k + i) - 1]
  <2> HIDE DEF I
  <2>1. \A i \in k..n : l[i] \in I
    BY <1>1
  <2>2. s = [i \in 1..((n - k) + 1) |-> l[(k + i) - 1]]
    BY <1>1
  <2>3. \A i \in 1..((n - k) + 1) : (k + i) - 1 \in k..n
    BY <1>1
  <2>4. s \in [1..((n - k) + 1) -> I]
    BY <2>1, <2>2, <2>3
  <2>5. (n - k) + 1 \in Nat
    BY <1>1
  <2>6. \A i \in 1..((n - k) + 1) : s[i] = l[(k + i) - 1]
    BY <2>2
  <2> DEFINE d == (n - k) + 1
  <2> HIDE DEF s, d
  <2>7. s \in Seq(I) /\ Len(s) = d
    BY <2>4, <2>5, FunctionSeq DEF d
  <2> QED BY <2>6, <2>7 DEF d
<1> HIDE DEF s
<1>3. \A i, j \in 1..Len(s) : s[i] = s[j] => i = j
  <2> SUFFICES ASSUME NEW i \in 1..Len(s), NEW j \in 1..Len(s), s[i] = s[j] PROVE i = j
    OBVIOUS
  <2>1. (k + i) - 1 \in 1..n /\ (k + j) - 1 \in 1..n
    BY <1>1, <1>2
  <2>2. l[(k + i) - 1] = l[(k + j) - 1]
    BY <1>2
  <2>3. (k + i) - 1 = (k + j) - 1
    BY <2>1, <2>2
  <2> QED BY <2>3, <1>1
<1>4. Len(s) > 0
  BY <1>1, <1>2
<1>5. /\ p.n \in 1..Len(s) /\ IsPacket(p.records) /\ ReadPacket(p.records) = {s[i] : i \in 1..p.n}
  <2>1. p = WritePacket(s)
    BY DEF PacketFrom, s
  <2> QED BY <2>1, <1>2, <1>3, <1>4, WritePacketOK
<1> DEFINE m == p.n
           r == p.records
<1>6. m \in 1..Len(s) /\ IsPacket(r) /\ ReadPacket(r) = {s[i] : i \in 1..m}
  BY <1>5
<1> HIDE DEF m, r, n
<1>7. m \in Nat /\ k + m \in (k + 1)..(n + 1)
  BY <1>1, <1>2, <1>6
<1>8. {s[i] : i \in 1..m} = {l[i] : i \in k..((k + m) - 1)}
  <2>1. ASSUME NEW i \in 1..m PROVE (k + i) - 1 \in k..((k + m) - 1) /\ s[i] = l[(k + i) - 1]
    <3>1. i \in 1..Len(s)
      BY <1>1, <1>2, <1>6
    <3> QED BY <3>1, <1>1, <1>2, <1>7
  <2>2. ASSUME NEW i \in k..((k + m) - 1) PROVE (i - k) + 1 \in 1..m /\ l[i] = s[(i - k) + 1]
    <3>1. (i - k) + 1 \in 1..m /\ (k + ((i - k) + 1)) - 1 = i
      BY <1>1, <1>7
    <3> QED BY <3>1, <2>1
  <2> QED BY <2>1, <2>2
<1>9. r \in Seq(Ranges)
  BY <1>6 DEF IsPacket, IsRuns
<1> QED BY <1>6, <1>7, <1>8, <1>9 DEF m, r, n

\* The packets of sendAcknowledgement read back as the numbers it was given.
LEMMA PacketsForOK ==
  ASSUME NEW l \in Seq(0..(IndexSpace - 1)), \A i, j \in 1..Len(l) : l[i] = l[j] => i = j
  PROVE  AcksOK(PacketsFor(l), {l[i] : i \in 1..Len(l)})
<1> DEFINE n == Len(l)
           S == Seq(Seq(Ranges))
           W(k) == PacketFrom(l, k)
           jump == [k \in 1..n |-> k + W(k).n]
           step == [p \in (1..n) \X S |-> <<W(p[1]).records>> \o p[2]]
           Eq(f) == f = [k \in 1..(n + 1) |->
                           IF k > n THEN <<>> ELSE <<W(k).records>> \o f[k + W(k).n]]
           g == CHOOSE f : Eq(f)
           T(k) == {l[i] : i \in k..n}
<1>0. n \in Nat
  OBVIOUS
<1>1. PacketsFor(l) = g[1]
  BY DEF PacketsFor, PacketFrom
<1>2. \A k \in 1..n : /\ W(k).n \in Nat /\ k + W(k).n \in (k + 1)..(n + 1)
                      /\ W(k).records \in Seq(Ranges) /\ IsPacket(W(k).records)
                      /\ ReadPacket(W(k).records) = {l[i] : i \in k..((k + W(k).n) - 1)}
  BY PacketFromOK
<1> HIDE DEF W, n
<1>3. jump \in [1..n -> Nat] /\ \A k \in 1..n : jump[k] = k + W(k).n /\ jump[k] \in (k + 1)..(n + 1)
  <2>1. \A k \in 1..n : k + W(k).n \in Nat
    BY <1>2
  <2> QED BY <2>1, <1>2
<1>4. step \in [(1..n) \X S -> S]
  <2>1. ASSUME NEW p \in (1..n) \X S PROVE <<W(p[1]).records>> \o p[2] \in S
    <3> DEFINE R == Seq(Ranges)
    <3>1. p[1] \in 1..n /\ p[2] \in Seq(R)
      OBVIOUS
    <3>2. W(p[1]).records \in R
      BY <3>1, <1>2
    <3> HIDE DEF R
    <3>3. <<W(p[1]).records>> \o p[2] \in Seq(R)
      BY <3>1, <3>2
    <3> QED BY <3>3 DEF R
  <2> HIDE DEF S
  <2> QED BY <2>1
<1>5. \A k \in 1..n, d \in S : step[<<k, d>>] = <<W(k).records>> \o d
  <2> HIDE DEF S
  <2> QED OBVIOUS
<1>6. <<>> \in S
  OBVIOUS
<1> HIDE DEF step, S, jump
<1>7. PICK f : IsDownward(f, n, S, <<>>, jump, step)
  BY <1>0, <1>3, <1>4, <1>6, DownRecursion DEF n
<1>8. Eq(f)
  <2>0. /\ f \in [1..(n + 1) -> S] /\ f[n + 1] = <<>>
        /\ \A k \in 1..n : f[k] = step[<<k, f[jump[k]]>>]
    BY <1>7 DEF IsDownward
  <2>1. ASSUME NEW k \in 1..n PROVE f[k] = <<W(k).records>> \o f[k + W(k).n]
    <3>1. jump[k] = k + W(k).n /\ jump[k] \in 1..(n + 1)
      BY <1>0, <1>3 DEF n
    <3>2. f[jump[k]] \in S
      BY <3>1, <2>0
    <3>3. f[k] = <<W(k).records>> \o f[jump[k]]
      BY <1>5, <2>0, <3>2
    <3> QED BY <3>1, <3>3
  <2>2. \A k \in 1..(n + 1) : f[k] = IF k > n THEN <<>> ELSE <<W(k).records>> \o f[k + W(k).n]
    <3>1. \A k \in 1..(n + 1) : (k = n + 1 /\ k > n) \/ (k \in 1..n /\ ~(k > n))
      BY <1>0 DEF n
    <3> QED BY <2>0, <2>1, <3>1
  <2> QED BY <2>0, <2>2
<1>9. Eq(g)
  <2> HIDE DEF Eq
  <2> QED BY <1>8
<1> HIDE DEF g
<1>10. g[n + 1] = <<>> /\ \A k \in 1..n : g[k] = <<W(k).records>> \o g[k + W(k).n]
  <2>1. g = [k \in 1..(n + 1) |-> IF k > n THEN <<>> ELSE <<W(k).records>> \o g[k + W(k).n]]
    BY <1>9
  <2>2. n + 1 \in 1..(n + 1) /\ n + 1 > n /\ \A k \in 1..n : k \in 1..(n + 1) /\ ~(k > n)
    BY <1>0 DEF n
  <2> QED BY <2>1, <2>2
<1> DEFINE P(k) == AcksOK(g[k], T(k))
           G == {m \in 0..n : \A k \in ((n + 1) - m)..(n + 1) : P(k)}
<1>11. P(n + 1)
  <2>1. (n + 1)..n = {}
    BY <1>0 DEF n
  <2>2. T(n + 1) = {}
    BY <2>1
  <2> HIDE DEF T
  <2> QED BY <2>2, <1>10, AcksNone
<1>12. ASSUME NEW k \in 1..n, \A j \in (k + 1)..(n + 1) : P(j) PROVE P(k)
  <2> DEFINE r == W(k).records
             j == k + W(k).n
  <2>1. /\ W(k).n \in Nat /\ j \in (k + 1)..(n + 1) /\ r \in Seq(Ranges) /\ IsPacket(r)
        /\ ReadPacket(r) = {l[i] : i \in k..(j - 1)}
    BY <1>2
  <2>2. g[k] = <<r>> \o g[j]
    BY <1>10
  <2> HIDE DEF r, j
  <2>3. AcksOK(g[j], T(j))
    BY <1>12, <2>1
  <2>4. /\ \A i \in k..(j - 1) : i \in 1..n /\ i \in k..n /\ i \notin j..n
        /\ \A i \in j..n : i \in 1..n /\ i \in k..n
        /\ \A i \in k..n : i \in k..(j - 1) \/ i \in j..n
    BY <1>0, <2>1 DEF n
  <2>5. ReadPacket(r) \cap T(j) = {}
    <3> SUFFICES ASSUME NEW x \in ReadPacket(r), x \in T(j) PROVE FALSE
      OBVIOUS
    <3>1. PICK a \in k..(j - 1) : x = l[a]
      BY <2>1
    <3>2. PICK b \in j..n : x = l[b]
      OBVIOUS
    <3>3. a = b
      BY <3>1, <3>2, <2>4 DEF n
    <3> QED BY <3>3, <2>4
  <2>6. ReadPacket(r) \cup T(j) = T(k)
    BY <2>1, <2>4
  <2> HIDE DEF T
  <2>7. AcksOK(<<r>> \o g[j], ReadPacket(r) \cup T(j))
    BY <2>1, <2>3, <2>5, AcksCons
  <2> QED BY <2>2, <2>6, <2>7
<1> HIDE DEF P
<1>13. 0 \in G
  <2>1. 0 \in 0..n /\ \A k \in ((n + 1) - 0)..(n + 1) : k = n + 1
    BY <1>0 DEF n
  <2> QED BY <2>1, <1>11
<1>14. ASSUME NEW m \in 0..(n - 1), m \in G PROVE m + 1 \in G
  <2>1. m + 1 \in 0..n /\ n - m \in 1..n /\ (n + 1) - m = (n - m) + 1 /\ (n + 1) - (m + 1) = n - m
    BY <1>0 DEF n
  <2>2. \A k \in ((n - m) + 1)..(n + 1) : P(k)
    BY <1>14, <2>1
  <2>3. P(n - m)
    BY <1>12, <2>1, <2>2
  <2>4. \A k \in (n - m)..(n + 1) : k = n - m \/ k \in ((n - m) + 1)..(n + 1)
    <3>1. n \in Nat
      BY <1>0 DEF n
    <3> QED BY <2>1, <3>1
  <2>5. \A k \in (n - m)..(n + 1) : P(k)
    BY <2>2, <2>3, <2>4
  <2> QED BY <2>1, <2>5
<1>15. 0..n \subseteq G
  <2>1. n \in Nat
    BY <1>0 DEF n
  <2> HIDE DEF G
  <2> QED BY <2>1, <1>13, <1>14, IntervalInduction
<1>16. P(1)
  <2>1. n \in 0..n /\ 1 \in ((n + 1) - n)..(n + 1)
    BY <1>0 DEF n
  <2> QED BY <2>1, <1>15
<1> QED BY <1>1, <1>16 DEF P, n

\* The packets on their way have the numbers that were flushed.
AckInv == AcksOK(acks, flushed)

\* flushACKs, for numbers that have not wrapped.
LEMMA AckSend ==
  ASSUME MaxSeq <= IndexSpace, StateOK, NEW numbers \in SUBSET (0..(seq - 1)), SendACK(numbers)
  PROVE  AckInv'
<1> DEFINE I == 0..(IndexSpace - 1)
           a == Ascending(numbers)
           n == Cardinality(numbers)
<1>1. seq \in Nat /\ IndexSpace \in Nat /\ seq <= IndexSpace
  <2>1. seq \in 0..MaxSeq /\ MaxSeq \in Nat /\ IndexSpace \in Nat
    BY Constants, IndexSpaceAssumption DEF StateOK
  <2> QED BY <2>1
<1>2. numbers \subseteq I /\ numbers \in SUBSET Nat
  <2>1. \A x \in 0..(seq - 1) : x \in I /\ x \in Nat
    BY <1>1
  <2> HIDE DEF I
  <2> QED BY <2>1
<1>3. IsFiniteSet(numbers)
  <2>1. IsFiniteSet(0..(seq - 1))
    BY <1>1, FS_Interval
  <2> QED BY <2>1, FS_Subset
<1>4. /\ n \in Nat /\ a \in Seq(numbers) /\ Len(a) = n
      /\ \A i, j \in 1..n : a[i] = a[j] => i = j
      /\ \A x \in numbers : \E i \in 1..n : a[i] = x
  BY <1>2, <1>3, AscendingOK
<1>5. acks' = PacketsFor(a) /\ flushed' = numbers
  BY DEF SendACK, SendAcknowledgement
<1> HIDE DEF a, n, I
<1>6. a \in Seq(I)
  <2>1. a \in [1..n -> numbers]
    BY <1>4
  <2>2. a \in [1..n -> I]
    BY <1>2, <2>1
  <2> QED BY <1>4, <2>2, FunctionSeq
<1>7. AcksOK(PacketsFor(a), {a[i] : i \in 1..Len(a)})
  BY <1>4, <1>6, PacketsForOK DEF I
<1>8. {a[i] : i \in 1..Len(a)} = numbers
  <2>1. \A i \in 1..n : a[i] \in numbers
    BY <1>4
  <2>2. \A x \in numbers : \E i \in 1..n : a[i] = x
    BY <1>4
  <2>3. {a[i] : i \in 1..n} = numbers
    BY <2>1, <2>2, Zenon
  <2> QED BY <2>3, <1>4
<1> QED BY <1>5, <1>7, <1>8 DEF AckInv

\* Every step keeps what the packets on their way stand for.
LEMMA AckStep ==
  ASSUME MaxSeq <= IndexSpace, PacingInv, AckInv, [Next]_vars
  PROVE  AckInv'
<1>1. ASSUME UNCHANGED ackVars PROVE AckInv'
  BY <1>1 DEF AckInv, ackVars
<1>2. ASSUME NEW lengths \in Writes, Write(lengths) PROVE AckInv'
  BY <1>1, <1>2 DEF Write
<1>3. CASE Ping
  BY <1>1, <1>3 DEF Ping
<1>4. ASSUME NEW elapsed \in Elapsed, Tick(elapsed) PROVE AckInv'
  BY <1>1, <1>4 DEF Tick
<1>5. ASSUME NEW old \in SUBSET DOMAIN unacknowledged, CheckResend(old) PROVE AckInv'
  BY <1>1, <1>5 DEF CheckResend
<1>6. ASSUME NEW missing \in SUBSET DOMAIN unacknowledged, HandleNACK(missing) PROVE AckInv'
  BY <1>1, <1>6 DEF HandleNACK
<1>7. ASSUME NEW numbers \in SUBSET (0..(seq - 1)), SendACK(numbers) PROVE AckInv'
  BY <1>7, AckSend DEF PacingInv
<1>8. ASSUME acks # <<>>, acks' = Tail(acks), flushed' = flushed \ ReadPacket(Head(acks)) PROVE AckInv'
  <2>1. AcksOK(Tail(acks), flushed \ ReadPacket(Head(acks)))
    BY <1>8, AcksTail DEF AckInv
  <2> QED BY <1>8, <2>1 DEF AckInv
<1>9. CASE LoseACK
  BY <1>8, <1>9 DEF LoseACK
<1>10. ASSUME NEW rtt \in RoundTrips, HandleACK(rtt) PROVE AckInv'
  BY <1>8, <1>10 DEF HandleACK
<1>11. CASE UNCHANGED vars
  BY <1>1, <1>11 DEF vars, ackVars
<1> QED BY <1>2, <1>3, <1>4, <1>5, <1>6, <1>7, <1>9, <1>10, <1>11 DEF Next

\* Packets that stand for few enough numbers can be read.
LEMMA AckInvIntact ==
  ASSUME AckInv
  PROVE  AcknowledgementIntact
<1>1. acks \in Seq(Seq(Ranges)) /\ DOMAIN acks = 1..Len(acks) /\ Len(acks) \in Nat
  BY DEF AckInv, AcksOK
<1>2. \A k \in 1..Len(acks) : IsPacket(acks[k]) /\ ReadPacket(acks[k]) \subseteq flushed
  BY DEF AckInv, AcksOK
<1>3. ASSUME Cardinality(flushed) <= MaxAcknowledgementPackets, NEW k \in 1..Len(acks)
      PROVE  IsReadable(acks[k])
  <2> DEFINE r == acks[k]
             R == ReadPacket(r)
             c == Counts(r)
             I == 0..(IndexSpace - 1)
  <2>1. IsRuns(r) /\ Total(c) <= Cardinality(R) /\ R \subseteq flushed
    BY <1>2 DEF IsPacket
  <2>2. flushed \subseteq I
    <3>1. \A j \in 1..Len(acks) : ReadPacket(acks[j]) \subseteq I
      BY <1>2, RunsRead DEF IsPacket
    <3> HIDE DEF I
    <3> QED BY <3>1 DEF AckInv, AcksOK
  <2>3. IsFiniteSet(flushed)
    <3>1. IsFiniteSet(I)
      <4>1. 0 \in Int /\ IndexSpace - 1 \in Int
        BY IndexSpaceAssumption
      <4> QED BY <4>1, FS_Interval
    <3> QED BY <3>1, <2>2, FS_Subset
  <2>4. /\ IsFiniteSet(R) /\ Cardinality(R) <= Cardinality(flushed)
        /\ Cardinality(R) \in Nat /\ Cardinality(flushed) \in Nat
    <3> HIDE DEF R
    <3> QED BY <2>1, <2>3, FS_Subset, FS_CardinalityType
  <2>5. Total(c) \in Nat
    BY <2>1, CountsOK, TotalNat
  <2>6. MaxAcknowledgementPackets \in Nat
    BY PacingAssumption
  <2> HIDE DEF r, R
  <2>7. Total(Counts(r)) <= MaxAcknowledgementPackets
    BY <1>3, <2>1, <2>4, <2>5, <2>6
  <2>8. IsReadable(r)
    BY <2>1, <2>7, ReadableOK
  <2> QED BY <2>8 DEF r
<1> QED BY <1>1, <1>3 DEF AckInv, AcksOK, AcknowledgementIntact

\* An acknowledgement arrives as it was written, in however many packets, for
\* every MTU and limit, as long as no sequence number has wrapped
\* (acknowledgement.write and read, sendAcknowledgement).
THEOREM AcknowledgementsArrive ==
  ASSUME MaxSeq <= IndexSpace
  PROVE  Spec => []AcknowledgementIntact
<1>1. Init => AckInv
  BY AcksNone DEF Init, AckInv
<1>2. PacingInv /\ AckInv /\ [Next]_vars => AckInv'
  BY AckStep
<1>3. AckInv => AcknowledgementIntact
  BY AckInvIntact
<1> QED BY <1>1, <1>2, <1>3, PacingInvariant, PTL DEF Spec
=============================================================================

----------------------- MODULE ThreadSchedulerProofs -----------------------
(***************************************************************************)
(* The queues of the scheduler lose no thread and its times are right, for *)
(* any number of threads, any quantum and any time cap.                    *)
(***************************************************************************)
EXTENDS ThreadScheduler, FiniteSetTheorems, WellFoundedInduction, TLAPS

-----------------------------------------------------------------------------
(* Numbers and sums.                                                       *)

(* A set of numbers has a least one.                                       *)
LEMMA LeastOne == ASSUME NEW S \in SUBSET Nat, S # {}
                  PROVE  \E x \in S : \A y \in S : x <= y
<1> DEFINE R == OpToRel(<, Nat)
<1>1. \A x, y \in Nat : <<y, x>> \in R <=> y < x
  BY DEF OpToRel
<1>2. IsWellFoundedOn(R, Nat)
  BY NatLessThanWellFounded
<1> HIDE DEF R
<1>3. PICK x \in S : \A y \in S : ~(<<y, x>> \in R)
  BY <1>2, WFMin
<1>4. ASSUME NEW y \in S PROVE x <= y
  <2>1. x \in Nat /\ y \in Nat  OBVIOUS
  <2>2. ~(y < x)  BY <1>1, <1>3, <2>1
  <2> QED  BY <2>1, <2>2
<1> QED  BY <1>4

(* What holds of 0 and goes from each number to the next holds of all, up  *)
(* to N.                                                                   *)
LEMMA UpTo ==
    ASSUME NEW N \in Nat, NEW S, 0 \in S, \A n \in 0..N-1 : n \in S => n + 1 \in S
    PROVE  0..N \subseteq S
<1> DEFINE B == {n \in 0..N : n \notin S}
<1> SUFFICES ASSUME B # {} PROVE FALSE
  OBVIOUS
<1>1. B \in SUBSET Nat
  OBVIOUS
<1> HIDE DEF B
<1>2. PICK n \in B : \A y \in B : n <= y
  BY <1>1, LeastOne
<1>3. n \in 0..N /\ n \notin S /\ n # 0
  BY <1>2 DEF B
<1>4. n - 1 \in 0..N-1 /\ ~(n <= n - 1) /\ (n - 1) + 1 = n
  BY <1>3
<1>5. n - 1 \in S
  BY <1>2, <1>4 DEF B
<1> QED  BY <1>3, <1>4, <1>5

(* A value can be followed through any number of steps.                    *)
Steps(N, V, v0, F, s) ==
    /\ s \in [0..N -> V] /\ s[0] = v0
    /\ \A n \in 0..N-1 : s[n+1] = F[n+1][s[n]]
LEMMA StepsExist ==
    ASSUME NEW N \in Nat, NEW V, NEW v0 \in V, NEW F \in [1..N -> [V -> V]]
    PROVE  \E s : Steps(N, V, v0, F, s)
<1> DEFINE Part(m, s) ==
             /\ s \in [0..m -> V] /\ s[0] = v0
             /\ \A n \in 0..m-1 : s[n+1] = F[n+1][s[n]]
           S == {m \in 0..N : \E s : Part(m, s)}
<1>1. 0 \in S
  <2> DEFINE s == [n \in 0..0 |-> v0]
  <2>1. s \in [0..0 -> V] /\ s[0] = v0 /\ \A n \in 0..0-1 : FALSE
    OBVIOUS
  <2>2. Part(0, s)
    BY <2>1
  <2> HIDE DEF Part, s
  <2> QED  BY <2>2
<1>2. ASSUME NEW m \in 0..N-1, m \in S PROVE m + 1 \in S
  <2>1. PICK s : Part(m, s)
    BY <1>2
  <2> DEFINE x == F[m+1][s[m]]
             v == [n \in 0..m+1 |-> IF n = m + 1 THEN x ELSE s[n]]
  <2>2. x \in V
    <3>1. m + 1 \in 1..N /\ m \in 0..m
      OBVIOUS
    <3>2. s[m] \in V
      BY <2>1, <3>1
    <3> QED  BY <3>1, <3>2
  <2>3. x = F[m+1][s[m]]
    OBVIOUS
  <2> HIDE DEF x
  <2>4. v \in [0..m+1 -> V] /\ v[0] = v0
    BY <2>1, <2>2
  <2>5. ASSUME NEW n \in 0..m PROVE v[n+1] = F[n+1][v[n]]
    <3>1. n + 1 \in 0..m+1 /\ n \in 0..m+1 /\ n # m + 1 /\ (n = m <=> n + 1 = m + 1)
      OBVIOUS
    <3>2. v[n] = s[n]
      BY <3>1
    <3>3. CASE n = m
      BY <3>1, <3>2, <3>3, <2>3
    <3>4. CASE n # m
      <4>1. v[n + 1] = s[n + 1] /\ n \in 0..m-1
        BY <3>1, <3>4
      <4> QED  BY <2>1, <3>2, <4>1
    <3> QED  BY <3>3, <3>4
  <2>6. Part(m + 1, v)
    <3>1. (m + 1) - 1 = m
      OBVIOUS
    <3> HIDE DEF v
    <3> QED  BY <2>4, <2>5, <3>1
  <2>7. m + 1 \in 0..N
    OBVIOUS
  <2> HIDE DEF v, Part
  <2> QED  BY <2>6, <2>7
<1>3. 0..N \subseteq S
  <2> HIDE DEF S
  <2> QED  BY <1>1, <1>2, UpTo
<1>4. PICK s : Part(N, s)
  <2> HIDE DEF Part
  <2>1. N \in S
    <3> HIDE DEF S
    <3> QED  BY <1>3
  <2> QED  BY <2>1
<1> QED  BY <1>4 DEF Steps

(* The sums that lead to the total of the numbers g.                       *)
Sums(N, g, s) ==
    /\ s \in [0..N -> Int] /\ s[0] = 0
    /\ \A n \in 0..N-1 : s[n+1] = s[n] + g[n+1]
LEMMA TotalIs ==
    ASSUME NEW N \in Nat, NEW g \in [1..N -> Int]
    PROVE  \E s : Sums(N, g, s) /\ Total(g) = s[N]
<1> DEFINE F == [n \in 1..N |-> [v \in Int |-> v + g[n]]]
           Is(s) == s = [n \in 0..N |-> IF n = 0 THEN 0 ELSE s[n-1] + g[n]]
           s1 == CHOOSE s : Is(s)
<1>1. F \in [1..N -> [Int -> Int]]
  OBVIOUS
<1>2. \A n \in 1..N, v \in Int : F[n][v] = v + g[n]
  OBVIOUS
<1> HIDE DEF F
<1>3. PICK s : Steps(N, Int, 0, F, s)
  <2> HIDE DEF Is, s1
  <2>1. 0 \in Int
    OBVIOUS
  <2> QED  BY <1>1, <2>1, StepsExist
<1>4. Is(s)
  <2>1. ASSUME NEW n \in 0..N PROVE s[n] = IF n = 0 THEN 0 ELSE s[n-1] + g[n]
    <3>1. CASE n = 0
      BY <1>3, <3>1 DEF Steps
    <3>2. CASE n # 0
      <4>1. n - 1 \in 0..N-1 /\ (n - 1) + 1 = n /\ n \in 1..N /\ n - 1 \in 0..N
        BY <3>2
      <4>2. s[n-1] \in Int /\ s[n] = F[n][s[n-1]]
        BY <1>3, <4>1 DEF Steps
      <4> QED  BY <1>2, <3>2, <4>1, <4>2
    <3> QED  BY <3>1, <3>2
  <2>2. s \in [0..N -> Int]
    BY <1>3 DEF Steps
  <2> QED  BY <2>1, <2>2
<1>5. Is(s1)
  <2> HIDE DEF Is
  <2> QED  BY <1>4
<1>6. Total(g) = s1[N]
  <2>1. Len(g) = N
    OBVIOUS
  <2> QED  BY <2>1 DEF Total
<1> HIDE DEF s1
<1>7. s1[0] = 0 /\ \A n \in 0..N-1 : s1[n+1] = s1[n] + g[n+1]
  <2>1. ASSUME NEW n \in 0..N-1 PROVE s1[n+1] = s1[n] + g[n+1]
    <3>1. n + 1 \in 0..N /\ n + 1 # 0 /\ (n + 1) - 1 = n
      OBVIOUS
    <3> QED  BY <1>5, <3>1
  <2> QED  BY <1>5, <2>1
<1>8. s1 \in [0..N -> Int]
  <2> DEFINE S == {n \in 0..N : s1[n] \in Int}
  <2>1. 0 \in S
    BY <1>7
  <2>2. ASSUME NEW n \in 0..N-1, n \in S PROVE n + 1 \in S
    <3>1. n + 1 \in 1..N /\ n + 1 \in 0..N
      OBVIOUS
    <3>2. g[n+1] \in Int
      BY <3>1
    <3> QED  BY <1>7, <2>2, <3>1, <3>2
  <2> HIDE DEF S
  <2>3. 0..N \subseteq S
    BY <2>1, <2>2, UpTo
  <2>4. s1 = [n \in 0..N |-> s1[n]]
    BY <1>5
  <2> QED  BY <2>3, <2>4 DEF S
<1> HIDE DEF Is
<1> QED  BY <1>6, <1>7, <1>8 DEF Sums

(* Totals of numbers of which no one is negative, and of nothing but 0.    *)
LEMMA TotalNat ==
    ASSUME NEW N \in Nat, NEW g \in [1..N -> Nat]
    PROVE  Total(g) \in Nat /\ ((\A i \in 1..N : g[i] = 0) => Total(g) = 0)
<1>1. g \in [1..N -> Int]
  OBVIOUS
<1>2. PICK s : Sums(N, g, s) /\ Total(g) = s[N]
  BY <1>1, TotalIs
<1> DEFINE S == {n \in 0..N : s[n] \in Nat /\ ((\A i \in 1..N : g[i] = 0) => s[n] = 0)}
<1>3. 0 \in S
  BY <1>2 DEF Sums
<1>4. ASSUME NEW n \in 0..N-1, n \in S PROVE n + 1 \in S
  <2>1. n + 1 \in 1..N /\ n + 1 \in 0..N
    OBVIOUS
  <2>2. g[n+1] \in Nat /\ s[n+1] = s[n] + g[n+1]
    BY <1>2, <2>1 DEF Sums
  <2> QED  BY <1>4, <2>1, <2>2
<1> HIDE DEF S
<1>5. N \in S
  <2>1. 0..N \subseteq S
    BY <1>3, <1>4, UpTo
  <2> QED  BY <2>1
<1> QED  BY <1>2, <1>5 DEF S

(* The total of sums is the sum of the totals.                             *)
LEMMA TotalAdd ==
    ASSUME NEW N \in Nat, NEW f \in [1..N -> Int], NEW g \in [1..N -> Int],
           NEW h \in [1..N -> Int], \A i \in 1..N : h[i] = f[i] + g[i]
    PROVE  /\ Total(f) \in Int /\ Total(g) \in Int /\ Total(h) = Total(f) + Total(g)
<1>1. PICK s : Sums(N, f, s) /\ Total(f) = s[N]
  BY TotalIs
<1>2. PICK t : Sums(N, g, t) /\ Total(g) = t[N]
  BY TotalIs
<1>3. PICK u : Sums(N, h, u) /\ Total(h) = u[N]
  BY TotalIs
<1> DEFINE S == {n \in 0..N : u[n] = s[n] + t[n]}
<1>4. 0 \in S
  BY <1>1, <1>2, <1>3 DEF Sums
<1>5. ASSUME NEW n \in 0..N-1, n \in S PROVE n + 1 \in S
  <2>1. n + 1 \in 1..N /\ n + 1 \in 0..N /\ n \in 0..N
    OBVIOUS
  <2>2. /\ s[n+1] = s[n] + f[n+1] /\ t[n+1] = t[n] + g[n+1] /\ u[n+1] = u[n] + h[n+1]
        /\ s[n] \in Int /\ t[n] \in Int /\ u[n] \in Int
    BY <1>1, <1>2, <1>3, <2>1 DEF Sums
  <2>3. h[n+1] = f[n+1] + g[n+1] /\ f[n+1] \in Int /\ g[n+1] \in Int
    BY <2>1
  <2> QED  BY <1>5, <2>1, <2>2, <2>3
<1> HIDE DEF S
<1>6. N \in S
  <2>1. 0..N \subseteq S
    BY <1>4, <1>5, UpTo
  <2> QED  BY <2>1
<1>7. N \in 0..N
  OBVIOUS
<1> QED  BY <1>1, <1>2, <1>3, <1>6, <1>7 DEF S, Sums

(* Greater numbers have a greater total ...                                *)
LEMMA TotalLeq ==
    ASSUME NEW N \in Nat, NEW f \in [1..N -> Int], NEW g \in [1..N -> Int],
           \A i \in 1..N : f[i] <= g[i]
    PROVE  Total(f) \in Int /\ Total(g) \in Int /\ Total(f) <= Total(g)
<1> DEFINE d == [i \in 1..N |-> g[i] - f[i]]
<1>1. d \in [1..N -> Nat] /\ d \in [1..N -> Int] /\ \A i \in 1..N : g[i] = f[i] + d[i]
  OBVIOUS
<1> HIDE DEF d
<1>2. Total(d) \in Nat
  BY <1>1, TotalNat
<1>3. Total(f) \in Int /\ Total(g) = Total(f) + Total(d)
  BY <1>1, TotalAdd
<1> QED  BY <1>2, <1>3

(* ... and the same numbers the same.                                      *)
LEMMA TotalSame ==
    ASSUME NEW N \in Nat, NEW f \in [1..N -> Int], NEW g \in [1..N -> Int],
           \A i \in 1..N : f[i] = g[i]
    PROVE  Total(f) \in Int /\ Total(f) = Total(g)
<1>1. f = g
  OBVIOUS
<1> QED  BY <1>1, TotalLeq

(* One number alone.                                                       *)
LEMMA TotalOne ==
    ASSUME NEW N \in Nat, NEW a \in 1..N, NEW d \in Int
    PROVE  Total([i \in 1..N |-> IF i = a THEN d ELSE 0]) = d
<1> DEFINE g == [i \in 1..N |-> IF i = a THEN d ELSE 0]
<1>1. g \in [1..N -> Int] /\ \A i \in 1..N : g[i] = IF i = a THEN d ELSE 0
  OBVIOUS
<1> HIDE DEF g
<1>2. PICK s : Sums(N, g, s) /\ Total(g) = s[N]
  BY <1>1, TotalIs
<1> DEFINE S == {n \in 0..N : s[n] = IF n < a THEN 0 ELSE d}
<1>3. 0 \in S
  BY <1>2 DEF Sums
<1>4. ASSUME NEW n \in 0..N-1, n \in S PROVE n + 1 \in S
  <2>1. n + 1 \in 1..N /\ n + 1 \in 0..N
    OBVIOUS
  <2>2. s[n+1] = s[n] + IF n + 1 = a THEN d ELSE 0
    BY <1>1, <1>2, <2>1 DEF Sums
  <2> QED  BY <1>4, <2>1, <2>2
<1> HIDE DEF S
<1>5. N \in S
  <2>1. 0..N \subseteq S
    BY <1>3, <1>4, UpTo
  <2> QED  BY <2>1
<1> QED  BY <1>2, <1>5 DEF S, g

(* One number changed.                                                     *)
LEMMA TotalMore ==
    ASSUME NEW N \in Nat, NEW f \in [1..N -> Int], NEW g \in [1..N -> Int],
           NEW a \in 1..N, \A i \in 1..N : i # a => g[i] = f[i]
    PROVE  Total(f) \in Int /\ Total(g) = Total(f) + (g[a] - f[a])
<1> DEFINE d == g[a] - f[a]
           h == [i \in 1..N |-> IF i = a THEN d ELSE 0]
<1>1. d \in Int
  OBVIOUS
<1>2. h \in [1..N -> Int] /\ \A i \in 1..N : g[i] = f[i] + h[i]
  BY <1>1
<1>3. Total(h) = d
  <2> HIDE DEF d
  <2> QED  BY <1>1, TotalOne
<1> HIDE DEF h, d
<1>4. Total(f) \in Int /\ Total(g) = Total(f) + d
  BY <1>2, <1>3, TotalAdd
<1> QED  BY <1>4 DEF d

(* The numbers of a set, met one after the other in any order.             *)
Hit(q, m, t) == \E i \in 1..m : q[i] = t
AddsUp(N, m, q, f, a, c) ==
    /\ N \in Nat /\ m \in Nat /\ q \in [1..m -> 1..N] /\ f \in [1..N -> Int]
    /\ \A i, j \in 1..m : q[i] = q[j] => i = j
    /\ a \in [1..m -> Int] /\ \A i \in 1..m : a[i] = f[q[i]]
    /\ c \in [1..N -> Int] /\ \A t \in 1..N : c[t] = IF Hit(q, m, t) THEN f[t] ELSE 0
LEMMA TotalAlong ==
    ASSUME NEW N, NEW m, NEW q, NEW f, NEW a, NEW c, AddsUp(N, m, q, f, a, c)
    PROVE  Total(a) = Total(c)
<1> DEFINE g == [i \in 1..m |-> f[q[i]]]
           h(n) == [t \in 1..N |-> IF \E i \in 1..n : q[i] = t THEN f[t] ELSE 0]
<1>10. a = g
  <2>1. a = [i \in 1..m |-> a[i]] /\ \A i \in 1..m : a[i] = f[q[i]]
    BY DEF AddsUp
  <2> QED  BY <2>1
<1>11. c = h(m)
  <2>1. c = [t \in 1..N |-> c[t]] /\ \A t \in 1..N : c[t] = IF Hit(q, m, t) THEN f[t] ELSE 0
    BY DEF AddsUp
  <2> QED  BY <2>1 DEF Hit
<1> SUFFICES ASSUME N \in Nat, m \in Nat, q \in [1..m -> 1..N], f \in [1..N -> Int],
                    \A i, j \in 1..m : q[i] = q[j] => i = j
             PROVE  Total(g) = Total(h(m))
  BY <1>10, <1>11 DEF AddsUp
<1>1. g \in [1..m -> Int] /\ \A i \in 1..m : g[i] = f[q[i]]
  OBVIOUS
<1>2. \A n \in Nat : h(n) \in [1..N -> Int]
  OBVIOUS
<1>3. h(0) \in [1..N -> Nat] /\ \A t \in 1..N : h(0)[t] = 0
  OBVIOUS
<1>4. ASSUME NEW n \in 0..m-1, NEW t \in 1..N
      PROVE  h(n+1)[t] = IF t = q[n+1] THEN h(n)[t] + f[q[n+1]] ELSE h(n)[t]
  <2>1. n + 1 \in 1..m /\ \A i \in 1..n : i \in 1..m /\ i # n + 1 /\ i \in 1..n+1
    OBVIOUS
  <2>2. \A i \in 1..n+1 : i = n + 1 \/ i \in 1..n
    OBVIOUS
  <2>3. n + 1 \in 1..n+1
    OBVIOUS
  <2>4. CASE t = q[n+1]
    <3>1. ~\E i \in 1..n : q[i] = t
      BY <2>1, <2>4
    <3>2. \E i \in 1..n+1 : q[i] = t
      BY <2>3, <2>4
    <3>3. h(n)[t] = 0 /\ h(n+1)[t] = f[t]
      BY <3>1, <3>2
    <3>4. f[t] \in Int
      OBVIOUS
    <3> QED  BY <2>4, <3>3, <3>4
  <2>5. CASE t # q[n+1]
    <3>1. (\E i \in 1..n : q[i] = t) <=> \E i \in 1..n+1 : q[i] = t
      BY <2>1, <2>2, <2>5
    <3> QED  BY <2>5, <3>1
  <2> QED  BY <2>4, <2>5
<1> HIDE DEF g, h
<1>5. PICK s : Sums(m, g, s) /\ Total(g) = s[m]
  BY <1>1, TotalIs
<1> DEFINE S == {n \in 0..m : s[n] = Total(h(n))}
<1>6. 0 \in S
  <2>1. Total(h(0)) = 0
    BY <1>3, TotalNat
  <2> QED  BY <1>5, <2>1 DEF Sums
<1>7. ASSUME NEW n \in 0..m-1, n \in S PROVE n + 1 \in S
  <2>1. n + 1 \in 1..m /\ n + 1 \in 0..m /\ n \in Nat /\ n + 1 \in Nat
    OBVIOUS
  <2>2. s[n+1] = s[n] + f[q[n+1]] /\ q[n+1] \in 1..N /\ f[q[n+1]] \in Int
    BY <1>1, <1>5, <2>1 DEF Sums
  <2> DEFINE last == q[n+1]
             x == h(n)
             y == h(n+1)
  <2>3. x \in [1..N -> Int] /\ y \in [1..N -> Int] /\ last \in 1..N /\ f[last] \in Int
    BY <1>2, <2>1, <2>2
  <2>4. y[last] = x[last] + f[last]
    BY <1>4, <2>3
  <2>5. \A t \in 1..N : t # last => y[t] = x[t]
    BY <1>4
  <2>6. s[n+1] = s[n] + f[last] /\ s[n] = Total(x)
    BY <1>7, <2>2
  <2>7. n + 1 \in S <=> s[n+1] = Total(y)
    BY <2>1
  <2> HIDE DEF last, x, y, S
  <2>8. Total(y) = Total(x) + (y[last] - x[last])
    BY <2>3, <2>5, TotalMore
  <2>9. y[last] - x[last] = f[last]
    BY <2>3, <2>4
  <2> QED  BY <2>6, <2>7, <2>8, <2>9
<1> HIDE DEF S
<1>8. m \in S
  <2>1. 0..m \subseteq S
    BY <1>6, <1>7, UpTo
  <2> QED  BY <2>1
<1>9. Total(g) = Total(h(m))
  BY <1>5, <1>8 DEF S
<1> QED  BY <1>9 DEF g, h

-----------------------------------------------------------------------------
(* Queues.                                                                 *)

(* The threads of a queue, in order, are the members of q.                 *)
Listed(N, T, head, q) ==
    /\ q \in Seq(1..N)
    /\ \A i, j \in 1..Len(q) : q[i] = q[j] => i = j
    /\ head = IF Len(q) = 0 THEN Nil ELSE q[1]
    /\ \A i \in 1..Len(q) : T[q[i]].next = IF i = Len(q) THEN Nil ELSE q[i+1]
In(t, q) == \E i \in 1..Len(q) : q[i] = t

(* A queue is a function, and no longer than there are threads.            *)
LEMMA QueueIs ==
    ASSUME NEW N \in Nat, NEW q \in Seq(1..N), \A i, j \in 1..Len(q) : q[i] = q[j] => i = j
    PROVE  /\ Len(q) \in Nat /\ q \in [1..Len(q) -> 1..N] /\ Len(q) <= N
           /\ IsFiniteSet({t \in 1..N : In(t, q)})
           /\ Cardinality({t \in 1..N : In(t, q)}) = Len(q)
<1> DEFINE m == Len(q)
           S == {t \in 1..N : In(t, q)}
<1>1. m \in Nat /\ q \in [1..m -> 1..N]
  OBVIOUS
<1>2. q \in Surjection(1..m, S) /\ q \in Injection(1..m, S)
  <2>1. \A i \in 1..m : q[i] \in S
    BY <1>1 DEF In
  <2>2. q \in [1..m -> S]
    BY <1>1, <2>1
  <2>3. \A t \in S : \E i \in 1..m : q[i] = t
    BY DEF In
  <2> HIDE DEF S, m
  <2>4. \A i, j \in 1..m : q[i] = q[j] => i = j
    BY DEF m
  <2> QED  BY <2>2, <2>3, <2>4 DEF Surjection, Injection, IsInjective
<1>3. IsFiniteSet(1..m) /\ Cardinality(1..m) = m /\ IsFiniteSet(1..N) /\ Cardinality(1..N) = N
  <2> HIDE DEF m
  <2>1. 1 \in Int /\ m \in Int /\ N \in Int
    BY <1>1
  <2>2. Cardinality(1..m) = IF 1 > m THEN 0 ELSE m-1+1
    BY <2>1, FS_Interval
  <2>3. Cardinality(1..N) = IF 1 > N THEN 0 ELSE N-1+1
    BY <2>1, FS_Interval
  <2> QED  BY <1>1, <2>1, <2>2, <2>3, FS_Interval
<1> HIDE DEF m
<1>4. S \in SUBSET (1..N)
  OBVIOUS
<1> HIDE DEF S
<1>5. IsFiniteSet(S) /\ Cardinality(S) = m
  BY <1>2, <1>3, FS_Surjection
<1>6. Cardinality(S) <= N
  <2> DEFINE W == 1..N
  <2>1. S \in SUBSET W /\ IsFiniteSet(W)
    BY <1>3, <1>4
  <2>2. Cardinality(W) = N
    BY <1>3
  <2> HIDE DEF W
  <2>3. Cardinality(S) <= Cardinality(W)
    BY <2>1, FS_Subset
  <2> QED  BY <2>2, <2>3
<1> QED  BY <1>1, <1>5, <1>6 DEF m, S

(* Following the next pointers finds the queue.                            *)
LEMMA ChainIs ==
    ASSUME NEW N \in Nat, N <= MaxThreads, NEW T, NEW head, NEW q, Listed(N, T, head, q)
    PROVE  Chain(T, head) = q
<1> DEFINE m == Len(q)
           M == MaxThreads
           Is(f) == f = [n \in 0..M |->
                           IF n = 0 THEN head ELSE IF f[n-1] = Nil THEN Nil ELSE T[f[n-1]].next]
           at == CHOOSE f : Is(f)
           f1 == [n \in 0..M |-> IF n < m THEN q[n+1] ELSE Nil]
           X(f) == {n \in 0..M : f[n] # Nil}
<1>1. m \in Nat /\ q \in [1..m -> 1..N] /\ m <= N /\ M \in Nat
  BY QueueIs, Parameters DEF Listed
<1>2. Chain(T, head) = [i \in 1..Cardinality(X(at)) |-> at[i-1]]
  BY DEF Chain
<1>3. ASSUME NEW n \in 0..M PROVE f1[n] = IF n < m THEN q[n+1] ELSE Nil
  OBVIOUS
<1>4. \A i \in 1..m : q[i] # Nil
  BY <1>1 DEF Nil
<1>5. head = (IF m = 0 THEN Nil ELSE q[1])
      /\ \A i \in 1..m : T[q[i]].next = IF i = m THEN Nil ELSE q[i+1]
  BY DEF Listed
<1> HIDE DEF m, M
<1>6. Is(f1)
  <2> HIDE DEF f1
  <2>1. ASSUME NEW n \in 0..M
        PROVE  f1[n] = IF n = 0 THEN head ELSE IF f1[n-1] = Nil THEN Nil ELSE T[f1[n-1]].next
    <3>1. CASE n = 0
      BY <1>1, <1>3, <1>5, <3>1
    <3>2. CASE n # 0 /\ n - 1 >= m
      <4>1. n - 1 \in 0..M /\ ~(n - 1 < m) /\ ~(n < m)
        BY <1>1, <3>2
      <4> QED  BY <1>3, <3>2, <4>1
    <3>3. CASE n # 0 /\ n - 1 < m
      <4>1. n - 1 \in 0..M /\ n \in 1..m /\ (n - 1) + 1 = n /\ (n = m <=> ~(n < m))
        BY <1>1, <3>3
      <4>2. f1[n-1] = q[n] /\ q[n] # Nil
        BY <1>3, <1>4, <3>3, <4>1
      <4>3. f1[n] = IF n = m THEN Nil ELSE q[n+1]
        BY <1>3, <4>1
      <4> QED  BY <1>5, <3>3, <4>1, <4>2, <4>3
    <3> QED  BY <1>1, <3>1, <3>2, <3>3
  <2>2. f1 = [n \in 0..M |-> f1[n]]
    BY DEF f1
  <2> QED  BY <2>1, <2>2
<1>7. Is(at)
  <2> HIDE DEF Is, f1
  <2> QED  BY <1>6
<1>8. at = f1
  <2> HIDE DEF at, f1
  <2> DEFINE S == {n \in 0..M : at[n] = f1[n]}
  <2>1. at = [n \in 0..M |-> at[n]] /\ f1 = [n \in 0..M |-> f1[n]]
    BY <1>6, <1>7
  <2>2. 0 \in S
    BY <1>1, <1>6, <1>7
  <2>3. ASSUME NEW n \in 0..M-1, n \in S PROVE n + 1 \in S
    <3>1. n + 1 \in 0..M /\ n + 1 # 0 /\ (n + 1) - 1 = n /\ at[n] = f1[n]
      BY <1>1, <2>3
    <3>2. at[n+1] = IF at[n] = Nil THEN Nil ELSE T[at[n]].next
      BY <1>7, <3>1
    <3>3. f1[n+1] = IF f1[n] = Nil THEN Nil ELSE T[f1[n]].next
      BY <1>6, <3>1
    <3> QED  BY <3>1, <3>2, <3>3
  <2> HIDE DEF S
  <2>4. 0..M \subseteq S
    BY <1>1, <2>2, <2>3, UpTo
  <2> HIDE DEF Is
  <2> QED  BY <2>1, <2>4 DEF S
<1> HIDE DEF at, Is
<1>9. X(f1) = 0..m-1
  <2>1. ASSUME NEW n \in 0..M PROVE f1[n] # Nil <=> n < m
    <3>1. n < m => n + 1 \in 1..m
      BY <1>1
    <3> HIDE DEF f1
    <3> QED  BY <1>3, <1>4, <3>1
  <2>2. m <= M
    BY <1>1 DEF M
  <2> HIDE DEF f1
  <2> QED  BY <1>1, <2>1, <2>2
<1>10. Cardinality(0..m-1) = m
  <2>1. 0 \in Int /\ m - 1 \in Int
    BY <1>1
  <2> QED  BY <1>1, <2>1, FS_Interval
<1>11. Chain(T, head) = [i \in 1..m |-> f1[i-1]]
  <2> HIDE DEF f1
  <2> QED  BY <1>2, <1>8, <1>9, <1>10
<1>12. ASSUME NEW i \in 1..m PROVE f1[i-1] = q[i]
  <2>1. i - 1 \in 0..M /\ i - 1 < m /\ (i - 1) + 1 = i
    BY <1>1 DEF M
  <2> QED  BY <1>3, <2>1
<1> HIDE DEF f1
<1> QED  BY <1>1, <1>11, <1>12

(* What a thread is made of, when there are N of them.                     *)
ThreadType(N) ==
    [state : {"NEW", "READY", "RUNNING", "TERMINATED"}, priority : Nat, burst : Nat \ {0},
     remaining : Nat, arrival : Nat, start : Nat \cup {-1}, completion : Nat \cup {-1},
     waiting : Nat, turnaround : Nat, response : Nat \cup {-1}, next : 0..N]

(* Two threads that are alike but for the next pointer.                    *)
Alike(x, y) ==
    /\ x.state = y.state /\ x.priority = y.priority /\ x.burst = y.burst
    /\ x.remaining = y.remaining /\ x.arrival = y.arrival /\ x.start = y.start
    /\ x.completion = y.completion /\ x.waiting = y.waiting
    /\ x.turnaround = y.turnaround /\ x.response = y.response

(* A thread linked to another one.                                         *)
LEMMA LinkIs ==
    ASSUME NEW N \in Nat, NEW x \in ThreadType(N), NEW n \in 0..N
    PROVE  /\ [x EXCEPT !.next = n] \in ThreadType(N)
           /\ [x EXCEPT !.next = n].next = n /\ Alike([x EXCEPT !.next = n], x)
  BY DEF ThreadType, Alike

(* A queue of which no next pointer changes stays what it is.              *)
LEMMA ListedStays ==
    ASSUME NEW N \in Nat, NEW T, NEW U, NEW head, NEW q, Listed(N, T, head, q),
           \A u \in 1..N : In(u, q) => U[u].next = T[u].next
    PROVE  Listed(N, U, head, q)
<1>1. q \in [1..Len(q) -> 1..N] /\ Len(q) \in Nat
  BY DEF Listed
<1>2. \A i \in 1..Len(q) : In(q[i], q) /\ q[i] \in 1..N
  BY <1>1 DEF In
<1>3. \A i \in 1..Len(q) : U[q[i]].next = T[q[i]].next
  BY <1>2
<1> QED  BY <1>3 DEF Listed

(* A thread is put at the end of a queue, and nothing else changes.        *)
Enqueued(N, T, q, t, U, head) ==
    /\ U \in [1..N -> ThreadType(N)] /\ head \in 1..N
    /\ Listed(N, U, head, Append(q, t))
    /\ \A u \in 1..N : Alike(U[u], T[u]) /\ (u # t /\ ~In(u, q) => U[u] = T[u])
LEMMA EnqueueIs ==
    ASSUME NEW N \in Nat, N <= MaxThreads, NEW T \in [1..N -> ThreadType(N)],
           NEW head, NEW q, Listed(N, T, head, q), NEW t \in 1..N, ~In(t, q)
    PROVE  Enqueued(N, T, q, t, Enqueue(T, head, t).thr, Enqueue(T, head, t).head)
<1> DEFINE m == Len(q)
           p == Append(q, t)
           e == Enqueue(T, head, t)
           l == q[m]
           U1 == [T EXCEPT ![t].next = Nil]
           U2 == [T EXCEPT ![l].next = t]
           U3 == [U2 EXCEPT ![t].next = Nil]
           U == IF m = 0 THEN U1 ELSE U3
           h == IF m = 0 THEN t ELSE head
<1>1. m \in Nat /\ q \in [1..m -> 1..N] /\ q \in Seq(1..N)
  BY DEF Listed
<1>2. /\ p \in Seq(1..N) /\ Len(p) = m + 1 /\ p[m+1] = t
      /\ \A i \in 1..m : p[i] = q[i]
  BY <1>1
<1>3. head = (IF m = 0 THEN Nil ELSE q[1])
      /\ (\A i \in 1..m : T[q[i]].next = IF i = m THEN Nil ELSE q[i+1])
      /\ \A i, j \in 1..m : q[i] = q[j] => i = j
  BY DEF Listed
<1>4. e.thr = U /\ e.head = h
  <2>1. CASE m = 0
    <3>1. head = Nil
      BY <1>3, <2>1
    <3> QED  BY <2>1, <3>1 DEF Enqueue
  <2>2. CASE m # 0
    <3>1. 1 \in 1..m
      BY <1>1, <2>2
    <3>2. head # Nil
      <4>1. head = q[1] /\ q[1] \in 1..N
        BY <1>1, <1>3, <2>2, <3>1
      <4> QED  BY <4>1 DEF Nil
    <3>3. Chain(T, head) = q /\ Last(q) = l
      BY ChainIs DEF Last
    <3> QED  BY <2>2, <3>2, <3>3 DEF Enqueue
  <2> QED  BY <2>1, <2>2
<1>5. \A i \in 1..m : q[i] \in 1..N /\ q[i] # t
  BY <1>1 DEF In
<1>6. m # 0 => l \in 1..N /\ l # t
  BY <1>1, <1>5
<1>7. Nil \in 0..N /\ t \in 0..N
  BY DEF Nil
<1> HIDE DEF m, p, e, l
<1>8. ASSUME NEW u \in 1..N
      PROVE  U[u] = IF u = t THEN [T[u] EXCEPT !.next = Nil]
                    ELSE IF m # 0 /\ u = l THEN [T[u] EXCEPT !.next = t] ELSE T[u]
  BY <1>6
<1>9. ASSUME NEW u \in 1..N
      PROVE  /\ U[u] \in ThreadType(N) /\ Alike(U[u], T[u])
             /\ U[u].next = IF u = t THEN Nil ELSE IF m # 0 /\ u = l THEN t ELSE T[u].next
  <2>1. T[u] \in ThreadType(N)
    OBVIOUS
  <2>2. Alike(T[u], T[u])
    BY DEF Alike
  <2> HIDE DEF U
  <2>3. CASE u = t
    <3>1. U[u] = [T[u] EXCEPT !.next = Nil]
      BY <1>8, <2>3
    <3> QED  BY <1>7, <2>1, <2>3, <3>1, LinkIs
  <2>4. CASE u # t /\ m # 0 /\ u = l
    <3>1. U[u] = [T[u] EXCEPT !.next = t]
      BY <1>8, <2>4
    <3> QED  BY <1>7, <2>1, <2>4, <3>1, LinkIs
  <2>5. CASE u # t /\ ~(m # 0 /\ u = l)
    <3>1. U[u] = T[u]
      BY <1>8, <2>5
    <3> QED  BY <2>1, <2>2, <2>5, <3>1
  <2> QED  BY <2>3, <2>4, <2>5
<1>10. DOMAIN U = 1..N /\ U = [u \in 1..N |-> U[u]]
  BY <1>6
<1> HIDE DEF U
<1>11. U \in [1..N -> ThreadType(N)]
  BY <1>9, <1>10
<1>12. ASSUME NEW i \in 1..m+1 PROVE U[p[i]].next = IF i = m + 1 THEN Nil ELSE p[i+1]
  <2>1. CASE i = m + 1
    BY <1>2, <1>9, <2>1
  <2>2. CASE i # m + 1
    <3>1. i \in 1..m /\ (i # m => i + 1 \in 1..m) /\ (i = m => i + 1 = m + 1) /\ m # 0
      BY <1>1, <2>2
    <3>2. p[i] = q[i] /\ q[i] # t /\ q[i] \in 1..N
      BY <1>2, <1>5, <3>1
    <3>3. m \in 1..m
      BY <1>1, <3>1
    <3>4. i = m <=> q[i] = l
      BY <1>3, <3>1, <3>3 DEF l
    <3>5. CASE i = m
      BY <1>2, <1>9, <2>2, <3>1, <3>2, <3>4, <3>5
    <3>6. CASE i # m
      <4>1. U[q[i]].next = T[q[i]].next
        BY <1>9, <3>2, <3>4, <3>6
      <4>2. T[q[i]].next = q[i+1] /\ p[i+1] = q[i+1]
        BY <1>2, <1>3, <3>1, <3>6
      <4> QED  BY <2>2, <3>2, <4>1, <4>2
    <3> QED  BY <3>5, <3>6
  <2> QED  BY <2>1, <2>2
<1>13. ASSUME NEW i \in 1..m+1, NEW j \in 1..m+1, p[i] = p[j] PROVE i = j
  <2>1. (i \in 1..m \/ i = m + 1) /\ (j \in 1..m \/ j = m + 1)
    BY <1>1
  <2> QED  BY <1>2, <1>3, <1>5, <1>13, <2>1
<1>14. h = p[1] /\ h \in 1..N
  <2>1. m # 0 => 1 \in 1..m
    BY <1>1
  <2> QED  BY <1>2, <1>3, <1>5, <2>1
<1>15. Len(p) # 0
  BY <1>1, <1>2
<1> HIDE DEF h
<1>16. Listed(N, U, h, p)
  BY <1>2, <1>12, <1>13, <1>14, <1>15 DEF Listed
<1>17. ASSUME NEW u \in 1..N, u # t, ~In(u, q) PROVE U[u] = T[u]
  <2>1. m # 0 => In(l, q)
    <3>1. m # 0 => m \in 1..m
      BY <1>1
    <3> QED  BY <3>1 DEF In, l, m
  <2> QED  BY <1>8, <1>17, <2>1
<1> QED  BY <1>4, <1>9, <1>11, <1>14, <1>16, <1>17 DEF Enqueued, e, p

(* A queue without its i-th thread.                                        *)
Without(q, i) == [j \in 1..Len(q)-1 |-> IF j < i THEN q[j] ELSE q[j+1]]
LEMMA WithoutIs ==
    ASSUME NEW N \in Nat, NEW q \in Seq(1..N), NEW i \in 1..Len(q),
           \A a, b \in 1..Len(q) : q[a] = q[b] => a = b
    PROVE  /\ Without(q, i) \in Seq(1..N) /\ Len(Without(q, i)) = Len(q) - 1
           /\ Len(q) \in Nat /\ Len(q) - 1 \in Nat
           /\ \A j \in 1..Len(q)-1 : Without(q, i)[j] = IF j < i THEN q[j] ELSE q[j+1]
           /\ \A a, b \in 1..Len(q)-1 : Without(q, i)[a] = Without(q, i)[b] => a = b
           /\ \A u : In(u, Without(q, i)) <=> In(u, q) /\ u # q[i]
<1> DEFINE m == Len(q)
           p == Without(q, i)
<1>1. m \in Nat /\ m - 1 \in Nat /\ q \in [1..m -> 1..N]
  OBVIOUS
<1>2. \A j \in 1..m-1 : j \in 1..m /\ j + 1 \in 1..m
  BY <1>1
<1>3. p \in [1..m-1 -> 1..N] /\ \A j \in 1..m-1 : p[j] = IF j < i THEN q[j] ELSE q[j+1]
  BY <1>1, <1>2 DEF Without
<1>4. p \in Seq(1..N) /\ Len(p) = m - 1
  <2> DEFINE n == m - 1
  <2>1. n \in Nat /\ p \in [1..n -> 1..N]
    BY <1>1, <1>3
  <2> HIDE DEF n, p
  <2>2. p \in Seq(1..N) /\ Len(p) = n
    BY <2>1
  <2> QED  BY <2>2 DEF n
<1>5. m = Len(q) /\ \A a, b \in 1..m : q[a] = q[b] => a = b
  OBVIOUS
<1> HIDE DEF m, p
<1>6. ASSUME NEW a \in 1..m-1, NEW b \in 1..m-1, p[a] = p[b] PROVE a = b
  <2> DEFINE x == IF a < i THEN a ELSE a + 1
             y == IF b < i THEN b ELSE b + 1
  <2>1. x \in 1..m /\ y \in 1..m /\ p[a] = q[x] /\ p[b] = q[y]
    BY <1>2, <1>3
  <2>2. x = y
    <3> HIDE DEF x, y
    <3> QED  BY <1>5, <1>6, <2>1
  <2> QED  BY <2>2
<1>7. ASSUME NEW u PROVE In(u, p) <=> In(u, q) /\ u # q[i]
  <2>1. ASSUME In(u, p) PROVE In(u, q) /\ u # q[i]
    <3>1. PICK j \in 1..m-1 : p[j] = u
      BY <2>1, <1>4 DEF In
    <3> DEFINE x == IF j < i THEN j ELSE j + 1
    <3>2. x \in 1..m /\ x # i /\ p[j] = q[x]
      BY <1>2, <1>3
    <3>3. i \in 1..m
      BY <1>5
    <3> HIDE DEF x
    <3> QED  BY <1>5, <3>1, <3>2, <3>3 DEF In
  <2>2. ASSUME In(u, q), u # q[i] PROVE In(u, p)
    <3>1. PICK x \in 1..m : q[x] = u
      BY <2>2, <1>5 DEF In
    <3>2. x # i /\ i \in 1..m
      BY <1>5, <2>2, <3>1
    <3> DEFINE j == IF x < i THEN x ELSE x - 1
    <3>3. j \in 1..m-1 /\ x = IF j < i THEN j ELSE j + 1
      BY <1>1, <3>2
    <3> HIDE DEF j
    <3>4. p[j] = u
      BY <1>3, <3>1, <3>3
    <3> QED  BY <1>4, <3>3, <3>4 DEF In
  <2> QED  BY <2>1, <2>2
<1> QED  BY <1>1, <1>3, <1>4, <1>6, <1>7 DEF p, m

(* The i-th thread is taken out of a queue, and nothing else changes.      *)
TakenOut(N, T, q, i, U, head) ==
    /\ U \in [1..N -> ThreadType(N)] /\ head \in 0..N
    /\ Listed(N, U, head, Without(q, i))
    /\ \A u \in 1..N : Alike(U[u], T[u]) /\ (~In(u, q) => U[u] = T[u])
LEMMA UnlinkIs ==
    ASSUME NEW N \in Nat, NEW T \in [1..N -> ThreadType(N)], NEW head, NEW q,
           Listed(N, T, head, q), NEW i \in 1..Len(q),
           NEW U \in [1..N -> ThreadType(N)], NEW h,
           \A u \in 1..N : Alike(U[u], T[u]),
           \A u \in 1..N : ~In(u, q) => U[u] = T[u],
           i = 1 => h = T[q[1]].next, i # 1 => h = head /\ U[q[i-1]].next = T[q[i]].next,
           \A j \in 1..Len(q) : j # i /\ (i = 1 \/ j # i - 1) => U[q[j]].next = T[q[j]].next
    PROVE  TakenOut(N, T, q, i, U, h)
<1> DEFINE m == Len(q)
           p == Without(q, i)
<1>1. m \in Nat /\ m - 1 \in Nat /\ q \in [1..m -> 1..N] /\ i \in 1..m
  BY DEF Listed
<1>2. /\ p \in Seq(1..N) /\ Len(p) = m - 1
      /\ \A j \in 1..m-1 : p[j] = IF j < i THEN q[j] ELSE q[j+1]
      /\ \A a, b \in 1..m-1 : p[a] = p[b] => a = b
  BY WithoutIs DEF Listed
<1>3. head = (IF m = 0 THEN Nil ELSE q[1])
      /\ \A j \in 1..m : T[q[j]].next = IF j = m THEN Nil ELSE q[j+1]
  BY DEF Listed
<1>4. \A j \in 1..m : j # i /\ (i = 1 \/ j # i - 1) => U[q[j]].next = T[q[j]].next
  OBVIOUS
<1> HIDE DEF m, p
<1>5. ASSUME NEW j \in 1..m-1 PROVE U[p[j]].next = IF j = m - 1 THEN Nil ELSE p[j+1]
  <2>1. j \in 1..m /\ j + 1 \in 1..m /\ (j # m - 1 => j + 1 \in 1..m-1 /\ j + 2 \in 1..m)
        /\ (j + 1) + 1 = j + 2
    BY <1>1
  <2>2. CASE j < i - 1
    <3>1. j # m - 1 /\ j # m /\ j < i /\ j + 1 < i /\ j # i - 1
      BY <1>1, <2>2
    <3>2. U[q[j]].next = q[j+1]
      BY <1>3, <1>4, <2>1, <3>1
    <3> QED  BY <1>2, <2>1, <3>1, <3>2
  <2>3. CASE j = i - 1
    <3>1. i # 1 /\ j < i /\ ~(j + 1 < i) /\ j + 1 = i /\ (i = m <=> j = m - 1)
      BY <1>1, <2>3
    <3>2. U[q[j]].next = IF i = m THEN Nil ELSE q[i+1]
      BY <1>1, <1>3, <2>3, <3>1
    <3> QED  BY <1>2, <2>1, <3>1, <3>2
  <2>4. CASE j > i - 1
    <3>1. ~(j < i) /\ ~(j + 1 < i) /\ j + 1 # i /\ j + 1 # i - 1 /\ (j + 1 = m <=> j = m - 1)
      BY <1>1, <2>4
    <3>2. U[q[j+1]].next = IF j = m - 1 THEN Nil ELSE q[j+2]
      BY <1>3, <1>4, <2>1, <3>1
    <3> QED  BY <1>2, <2>1, <3>1, <3>2
  <2> QED  BY <1>1, <2>1, <2>2, <2>3, <2>4
<1>6. h = IF m - 1 = 0 THEN Nil ELSE p[1]
  <2>1. CASE i = 1
    <3>1. h = T[q[1]].next /\ 1 \in 1..m /\ (1 = m <=> m - 1 = 0)
      BY <1>1, <2>1
    <3>2. h = IF m - 1 = 0 THEN Nil ELSE q[1+1]
      BY <1>3, <3>1
    <3>3. m - 1 # 0 => 1 \in 1..m-1 /\ ~(1 < i)
      BY <1>1, <2>1
    <3> QED  BY <1>2, <3>2, <3>3
  <2>2. CASE i # 1
    <3>1. m # 0 /\ m - 1 # 0 /\ 1 \in 1..m-1 /\ 1 < i
      BY <1>1, <2>2
    <3> QED  BY <1>2, <1>3, <2>2, <3>1
  <2> QED  BY <2>1, <2>2
<1>7. Listed(N, U, h, p)
  BY <1>2, <1>5, <1>6 DEF Listed
<1>8. h \in 0..N
  <2>1. m - 1 # 0 => 1 \in 1..m-1 /\ p[1] \in 1..N
    BY <1>1, <1>2
  <2> QED  BY <1>6, <2>1 DEF Nil
<1> QED  BY <1>7, <1>8 DEF TakenOut, p

(* dequeue_thread takes out the first ...                                  *)
LEMMA DequeueIs ==
    ASSUME NEW N \in Nat, NEW T \in [1..N -> ThreadType(N)], NEW head, NEW q,
           Listed(N, T, head, q), Len(q) # 0
    PROVE  LET r == Dequeue(T, head)
           IN  r.t = q[1] /\ TakenOut(N, T, q, 1, r.thr, r.head)
<1> DEFINE l == q[1]
           U == [T EXCEPT ![l].next = Nil]
<1>1. Len(q) \in Nat /\ 1 \in 1..Len(q) /\ l \in 1..N /\ head = l /\ l # Nil /\ Nil \in 0..N
      /\ \A j \in 1..Len(q) : q[j] \in 1..N /\ (q[j] = l => j = 1)
  BY DEF Listed, Nil
<1>2. Dequeue(T, head) = [t |-> l, head |-> T[l].next, thr |-> U]
  BY <1>1 DEF Dequeue
<1>3. In(l, q)
  BY <1>1 DEF In
<1> HIDE DEF l
<1>4. ASSUME NEW u \in 1..N PROVE U[u] = IF u = l THEN [T[u] EXCEPT !.next = Nil] ELSE T[u]
  BY <1>1
<1>5. DOMAIN U = 1..N /\ U = [u \in 1..N |-> U[u]]
  BY <1>1
<1> HIDE DEF U
<1>6. ASSUME NEW u \in 1..N
      PROVE  U[u] \in ThreadType(N) /\ Alike(U[u], T[u]) /\ (u # l => U[u] = T[u])
  <2>1. T[u] \in ThreadType(N) /\ Alike(T[u], T[u])
    BY DEF Alike
  <2>2. CASE u = l
    <3>1. U[u] = [T[u] EXCEPT !.next = Nil]
      BY <1>4, <2>2
    <3> QED  BY <1>1, <2>1, <2>2, <3>1, LinkIs
  <2>3. CASE u # l
    BY <1>4, <2>1, <2>3
  <2> QED  BY <2>2, <2>3
<1>7. U \in [1..N -> ThreadType(N)]
  BY <1>5, <1>6
<1>8. \A u \in 1..N : Alike(U[u], T[u]) /\ (~In(u, q) => U[u] = T[u])
  BY <1>3, <1>6
<1>9. \A j \in 1..Len(q) : j # 1 => U[q[j]].next = T[q[j]].next
  BY <1>1, <1>6
<1>10. TakenOut(N, T, q, 1, U, T[l].next)
  <2>1. l = q[1]
    BY DEF l
  <2> QED  BY <1>1, <1>7, <1>8, <1>9, <2>1, UnlinkIs
<1> QED  BY <1>2, <1>10 DEF l

(* ... and remove_thread_from_queue the one it is given.                   *)
LEMMA RemoveIs ==
    ASSUME NEW N \in Nat, N <= MaxThreads, NEW T \in [1..N -> ThreadType(N)], NEW head, NEW q,
           Listed(N, T, head, q), NEW i \in 1..Len(q)
    PROVE  LET r == RemoveThread(T, head, q[i])
           IN  r.t = q[i] /\ TakenOut(N, T, q, i, r.thr, r.head)
<1>1. /\ Len(q) \in Nat /\ 1 \in 1..Len(q) /\ head = q[1] /\ Len(q) # 0
      /\ \A j \in 1..Len(q) : q[j] \in 1..N
      /\ \A j, k \in 1..Len(q) : q[j] = q[k] => j = k
      /\ \A j \in 1..Len(q) : T[q[j]].next = IF j = Len(q) THEN Nil ELSE q[j+1]
  BY DEF Listed, Nil
<1>2. \A u \in 1..N : Alike(T[u], T[u])
  BY DEF Alike
<1>3. CASE i = 1
  <2>1. RemoveThread(T, head, q[i]) = [t |-> q[i], head |-> T[q[1]].next, thr |-> T]
    BY <1>1, <1>3 DEF RemoveThread
  <2>2. TakenOut(N, T, q, i, T, T[q[1]].next)
    BY <1>2, <1>3, UnlinkIs
  <2> QED  BY <2>1, <2>2
<1>4. CASE i # 1
  <2> DEFINE t == q[i]
             l == q[i-1]
             n == T[t].next
             U == [T EXCEPT ![l].next = n]
  <2>1. i - 1 \in 1..Len(q) /\ i - 1 # Len(q) /\ (i - 1) + 1 = i
    BY <1>1, <1>4
  <2>2. l \in 1..N /\ t \in 1..N /\ head # t /\ In(l, q) /\ T[l].next = t /\ t # Nil
    BY <1>1, <1>4, <2>1 DEF In, Nil
  <2>3. Chain(T, head) = q
    BY ChainIs
  <2>4. (CHOOSE u \in Range(q) : T[u].next = t) = l
    <3>1. Range(q) = {q[j] : j \in 1..Len(q)}
      BY DEF Range, Listed
    <3>2. l \in Range(q)
      BY <2>1, <3>1
    <3>3. ASSUME NEW u \in Range(q), T[u].next = t PROVE u = l
      <4>1. PICK j \in 1..Len(q) : u = q[j]
        BY <3>1
      <4>2. j # Len(q) /\ q[j+1] = t
        BY <1>1, <2>2, <3>3, <4>1
      <4>3. j + 1 \in 1..Len(q)
        BY <1>1, <4>2
      <4>4. j + 1 = i
        BY <1>1, <4>2, <4>3
      <4>5. j = i - 1
        BY <4>4
      <4> QED  BY <4>1, <4>5
    <3> HIDE DEF l, t
    <3> QED  BY <2>2, <3>2, <3>3
  <2>5. RemoveThread(T, head, t) = [t |-> t, head |-> head, thr |-> U]
    <3> HIDE DEF l, t
    <3> QED  BY <2>2, <2>3, <2>4 DEF RemoveThread
  <2>6. n \in 0..N
    <3>1. T[t] \in ThreadType(N)
      BY <2>2
    <3> QED  BY <3>1 DEF ThreadType
  <2>7. l = q[i-1] /\ t = q[i] /\ n = T[t].next
    OBVIOUS
  <2> HIDE DEF l, t, n
  <2>8. ASSUME NEW u \in 1..N PROVE U[u] = IF u = l THEN [T[u] EXCEPT !.next = n] ELSE T[u]
    BY <2>2
  <2>9. DOMAIN U = 1..N /\ U = [u \in 1..N |-> U[u]]
    BY <2>2
  <2> HIDE DEF U
  <2>10. ASSUME NEW u \in 1..N
         PROVE  /\ U[u] \in ThreadType(N) /\ Alike(U[u], T[u])
                /\ (u # l => U[u] = T[u]) /\ (u = l => U[u].next = n)
    <3>1. T[u] \in ThreadType(N)
      OBVIOUS
    <3>2. CASE u = l
      <4>1. U[u] = [T[u] EXCEPT !.next = n]
        BY <2>8, <3>2
      <4> QED  BY <2>6, <3>1, <3>2, <4>1, LinkIs
    <3>3. CASE u # l
      BY <1>2, <2>8, <3>1, <3>3
    <3> QED  BY <3>2, <3>3
  <2>11. U \in [1..N -> ThreadType(N)]
    BY <2>9, <2>10
  <2>12. \A u \in 1..N : Alike(U[u], T[u]) /\ (~In(u, q) => U[u] = T[u])
    BY <2>2, <2>10
  <2>13. \A j \in 1..Len(q) : j # i - 1 => U[q[j]].next = T[q[j]].next
    BY <1>1, <2>1, <2>7, <2>10
  <2>14. U[q[i-1]].next = T[q[i]].next
    BY <2>2, <2>7, <2>10
  <2>15. TakenOut(N, T, q, i, U, head)
    BY <1>4, <2>11, <2>12, <2>13, <2>14, UnlinkIs
  <2> QED  BY <2>5, <2>7, <2>15
<1> QED  BY <1>3, <1>4

(* Among some numbers there is a first least one.                          *)
LEMMA BestExists ==
    ASSUME NEW m \in Nat \ {0}, NEW K \in [1..m -> Int]
    PROVE  \E i \in 1..m : /\ \A j \in 1..m : ~(K[j] < K[i])
                           /\ \A j \in 1..i-1 : K[i] < K[j]
<1> DEFINE Best(n, i) == (\A j \in 1..n : ~(K[j] < K[i])) /\ (\A j \in 1..i-1 : K[i] < K[j])
           S == {n \in 0..m-1 : \E i \in 1..n+1 : Best(n+1, i)}
<1>1. 0 \in S
  <2>1. Best(1, 1)
    OBVIOUS
  <2>2. 0 \in 0..m-1 /\ 0 + 1 = 1 /\ 1 \in 1..1
    OBVIOUS
  <2> HIDE DEF Best
  <2> QED  BY <2>1, <2>2
<1>2. ASSUME NEW n \in 0..m-1-1, n \in S PROVE n + 1 \in S
  <2>1. n + 1 \in 0..m-1 /\ n + 2 \in 1..m /\ (n + 1) + 1 = n + 2 /\ n + 2 \in 1..n+2
    OBVIOUS
  <2>2. PICK i \in 1..n+1 : Best(n + 1, i)
    <3> HIDE DEF Best
    <3> QED  BY <1>2
  <2>3. i \in 1..m /\ i \in 1..n+2
    OBVIOUS
  <2>4. K[i] \in Int /\ K[n+2] \in Int /\ \A j \in 1..n+1 : K[j] \in Int
    BY <2>1, <2>3
  <2>5. \A j \in 1..n+2 : j \in 1..n+1 \/ j = n + 2
    OBVIOUS
  <2>6. CASE K[n+2] < K[i]
    <3>1. Best(n + 2, n + 2)
      <4>1. \A j \in 1..n+1 : K[n+2] < K[j]
        BY <2>2, <2>4, <2>6
      <4>2. (n + 2) - 1 = n + 1
        OBVIOUS
      <4> QED  BY <2>4, <2>5, <4>1, <4>2
    <3> HIDE DEF Best
    <3> QED  BY <2>1, <3>1
  <2>7. CASE ~(K[n+2] < K[i])
    <3>1. Best(n + 2, i)
      BY <2>2, <2>5, <2>7
    <3> HIDE DEF Best
    <3> QED  BY <2>1, <2>3, <3>1
  <2> QED  BY <2>6, <2>7
<1> HIDE DEF S
<1>3. m - 1 \in S
  <2>1. 0..m-1 \subseteq S
    <3> DEFINE M == m - 1
    <3>1. M \in Nat /\ \A n \in 0..M-1 : n \in S => n + 1 \in S
      BY <1>2
    <3> HIDE DEF M
    <3>2. 0..M \subseteq S
      BY <1>1, <3>1, UpTo
    <3> QED  BY <3>2 DEF M
  <2> QED  BY <2>1
<1>4. (m - 1) + 1 = m
  OBVIOUS
<1>5. PICK i \in 1..m : Best(m, i)
  <2> HIDE DEF Best
  <2> QED  BY <1>3, <1>4 DEF S
<1> QED  BY <1>5

(* Which thread of a queue each algorithm chooses.                         *)
Chosen(alg, T, q, i) ==
    /\ alg \notin {"SJF", "PRIORITY"} => i = 1
    /\ alg = "SJF" =>
          /\ \A j \in 1..Len(q) : T[q[i]].remaining <= T[q[j]].remaining
          /\ \A j \in 1..i-1 : T[q[i]].remaining < T[q[j]].remaining
    /\ alg = "PRIORITY" =>
          /\ \A j \in 1..Len(q) : T[q[i]].priority >= T[q[j]].priority
          /\ \A j \in 1..i-1 : T[q[i]].priority > T[q[j]].priority
LEMMA SelectIs ==
    ASSUME NEW N \in Nat, N <= MaxThreads, NEW T \in [1..N -> ThreadType(N)], NEW head, NEW q,
           Listed(N, T, head, q), Len(q) # 0, NEW alg
    PROVE  LET r == SelectNext(alg, T, head)
           IN  \E i \in 1..Len(q) : /\ Chosen(alg, T, q, i) /\ r.t = q[i]
                                    /\ TakenOut(N, T, q, i, r.thr, r.head)
<1>1. /\ Len(q) \in Nat \ {0} /\ 1 \in 1..Len(q) /\ head = q[1] /\ head # Nil /\ q \in Seq(1..N)
      /\ \A j \in 1..Len(q) : q[j] \in 1..N
  BY DEF Listed, Nil
<1>2. \A j \in 1..Len(q) : T[q[j]].remaining \in Nat /\ T[q[j]].priority \in Nat
  <2>1. \A j \in 1..Len(q) : T[q[j]] \in ThreadType(N)
    BY <1>1
  <2> QED  BY <2>1 DEF ThreadType
<1>3. Chain(T, head) = q
  BY ChainIs
<1>4. DOMAIN q = 1..Len(q)
  BY <1>1
<1>5. CASE alg = "SJF"
  <2> DEFINE K == [j \in 1..Len(q) |-> T[q[j]].remaining]
             Best(i) == /\ \A j \in 1..Len(q) : ~(T[q[j]].remaining < T[q[i]].remaining)
                        /\ \A j \in 1..i-1 : T[q[i]].remaining < T[q[j]].remaining
             i == CHOOSE i \in 1..Len(q) : Best(i)
  <2>1. \E i1 \in 1..Len(q) : Best(i1)
    <3>1. PICK i1 \in 1..Len(q) : /\ \A j \in 1..Len(q) : ~(K[j] < K[i1])
                                  /\ \A j \in 1..i1-1 : K[i1] < K[j]
      <4>1. K \in [1..Len(q) -> Int]
        BY <1>2
      <4> HIDE DEF K
      <4> QED  BY <1>1, <4>1, BestExists
    <3>2. \A j \in 1..i1-1 : j \in 1..Len(q)
      BY <1>1
    <3> QED  BY <3>1, <3>2
  <2>2. i \in 1..Len(q) /\ Best(i)
    <3> HIDE DEF Best
    <3> QED  BY <2>1
  <2>3. SelectNext(alg, T, head) = RemoveThread(T, head, q[i])
    BY <1>1, <1>3, <1>4, <1>5 DEF SelectNext, FirstBest, Shorter
  <2> HIDE DEF i
  <2>4. Chosen(alg, T, q, i)
    BY <1>1, <1>2, <1>5, <2>2 DEF Chosen
  <2> QED  BY <2>2, <2>3, <2>4, RemoveIs
<1>6. CASE alg = "PRIORITY"
  <2> DEFINE K == [j \in 1..Len(q) |-> -T[q[j]].priority]
             Best(i) == /\ \A j \in 1..Len(q) : ~(T[q[j]].priority > T[q[i]].priority)
                        /\ \A j \in 1..i-1 : T[q[i]].priority > T[q[j]].priority
             i == CHOOSE i \in 1..Len(q) : Best(i)
  <2>1. \E i1 \in 1..Len(q) : Best(i1)
    <3>1. PICK i1 \in 1..Len(q) : /\ \A j \in 1..Len(q) : ~(K[j] < K[i1])
                                  /\ \A j \in 1..i1-1 : K[i1] < K[j]
      <4>1. K \in [1..Len(q) -> Int]
        BY <1>2
      <4> HIDE DEF K
      <4> QED  BY <1>1, <4>1, BestExists
    <3>2. \A j \in 1..i1-1 : j \in 1..Len(q)
      BY <1>1
    <3>3. \A j \in 1..Len(q) : K[j] = -T[q[j]].priority
      OBVIOUS
    <3> HIDE DEF K
    <3>4. \A j \in 1..Len(q) : ~(T[q[j]].priority > T[q[i1]].priority)
      BY <1>2, <3>1, <3>3
    <3>5. \A j \in 1..i1-1 : T[q[i1]].priority > T[q[j]].priority
      BY <1>2, <3>1, <3>2, <3>3
    <3> QED  BY <3>4, <3>5
  <2>2. i \in 1..Len(q) /\ Best(i)
    <3> HIDE DEF Best
    <3> QED  BY <2>1
  <2>3. SelectNext(alg, T, head) = RemoveThread(T, head, q[i])
    BY <1>1, <1>3, <1>4, <1>6 DEF SelectNext, FirstBest, Higher
  <2> HIDE DEF i
  <2>4. Chosen(alg, T, q, i)
    BY <1>1, <1>2, <1>6, <2>2 DEF Chosen
  <2> QED  BY <2>2, <2>3, <2>4, RemoveIs
<1>7. CASE alg \notin {"SJF", "PRIORITY"}
  <2>1. SelectNext(alg, T, head) = Dequeue(T, head)
    BY <1>1, <1>7 DEF SelectNext
  <2>2. Chosen(alg, T, q, 1)
    BY <1>7 DEF Chosen
  <2> QED  BY <1>1, <2>1, <2>2, DequeueIs
<1> QED  BY <1>5, <1>6, <1>7

-----------------------------------------------------------------------------
(* The steps of a time slice.                                              *)

SchedType(N) ==
    [algorithm : Algorithms \cup {"FCFS"}, ready : 0..N, terminated : 0..N, running : 0..N,
     now : Nat, slice : Nat, switches : Nat]

(* Every thread is in the place that its state names: in the ready queue R,*)
(* running, or in the terminated queue D.                                  *)
Queued(N, s, T, R, D) ==
    /\ N \in Nat /\ N <= MaxThreads /\ T \in [1..N -> ThreadType(N)] /\ s \in SchedType(N)
    /\ Listed(N, T, s.ready, R) /\ Listed(N, T, s.terminated, D)
    /\ \A t \in 1..N : /\ T[t].state \in {"READY", "RUNNING", "TERMINATED"}
                       /\ T[t].state = "READY" <=> In(t, R)
                       /\ T[t].state = "RUNNING" <=> t = s.running
                       /\ T[t].state = "TERMINATED" <=> In(t, D)

(* What never changes of a thread, and a thread before and after it is     *)
(* dispatched.                                                             *)
SameTask(x, y) == x.priority = y.priority /\ x.burst = y.burst /\ x.arrival = y.arrival
Started(x, y, now) ==
    /\ SameTask(y, x) /\ y.state = "RUNNING" /\ y.remaining = x.remaining
    /\ y.completion = x.completion /\ y.waiting = x.waiting /\ y.turnaround = x.turnaround
    /\ y.start = IF x.start = -1 THEN now ELSE x.start
    /\ y.response = IF x.start = -1 THEN AtLeast0(now - x.arrival) ELSE x.response

(* The i-th thread of the ready queue is dispatched.                       *)
Dispatched(N, s, T, R, D, i, s1, T1) ==
    /\ i \in 1..Len(R) /\ Chosen(s.algorithm, T, R, i)
    /\ s1.algorithm = s.algorithm /\ s1.now = s.now /\ s1.slice = 0 /\ s1.running = R[i]
    /\ Queued(N, s1, T1, Without(R, i), D)
    /\ \A u \in 1..N : u # R[i] => Alike(T1[u], T[u])
    /\ Started(T[R[i]], T1[R[i]], s.now)
LEMMA DispatchIs ==
    ASSUME NEW N, NEW s, NEW T, NEW R, NEW D, Queued(N, s, T, R, D),
           s.running = Nil, s.ready # Nil
    PROVE  \E i : Dispatched(N, s, T, R, D, i, Dispatch(s, T).sched, Dispatch(s, T).thr)
<1> DEFINE r == SelectNext(s.algorithm, T, s.ready)
           t == r.t
           V == r.thr
           s1 == [s EXCEPT !.ready = r.head, !.running = t, !.slice = 0, !.switches = @ + 1]
           x == T[t]
           newstart == IF x.start = -1 THEN s.now ELSE V[t].start
           newresp == IF x.start = -1 THEN AtLeast0(s.now - x.arrival) ELSE V[t].response
           V1 == [V EXCEPT ![t].state = "RUNNING"]
           V2 == [V1 EXCEPT ![t].start = newstart]
           V3 == [V2 EXCEPT ![t].response = newresp]
<1>1. N \in Nat /\ N <= MaxThreads /\ T \in [1..N -> ThreadType(N)] /\ s \in SchedType(N)
      /\ Listed(N, T, s.ready, R) /\ Listed(N, T, s.terminated, D)
  BY DEF Queued
<1>2. Len(R) \in Nat /\ Len(R) # 0 /\ \A j \in 1..Len(R) : R[j] \in 1..N
  BY <1>1 DEF Listed
<1>3. PICK i \in 1..Len(R) : /\ Chosen(s.algorithm, T, R, i) /\ t = R[i]
                             /\ TakenOut(N, T, R, i, V, r.head)
  <2> HIDE DEF t, V
  <2>1. LET r1 == SelectNext(s.algorithm, T, s.ready)
        IN  \E i \in 1..Len(R) : /\ Chosen(s.algorithm, T, R, i) /\ r1.t = R[i]
                                 /\ TakenOut(N, T, R, i, r1.thr, r1.head)
    BY <1>1, <1>2, SelectIs
  <2> QED  BY <2>1 DEF t, V
<1>4. V \in [1..N -> ThreadType(N)] /\ r.head \in 0..N /\ Listed(N, V, r.head, Without(R, i))
      /\ \A u \in 1..N : Alike(V[u], T[u]) /\ (~In(u, R) => V[u] = T[u])
  <2> HIDE DEF r, V, t
  <2> QED  BY <1>3 DEF TakenOut
<1>5. t \in 1..N /\ t # Nil
  <2> HIDE DEF t
  <2> QED  BY <1>2, <1>3 DEF Nil
<1>6. Dispatch(s, T).sched = s1 /\ Dispatch(s, T).thr = V3
  <2>1. ~(s.running # Nil \/ t = Nil)
    BY <1>5
  <2>2. t = SelectNext(s.algorithm, T, s.ready).t
    OBVIOUS
  <2>3. Dispatch(s, T) = [sched |-> s1,
              thr |-> [V EXCEPT ![t].state = "RUNNING",
                         ![t].start = IF x.start = -1 THEN s.now ELSE @,
                         ![t].response = IF x.start = -1 THEN AtLeast0(s.now - x.arrival) ELSE @]]
    BY <2>1 DEF Dispatch
  <2>4. [V EXCEPT ![t].state = "RUNNING",
                  ![t].start = IF x.start = -1 THEN s.now ELSE @,
                  ![t].response = IF x.start = -1 THEN AtLeast0(s.now - x.arrival) ELSE @] = V3
    <3> HIDE DEF V, t, x
    <3> QED  BY <1>4, <1>5 DEF ThreadType
  <2> HIDE DEF r, V, t, x, s1, V3
  <2> QED  BY <2>3, <2>4
<1> HIDE DEF r, t, V, x, newstart, newresp
<1>7. s \in SchedType(N) /\ t \in 0..N /\ s.switches + 1 \in Nat /\ 0 \in Nat
  BY <1>1, <1>5 DEF SchedType
<1>8. /\ s1 \in SchedType(N) /\ s1.algorithm = s.algorithm /\ s1.now = s.now /\ s1.slice = 0
      /\ s1.running = t /\ s1.ready = r.head /\ s1.terminated = s.terminated
  BY <1>4, <1>7 DEF SchedType
<1> HIDE DEF s1
<1>9. T[t] \in ThreadType(N) /\ V[t] \in ThreadType(N) /\ Alike(V[t], T[t]) /\ x = T[t]
  BY <1>1, <1>4, <1>5 DEF x
<1>10. /\ newstart \in Nat \cup {-1} /\ newresp \in Nat \cup {-1}
       /\ newstart = IF x.start = -1 THEN s.now ELSE x.start
       /\ newresp = IF x.start = -1 THEN AtLeast0(s.now - x.arrival) ELSE x.response
  <2>1. x.arrival \in Nat /\ s.now \in Nat /\ x.start \in Nat \cup {-1}
        /\ x.response \in Nat \cup {-1} /\ V[t].start = x.start /\ V[t].response = x.response
    BY <1>1, <1>9 DEF ThreadType, SchedType, Alike
  <2>2. AtLeast0(s.now - x.arrival) \in Nat
    BY <2>1 DEF AtLeast0
  <2> QED  BY <2>1, <2>2 DEF newstart, newresp
<1> DEFINE y1 == [V[t] EXCEPT !.state = "RUNNING"]
           y2 == [y1 EXCEPT !.start = newstart]
           y3 == [y2 EXCEPT !.response = newresp]
<1>11. /\ y3 \in ThreadType(N) /\ Started(x, y3, s.now) /\ y3.next = V[t].next
  <2>1. y1 \in ThreadType(N) /\ y1.state = "RUNNING" /\ y1.next = V[t].next
        /\ SameTask(y1, x) /\ y1.remaining = x.remaining /\ y1.start = x.start
        /\ y1.completion = x.completion /\ y1.waiting = x.waiting
        /\ y1.turnaround = x.turnaround /\ y1.response = x.response
    BY <1>9 DEF ThreadType, Alike, SameTask
  <2> HIDE DEF y1
  <2>2. y2 \in ThreadType(N) /\ y2.state = "RUNNING" /\ y2.next = V[t].next
        /\ SameTask(y2, x) /\ y2.remaining = x.remaining /\ y2.start = newstart
        /\ y2.completion = x.completion /\ y2.waiting = x.waiting
        /\ y2.turnaround = x.turnaround /\ y2.response = x.response
    BY <1>10, <2>1 DEF ThreadType, SameTask
  <2> HIDE DEF y2
  <2>3. y3 \in ThreadType(N) /\ y3.state = "RUNNING" /\ y3.next = V[t].next
        /\ SameTask(y3, x) /\ y3.remaining = x.remaining /\ y3.start = newstart
        /\ y3.completion = x.completion /\ y3.waiting = x.waiting
        /\ y3.turnaround = x.turnaround /\ y3.response = newresp
    BY <1>10, <2>2 DEF ThreadType, SameTask
  <2> HIDE DEF y3
  <2> QED  BY <1>10, <2>3 DEF Started
<1>12. V3 = [u \in 1..N |-> IF u = t THEN y3 ELSE V[u]]
  BY <1>4, <1>5
<1> HIDE DEF V3, y3
<1>13. /\ V3 \in [1..N -> ThreadType(N)] /\ V3[t] = y3
       /\ \A u \in 1..N : u # t => V3[u] = V[u]
  BY <1>4, <1>5, <1>11, <1>12
<1>14. \A u \in 1..N : V3[u].next = V[u].next
  BY <1>11, <1>13
<1>15. \A u \in 1..N : u # t => Alike(V3[u], T[u])
  BY <1>4, <1>13
<1>16. /\ \A u \in 1..N : T[u].state \in {"READY", "RUNNING", "TERMINATED"}
       /\ \A u \in 1..N : T[u].state = "READY" <=> In(u, R)
       /\ \A u \in 1..N : T[u].state = "RUNNING" <=> u = s.running
       /\ \A u \in 1..N : T[u].state = "TERMINATED" <=> In(u, D)
  BY DEF Queued
<1>17. Listed(N, V3, s1.ready, Without(R, i))
  BY <1>1, <1>4, <1>8, <1>14, ListedStays
<1>18. Listed(N, V3, s1.terminated, D)
  <2>1. \A u \in 1..N : In(u, D) => V3[u].next = T[u].next
    <3>1. \A u \in 1..N : In(u, D) => ~In(u, R)
      BY <1>16
    <3> QED  BY <1>4, <1>14, <3>1
  <2> QED  BY <1>1, <1>8, <2>1, ListedStays
<1>19. \A u : In(u, Without(R, i)) <=> In(u, R) /\ u # R[i]
  <2>1. R \in Seq(1..N) /\ i \in 1..Len(R) /\ \A a, b \in 1..Len(R) : R[a] = R[b] => a = b
    BY <1>1 DEF Listed
  <2> QED  BY <1>1, <2>1, WithoutIs
<1>20. In(t, R) /\ V3[t].state = "RUNNING" /\ ~In(t, D)
  <2>1. In(t, R)
    BY <1>3 DEF In
  <2> QED  BY <1>5, <1>11, <1>13, <1>16, <2>1 DEF Started
<1>21. ASSUME NEW u \in 1..N
       PROVE  /\ V3[u].state \in {"READY", "RUNNING", "TERMINATED"}
              /\ V3[u].state = "READY" <=> In(u, Without(R, i))
              /\ V3[u].state = "RUNNING" <=> u = s1.running
              /\ V3[u].state = "TERMINATED" <=> In(u, D)
  <2>1. CASE u = t
    BY <1>3, <1>8, <1>19, <1>20, <2>1
  <2>2. CASE u # t
    <3>1. V3[u].state = T[u].state /\ u # s.running
      BY <1>15, <2>2 DEF Alike, Nil
    <3> QED  BY <1>3, <1>8, <1>16, <1>19, <2>2, <3>1
  <2> QED  BY <2>1, <2>2
<1>22. Queued(N, s1, V3, Without(R, i), D)
  BY <1>1, <1>8, <1>13, <1>17, <1>18, <1>21 DEF Queued
<1>23. Started(T[R[i]], V3[R[i]], s.now)
  BY <1>3, <1>9, <1>11, <1>13
<1>24. Dispatched(N, s, T, R, D, i, s1, V3)
  BY <1>3, <1>8, <1>15, <1>22, <1>23 DEF Dispatched
<1> QED  BY <1>6, <1>24

(* A thread before and after it runs for a slice.                          *)
Ran(x, y) ==
    /\ SameTask(y, x) /\ y.remaining = x.remaining - 1
    /\ y.start = x.start /\ y.response = x.response
OthersAlike(N, t, T, T2) == \A u \in 1..N : u # t => Alike(T2[u], T[u])

(* The running thread runs for a slice, and ends, or has used its quantum, *)
(* or runs on.                                                             *)
Completed(N, s, T, R, D, t, s2, T2) ==
    /\ T[t].remaining = 1 /\ s2.running = Nil
    /\ Queued(N, s2, T2, R, Append(D, t)) /\ OthersAlike(N, t, T, T2) /\ Ran(T[t], T2[t])
    /\ T2[t].state = "TERMINATED" /\ T2[t].completion = s.now + 1
    /\ T2[t].turnaround = s.now + 1 - T[t].arrival
    /\ T2[t].waiting = AtLeast0((s.now + 1 - T[t].arrival) - T[t].burst)
Requeued(N, s, T, R, D, t, s2, T2) ==
    /\ T[t].remaining > 1 /\ s.algorithm = "RR" /\ s.slice + 1 >= Quantum
    /\ s2.running = Nil
    /\ Queued(N, s2, T2, Append(R, t), D) /\ OthersAlike(N, t, T, T2) /\ Ran(T[t], T2[t])
    /\ T2[t].state = "READY"
RunsOn(N, s, T, R, D, t, s2, T2) ==
    /\ T[t].remaining > 1 /\ ~(s.algorithm = "RR" /\ s.slice + 1 >= Quantum)
    /\ s2.running = t /\ s2.slice = IF s.algorithm = "RR" THEN s.slice + 1 ELSE s.slice
    /\ Queued(N, s2, T2, R, D) /\ OthersAlike(N, t, T, T2) /\ Ran(T[t], T2[t])
    /\ T2[t].state = "RUNNING"
Executed(N, s, T, R, D, t, s2, T2) ==
    /\ s2.algorithm = s.algorithm /\ s2.now = s.now + 1
    /\ \/ Completed(N, s, T, R, D, t, s2, T2)
       \/ Requeued(N, s, T, R, D, t, s2, T2)
       \/ RunsOn(N, s, T, R, D, t, s2, T2)

(* What a queue contains when one more is put at its end.                  *)
LEMMA AppendHas ==
    ASSUME NEW N \in Nat, NEW q \in Seq(1..N), NEW t \in 1..N
    PROVE  \A u : In(u, Append(q, t)) <=> u = t \/ In(u, q)
<1> DEFINE p == Append(q, t)
<1>1. Len(q) \in Nat /\ Len(p) = Len(q) + 1 /\ p[Len(q) + 1] = t
      /\ \A i \in 1..Len(q) : p[i] = q[i]
  OBVIOUS
<1> HIDE DEF p
<1>2. \A u : In(u, p) <=> u = t \/ In(u, q)
  BY <1>1 DEF In
<1> QED  BY <1>2 DEF p

(* The parts of a state of the scheduler, to cite.                         *)
LEMMA QueuedIs ==
    ASSUME NEW N, NEW s, NEW T, NEW R, NEW D, Queued(N, s, T, R, D)
    PROVE  /\ N \in Nat /\ N <= MaxThreads /\ T \in [1..N -> ThreadType(N)]
           /\ s \in SchedType(N) /\ s.now \in Nat /\ s.slice \in Nat /\ s.running \in 0..N
           /\ s.ready \in 0..N /\ s.terminated \in 0..N
           /\ s.algorithm \in Algorithms \cup {"FCFS"}
           /\ Listed(N, T, s.ready, R) /\ Listed(N, T, s.terminated, D)
           /\ R \in Seq(1..N) /\ D \in Seq(1..N) /\ Len(R) \in Nat /\ Len(D) \in Nat
           /\ \A u \in 1..N : T[u] \in ThreadType(N)
           /\ \A u \in 1..N : T[u].state \in {"READY", "RUNNING", "TERMINATED"}
           /\ \A u \in 1..N : T[u].state = "READY" <=> In(u, R)
           /\ \A u \in 1..N : T[u].state = "RUNNING" <=> u = s.running
           /\ \A u \in 1..N : T[u].state = "TERMINATED" <=> In(u, D)
<1>1. R \in Seq(1..N) /\ D \in Seq(1..N)
  BY DEF Queued, Listed
<1> QED  BY <1>1 DEF Queued, SchedType

Used(T, t) == [T EXCEPT ![t].remaining = @ - 1]
Advanced(s, k) == [s EXCEPT !.slice = k, !.now = s.now + 1]
(* The tick a thread finishes in puts it last in the list of the ended.    *)
LEMMA CompleteIs ==
    ASSUME NEW N, NEW s, NEW T, NEW R, NEW D, Queued(N, s, T, R, D),
           NEW t \in 1..N, t = s.running, T[t].remaining = 1, T[t].arrival = 0,
           NEW U, U = Used(T, t)
    PROVE  LET e == Complete(s, U)
               s2 == [e.sched EXCEPT !.now = @ + 1]
           IN  /\ s2.algorithm = s.algorithm /\ s2.now = s.now + 1
               /\ Completed(N, s, T, R, D, t, s2, e.thr)
<1> DEFINE x == T[t]
           y1 == [x EXCEPT !.remaining = x.remaining - 1]
           a == s.now + 1 - x.arrival
           w == AtLeast0(a - x.burst)
           y2 == [y1 EXCEPT !.state = "TERMINATED"]
           y3 == [y2 EXCEPT !.completion = s.now + 1]
           y4 == [y3 EXCEPT !.turnaround = a]
           y == [y4 EXCEPT !.waiting = w]
           V == [T EXCEPT ![t] = y]
           q == Enqueue(V, s.terminated, t)
           s1 == [s EXCEPT !.terminated = q.head, !.running = Nil]
           s2 == [s1 EXCEPT !.now = @ + 1]
<1>1. N \in Nat /\ N <= MaxThreads /\ T \in [1..N -> ThreadType(N)] /\ s.now \in Nat
  BY QueuedIs
<1>2. x \in ThreadType(N) /\ x.remaining - 1 \in Nat /\ x.arrival = 0 /\ x.burst \in Nat
  <2>1. x \in ThreadType(N)
    BY <1>1
  <2>2. x.remaining = T[t].remaining /\ x.arrival = T[t].arrival
    OBVIOUS
  <2> HIDE DEF x
  <2> QED  BY <2>1, <2>2 DEF ThreadType
<1>3. U[t] = y1 /\ U \in [1..N -> ThreadType(N)] /\ U = [T EXCEPT ![t] = y1]
  <2>1. U = [T EXCEPT ![t] = y1]
    BY <1>1 DEF Used
  <2>2. y1 \in ThreadType(N)
    BY <1>2 DEF ThreadType
  <2> HIDE DEF y1
  <2> QED  BY <1>1, <2>1, <2>2
<1>4. y1 \in ThreadType(N) /\ y1.arrival = x.arrival /\ y1.burst = x.burst
  BY <1>2 DEF ThreadType
<1>5. [U EXCEPT ![t].state = "TERMINATED", ![t].completion = s.now + 1,
                ![t].turnaround = a, ![t].waiting = w] = V
  <2>1. ASSUME NEW z \in ThreadType(N), z = y1
        PROVE  [U EXCEPT ![t].state = "TERMINATED", ![t].completion = s.now + 1,
                         ![t].turnaround = a, ![t].waiting = w] = V
    <3> HIDE DEF a, w, x, y1
    <3> QED  BY <1>1, <1>3, <2>1
  <2> QED  BY <1>4, <2>1
<1>6. Complete(s, U) =
          [sched |-> s1, thr |-> q.thr]
  <2> HIDE DEF V, x, y1, y
  <2> QED  BY <1>3, <1>4, <1>5 DEF Complete
<1>7. a \in Nat /\ w \in Nat /\ s.now + 1 \in Nat
  BY <1>1, <1>2 DEF AtLeast0
<1> HIDE DEF a, w
<1>8. /\ y \in ThreadType(N) /\ y.next = x.next /\ Ran(x, y) /\ y.state = "TERMINATED"
      /\ y.completion = s.now + 1 /\ y.turnaround = a /\ y.waiting = w
  <2>0. y1.next = x.next /\ Ran(x, y1)
    BY <1>2 DEF ThreadType, Ran, SameTask
  <2> HIDE DEF x, y1
  <2>1. y2 \in ThreadType(N) /\ y2.next = x.next /\ Ran(x, y2) /\ y2.state = "TERMINATED"
    BY <1>4, <2>0 DEF ThreadType, Ran, SameTask
  <2> HIDE DEF y2
  <2>2. y3 \in ThreadType(N) /\ y3.next = x.next /\ Ran(x, y3) /\ y3.state = "TERMINATED"
        /\ y3.completion = s.now + 1
    BY <1>7, <2>1 DEF ThreadType, Ran, SameTask
  <2> HIDE DEF y3
  <2>3. y4 \in ThreadType(N) /\ y4.next = x.next /\ Ran(x, y4) /\ y4.state = "TERMINATED"
        /\ y4.completion = s.now + 1 /\ y4.turnaround = a
    BY <1>7, <2>2 DEF ThreadType, Ran, SameTask
  <2> HIDE DEF y4
  <2> QED  BY <1>7, <2>3 DEF ThreadType, Ran, SameTask
<1> HIDE DEF y
<1>9. /\ V \in [1..N -> ThreadType(N)] /\ V[t] = y
      /\ \A u \in 1..N : u # t => V[u] = T[u]
      /\ Listed(N, V, s.ready, R) /\ Listed(N, V, s.terminated, D)
  <2>1. V \in [1..N -> ThreadType(N)] /\ V[t] = y /\ \A u \in 1..N : u # t => V[u] = T[u]
    BY <1>1, <1>8
  <2> HIDE DEF V
  <2>2. \A u \in 1..N : V[u].next = T[u].next
    BY <1>8, <2>1
  <2>3. Listed(N, T, s.ready, R) /\ Listed(N, T, s.terminated, D)
    BY QueuedIs
  <2> QED  BY <1>1, <2>1, <2>2, <2>3, ListedStays
<1> HIDE DEF V
<1>10. T[t].state = "RUNNING" /\ ~In(t, R) /\ ~In(t, D) /\ t # Nil
  BY QueuedIs DEF Nil
<1>11. Enqueued(N, V, D, t, q.thr, q.head)
  BY <1>1, <1>9, <1>10, EnqueueIs
<1> HIDE DEF q
<1>12. /\ q.thr \in [1..N -> ThreadType(N)] /\ q.head \in 0..N
       /\ Listed(N, q.thr, q.head, Append(D, t))
       /\ \A u \in 1..N : Alike(q.thr[u], V[u]) /\ (u # t /\ ~In(u, D) => q.thr[u] = V[u])
  BY <1>1, <1>11 DEF Enqueued
<1>13. Listed(N, q.thr, s.ready, R)
  <2>0. /\ \A u \in 1..N : T[u].state = "READY" <=> In(u, R)
        /\ \A u \in 1..N : T[u].state = "TERMINATED" <=> In(u, D)
    BY QueuedIs
  <2>1. \A u \in 1..N : In(u, R) => u # t /\ ~In(u, D)
    BY <1>10, <2>0
  <2> QED  BY <1>1, <1>9, <1>12, <2>1, ListedStays
<1>14. OthersAlike(N, t, T, q.thr) /\ Ran(x, q.thr[t]) /\ q.thr[t].state = "TERMINATED"
       /\ q.thr[t].completion = s.now + 1 /\ q.thr[t].turnaround = a /\ q.thr[t].waiting = w
  <2>1. Alike(q.thr[t], y)
    BY <1>9, <1>12
  <2>2. \A u \in 1..N : u # t => Alike(q.thr[u], T[u])
    BY <1>9, <1>12
  <2> QED  BY <1>8, <2>1, <2>2 DEF OthersAlike, Alike, Ran, SameTask
<1>15. [Complete(s, U).sched EXCEPT !.now = @ + 1] = s2 /\ Complete(s, U).thr = q.thr
  <2> HIDE DEF s1
  <2>1. Complete(s, U).sched = s1 /\ Complete(s, U).thr = q.thr
    BY <1>6
  <2> QED  BY <2>1
<1>16. /\ s2 \in SchedType(N) /\ s2.ready = s.ready /\ s2.terminated = q.head
       /\ s2.running = Nil /\ s2.now = s.now + 1 /\ s2.algorithm = s.algorithm
  <2>1. s \in SchedType(N) /\ Nil \in 0..N /\ s.now + 1 \in Nat
    BY <1>7, QueuedIs DEF Nil
  <2>2. /\ s1 \in SchedType(N) /\ s1.ready = s.ready /\ s1.terminated = q.head
        /\ s1.running = Nil /\ s1.now = s.now /\ s1.algorithm = s.algorithm
    BY <1>12, <2>1 DEF SchedType
  <2> HIDE DEF s1
  <2> QED  BY <2>1, <2>2 DEF SchedType
<1> HIDE DEF s2
<1>17. \A u \in 1..N : q.thr[u].state = "TERMINATED" <=> In(u, Append(D, t))
  <2>1. \A u \in 1..N : u # t => q.thr[u].state = T[u].state
    BY <1>14 DEF OthersAlike, Alike
  <2>2. D \in Seq(1..N) /\ \A u \in 1..N : T[u].state = "TERMINATED" <=> In(u, D)
    BY QueuedIs
  <2>3. \A u : In(u, Append(D, t)) <=> u = t \/ In(u, D)
    BY <1>1, <2>2, AppendHas
  <2> QED  BY <1>14, <2>1, <2>2, <2>3
<1>18. ASSUME NEW u \in 1..N
       PROVE  /\ q.thr[u].state \in {"READY", "RUNNING", "TERMINATED"}
              /\ q.thr[u].state = "READY" <=> In(u, R)
              /\ q.thr[u].state = "RUNNING" <=> u = s2.running
  <2>1. CASE u = t
    BY <1>10, <1>14, <1>16, <2>1
  <2>2. CASE u # t
    <3>1. q.thr[u].state = T[u].state /\ u # Nil
      BY <1>14, <2>2 DEF OthersAlike, Alike, Nil
    <3> QED  BY <1>10, <1>16, <2>2, <3>1, QueuedIs
  <2> QED  BY <2>1, <2>2
<1>19. Queued(N, s2, q.thr, R, Append(D, t))
  BY <1>1, <1>12, <1>13, <1>16, <1>17, <1>18 DEF Queued
<1>20. Completed(N, s, T, R, D, t, s2, q.thr)
  <2>1. q.thr[t].turnaround = s.now + 1 - T[t].arrival
    BY <1>14 DEF a
  <2>2. q.thr[t].waiting = AtLeast0((s.now + 1 - T[t].arrival) - T[t].burst)
    BY <1>14 DEF a, w
  <2> HIDE DEF x
  <2> QED  BY <1>14, <1>16, <1>19, <2>1, <2>2 DEF Completed, x
<1> QED  BY <1>15, <1>16, <1>20

(* The tick its quantum ends in puts a thread last in the ready queue.     *)
LEMMA RequeueIs ==
    ASSUME NEW N, NEW s, NEW T, NEW R, NEW D, Queued(N, s, T, R, D),
           NEW t \in 1..N, t = s.running, T[t].remaining > 1, s.algorithm = "RR",
           s.slice + 1 >= Quantum, NEW U, U = Used(T, t)
    PROVE  LET e == UseQuantum(s, U)
               s2 == [e.sched EXCEPT !.now = @ + 1]
           IN  /\ s2.algorithm = s.algorithm /\ s2.now = s.now + 1
               /\ Requeued(N, s, T, R, D, t, s2, e.thr)
<1> DEFINE x == T[t]
           y1 == [x EXCEPT !.remaining = x.remaining - 1]
           y == [y1 EXCEPT !.state = "READY"]
           V == [T EXCEPT ![t] = y]
           q == Enqueue(V, s.ready, t)
           s1 == [s EXCEPT !.ready = q.head, !.running = Nil, !.slice = 0]
           s2 == [s1 EXCEPT !.now = @ + 1]
<1>1. N \in Nat /\ N <= MaxThreads /\ T \in [1..N -> ThreadType(N)] /\ s.now \in Nat
  BY QueuedIs
<1>2. x \in ThreadType(N) /\ x.remaining - 1 \in Nat
  <2>1. x \in ThreadType(N)
    BY <1>1
  <2>2. x.remaining = T[t].remaining /\ x.arrival = T[t].arrival
    OBVIOUS
  <2> HIDE DEF x
  <2> QED  BY <2>1, <2>2 DEF ThreadType
<1>3. U[t] = y1 /\ U \in [1..N -> ThreadType(N)] /\ U = [T EXCEPT ![t] = y1]
  <2>1. U = [T EXCEPT ![t] = y1]
    BY <1>1 DEF Used
  <2>2. y1 \in ThreadType(N)
    BY <1>2 DEF ThreadType
  <2> HIDE DEF y1
  <2> QED  BY <1>1, <2>1, <2>2
<1>4. y1 \in ThreadType(N) /\ y1.next = x.next /\ Ran(x, y1)
  BY <1>2 DEF ThreadType, Ran, SameTask
<1>5. [U EXCEPT ![t].state = "READY"] = V
  <2>1. ASSUME NEW z \in ThreadType(N), z = y1
        PROVE  [U EXCEPT ![t].state = "READY"] = V
    <3> HIDE DEF x, y1
    <3> QED  BY <1>1, <1>3, <2>1
  <2> QED  BY <1>4, <2>1
<1>6. UseQuantum(s, U) = [sched |-> s1, thr |-> q.thr]
  <2> HIDE DEF V, x, y1, y
  <2> QED  BY <1>5 DEF UseQuantum
<1>7. y \in ThreadType(N) /\ y.next = x.next /\ Ran(x, y) /\ y.state = "READY"
  <2> HIDE DEF x, y1
  <2> QED  BY <1>4 DEF ThreadType, Ran, SameTask
<1> HIDE DEF y
<1>8. /\ V \in [1..N -> ThreadType(N)] /\ V[t] = y
      /\ \A u \in 1..N : u # t => V[u] = T[u]
      /\ Listed(N, V, s.ready, R) /\ Listed(N, V, s.terminated, D)
  <2>1. V \in [1..N -> ThreadType(N)] /\ V[t] = y /\ \A u \in 1..N : u # t => V[u] = T[u]
    BY <1>1, <1>7
  <2> HIDE DEF V
  <2>2. \A u \in 1..N : V[u].next = T[u].next
    BY <1>7, <2>1
  <2>3. Listed(N, T, s.ready, R) /\ Listed(N, T, s.terminated, D)
    BY QueuedIs
  <2> QED  BY <1>1, <2>1, <2>2, <2>3, ListedStays
<1> HIDE DEF V
<1>9. T[t].state = "RUNNING" /\ ~In(t, R) /\ ~In(t, D) /\ t # Nil
  BY QueuedIs DEF Nil
<1>10. Enqueued(N, V, R, t, q.thr, q.head)
  BY <1>1, <1>8, <1>9, EnqueueIs
<1> HIDE DEF q
<1>11. /\ q.thr \in [1..N -> ThreadType(N)] /\ q.head \in 0..N
       /\ Listed(N, q.thr, q.head, Append(R, t))
       /\ \A u \in 1..N : Alike(q.thr[u], V[u]) /\ (u # t /\ ~In(u, R) => q.thr[u] = V[u])
  BY <1>1, <1>10 DEF Enqueued
<1>12. Listed(N, q.thr, s.terminated, D)
  <2>0. /\ \A u \in 1..N : T[u].state = "READY" <=> In(u, R)
        /\ \A u \in 1..N : T[u].state = "TERMINATED" <=> In(u, D)
    BY QueuedIs
  <2>1. \A u \in 1..N : In(u, D) => u # t /\ ~In(u, R)
    BY <1>9, <2>0
  <2> QED  BY <1>1, <1>8, <1>11, <2>1, ListedStays
<1>13. OthersAlike(N, t, T, q.thr) /\ Ran(x, q.thr[t]) /\ q.thr[t].state = "READY"
  <2>1. Alike(q.thr[t], y)
    BY <1>8, <1>11
  <2>2. \A u \in 1..N : u # t => Alike(q.thr[u], T[u])
    BY <1>8, <1>11
  <2> QED  BY <1>7, <2>1, <2>2 DEF OthersAlike, Alike, Ran, SameTask
<1>14. [UseQuantum(s, U).sched EXCEPT !.now = @ + 1] = s2 /\ UseQuantum(s, U).thr = q.thr
  <2> HIDE DEF s1
  <2>1. UseQuantum(s, U).sched = s1 /\ UseQuantum(s, U).thr = q.thr
    BY <1>6
  <2> QED  BY <2>1
<1>15. /\ s2 \in SchedType(N) /\ s2.ready = q.head /\ s2.terminated = s.terminated
       /\ s2.running = Nil /\ s2.now = s.now + 1 /\ s2.algorithm = s.algorithm
  <2>1. s \in SchedType(N) /\ Nil \in 0..N /\ s.now + 1 \in Nat /\ 0 \in Nat
    BY <1>1, QueuedIs DEF Nil
  <2>2. /\ s1 \in SchedType(N) /\ s1.ready = q.head /\ s1.terminated = s.terminated
        /\ s1.running = Nil /\ s1.now = s.now /\ s1.algorithm = s.algorithm
    BY <1>11, <2>1 DEF SchedType
  <2> HIDE DEF s1
  <2> QED  BY <2>1, <2>2 DEF SchedType
<1> HIDE DEF s2
<1>16. \A u \in 1..N : q.thr[u].state = "READY" <=> In(u, Append(R, t))
  <2>1. \A u \in 1..N : u # t => q.thr[u].state = T[u].state
    BY <1>13 DEF OthersAlike, Alike
  <2>2. R \in Seq(1..N) /\ \A u \in 1..N : T[u].state = "READY" <=> In(u, R)
    BY QueuedIs
  <2>3. \A u : In(u, Append(R, t)) <=> u = t \/ In(u, R)
    BY <1>1, <2>2, AppendHas
  <2> QED  BY <1>13, <2>1, <2>2, <2>3
<1>17. ASSUME NEW u \in 1..N
       PROVE  /\ q.thr[u].state \in {"READY", "RUNNING", "TERMINATED"}
              /\ q.thr[u].state = "TERMINATED" <=> In(u, D)
              /\ q.thr[u].state = "RUNNING" <=> u = s2.running
  <2>1. CASE u = t
    BY <1>9, <1>13, <1>15, <2>1
  <2>2. CASE u # t
    <3>1. q.thr[u].state = T[u].state /\ u # Nil
      BY <1>13, <2>2 DEF OthersAlike, Alike, Nil
    <3>2. /\ T[u].state \in {"READY", "RUNNING", "TERMINATED"}
          /\ T[u].state = "TERMINATED" <=> In(u, D)
          /\ T[u].state = "RUNNING" <=> u = t
      BY QueuedIs
    <3> QED  BY <1>15, <2>2, <3>1, <3>2
  <2> QED  BY <2>1, <2>2
<1>18. Queued(N, s2, q.thr, Append(R, t), D)
  BY <1>1, <1>11, <1>12, <1>15, <1>16, <1>17 DEF Queued
<1>19. Requeued(N, s, T, R, D, t, s2, q.thr)
  BY <1>13, <1>15, <1>18 DEF Requeued
<1> QED  BY <1>14, <1>15, <1>19

(* In any other tick the running thread only runs.                         *)
LEMMA RunsOnIs ==
    ASSUME NEW N, NEW s, NEW T, NEW R, NEW D, Queued(N, s, T, R, D),
           NEW t \in 1..N, t = s.running, T[t].remaining > 1,
           ~(s.algorithm = "RR" /\ s.slice + 1 >= Quantum),
           NEW U, U = Used(T, t),
           NEW k \in Nat, k = IF s.algorithm = "RR" THEN s.slice + 1 ELSE s.slice,
           NEW s2, s2 = Advanced(s, k)
    PROVE  /\ s2.algorithm = s.algorithm /\ s2.now = s.now + 1
           /\ RunsOn(N, s, T, R, D, t, s2, U)
<1> DEFINE x == T[t]
           y == [x EXCEPT !.remaining = x.remaining - 1]
<1>1. N \in Nat /\ N <= MaxThreads /\ T \in [1..N -> ThreadType(N)] /\ s.now \in Nat
  BY QueuedIs
<1>2. x \in ThreadType(N) /\ x.remaining - 1 \in Nat
  <2>1. x \in ThreadType(N)
    BY <1>1
  <2>2. x.remaining = T[t].remaining
    OBVIOUS
  <2> HIDE DEF x
  <2> QED  BY <2>1, <2>2 DEF ThreadType
<1>3. y \in ThreadType(N) /\ y.next = x.next /\ Ran(x, y) /\ y.state = x.state
  BY <1>2 DEF ThreadType, Ran, SameTask
<1>4. U = [T EXCEPT ![t] = y]
  BY <1>1 DEF Used
<1> HIDE DEF y
<1>5. U \in [1..N -> ThreadType(N)] /\ U[t] = y /\ \A u \in 1..N : u # t => U[u] = T[u]
  BY <1>1, <1>3, <1>4
<1>6. Listed(N, U, s.ready, R) /\ Listed(N, U, s.terminated, D)
  <2>1. \A u \in 1..N : U[u].next = T[u].next
    BY <1>3, <1>5
  <2>2. Listed(N, T, s.ready, R) /\ Listed(N, T, s.terminated, D)
    BY QueuedIs
  <2> QED  BY <1>1, <2>1, <2>2, ListedStays
<1>7. /\ s2 \in SchedType(N) /\ s2.ready = s.ready /\ s2.terminated = s.terminated
      /\ s2.running = t /\ s2.now = s.now + 1 /\ s2.algorithm = s.algorithm /\ s2.slice = k
  <2>1. s \in SchedType(N) /\ s.now + 1 \in Nat
    BY <1>1, QueuedIs
  <2> QED  BY <2>1 DEF SchedType, Advanced
<1>8. \A u \in 1..N : U[u].state = T[u].state
  BY <1>3, <1>5
<1>9. T[t].state = "RUNNING"
  BY QueuedIs
<1>10. Queued(N, s2, U, R, D)
  BY <1>1, <1>5, <1>6, <1>7, <1>8, QueuedIs DEF Queued
<1>11. OthersAlike(N, t, T, U) /\ Ran(x, U[t]) /\ U[t].state = "RUNNING"
  BY <1>3, <1>5, <1>8, <1>9 DEF OthersAlike, Alike
<1> QED  BY <1>7, <1>10, <1>11 DEF RunsOn

(* What a tick does with a running thread: it ends, goes back or runs on.  *)
LEMMA ExecuteIs ==
    ASSUME NEW N, NEW s, NEW T, NEW R, NEW D, Queued(N, s, T, R, D),
           NEW t \in 1..N, t = s.running, T[t].remaining >= 1, T[t].arrival = 0
    PROVE  Executed(N, s, T, R, D, t, Tick(Execute(s, T).sched, s.running), Execute(s, T).thr)
<1> DEFINE U == Used(T, t)
           e == Execute(s, T)
           s2 == Tick(e.sched, s.running)
<1>1. /\ N \in Nat /\ T \in [1..N -> ThreadType(N)] /\ s.now \in Nat /\ s.slice \in Nat
      /\ s \in SchedType(N)
  BY QueuedIs
<1>2. T[t] \in ThreadType(N) /\ T[t].remaining \in Nat
  BY <1>1 DEF ThreadType
<1>3. U[t].remaining = T[t].remaining - 1 /\ t # Nil /\ Quantum \in Nat
  BY <1>1, <1>2, Parameters DEF ThreadType, Nil, Used
<1>4. U = Used(T, t)
  OBVIOUS
<1>5. s2 = [e.sched EXCEPT !.now = @ + 1]
  BY DEF Tick
<1>6. e = CASE t = Nil -> [sched |-> s, thr |-> T]
            [] t # Nil /\ U[t].remaining <= 0 -> Complete(s, U)
            [] t # Nil /\ U[t].remaining > 0 /\ s.algorithm = "RR" -> UseQuantum(s, U)
            [] OTHER -> [sched |-> s, thr |-> U]
  BY DEF Execute, Used
<1> HIDE DEF U, e, s2
<1>7. CASE T[t].remaining = 1
  <2>1. U[t].remaining <= 0 /\ ~(U[t].remaining > 0)
    BY <1>3, <1>7
  <2>2. e = Complete(s, U)
    BY <1>3, <1>6, <2>1
  <2>3. LET f == Complete(s, U)
            s3 == [f.sched EXCEPT !.now = @ + 1]
        IN  /\ s3.algorithm = s.algorithm /\ s3.now = s.now + 1
            /\ Completed(N, s, T, R, D, t, s3, f.thr)
    BY <1>4, <1>7, CompleteIs
  <2>4. s2.algorithm = s.algorithm /\ s2.now = s.now + 1 /\ Completed(N, s, T, R, D, t, s2, e.thr)
    BY <1>5, <2>2, <2>3
  <2> QED  BY <2>4 DEF Executed, e, s2
<1>8. CASE T[t].remaining > 1 /\ s.algorithm = "RR" /\ s.slice + 1 >= Quantum
  <2>1. ~(U[t].remaining <= 0) /\ U[t].remaining > 0
    BY <1>2, <1>3, <1>8
  <2>2. e = UseQuantum(s, U)
    BY <1>3, <1>6, <1>8, <2>1
  <2>3. LET f == UseQuantum(s, U)
            s3 == [f.sched EXCEPT !.now = @ + 1]
        IN  /\ s3.algorithm = s.algorithm /\ s3.now = s.now + 1
            /\ Requeued(N, s, T, R, D, t, s3, f.thr)
    BY <1>4, <1>8, RequeueIs
  <2>4. s2.algorithm = s.algorithm /\ s2.now = s.now + 1 /\ Requeued(N, s, T, R, D, t, s2, e.thr)
    BY <1>5, <2>2, <2>3
  <2> QED  BY <2>4 DEF Executed, e, s2
<1>9. CASE T[t].remaining > 1 /\ ~(s.algorithm = "RR" /\ s.slice + 1 >= Quantum)
  <2> DEFINE k == IF s.algorithm = "RR" THEN s.slice + 1 ELSE s.slice
  <2>1. ~(U[t].remaining <= 0) /\ U[t].remaining > 0
    BY <1>2, <1>3, <1>9
  <2>2. e.thr = U /\ s2 = Advanced(s, k)
    <3>1. CASE s.algorithm = "RR"
      <4>1. e = UseQuantum(s, U)
        BY <1>3, <1>6, <2>1, <3>1
      <4>2. ~(s.slice + 1 >= Quantum)
        BY <1>9, <3>1
      <4>3. e = [sched |-> [s EXCEPT !.slice = @ + 1], thr |-> U]
        BY <4>1, <4>2 DEF UseQuantum
      <4>4. e.sched = [s EXCEPT !.slice = @ + 1] /\ e.thr = U
        BY <4>3
      <4> QED  BY <1>1, <1>5, <3>1, <4>4 DEF SchedType, Advanced
    <3>2. CASE s.algorithm # "RR"
      <4>1. e = [sched |-> s, thr |-> U]
        BY <1>3, <1>6, <2>1, <3>2
      <4>2. e.sched = s /\ e.thr = U
        BY <4>1
      <4>3. s2 = [s EXCEPT !.now = @ + 1]
        BY <1>5, <4>2
      <4> QED  BY <1>1, <3>2, <4>2, <4>3 DEF SchedType, Advanced
    <3> QED  BY <3>1, <3>2
  <2>3. k \in Nat
    BY <1>1
  <2>4. k = IF s.algorithm = "RR" THEN s.slice + 1 ELSE s.slice
    OBVIOUS
  <2> HIDE DEF k
  <2>5. s2.algorithm = s.algorithm /\ s2.now = s.now + 1 /\ RunsOn(N, s, T, R, D, t, s2, U)
    BY <1>4, <1>9, <2>2, <2>3, <2>4, RunsOnIs
  <2> QED  BY <2>2, <2>5 DEF Executed, e, s2
<1> QED  BY <1>2, <1>7, <1>8, <1>9

-----------------------------------------------------------------------------
(* Times.                                                                  *)

(* The work that the threads have done takes all the time that has passed, *)
(* and the times of a thread follow from one another.                      *)
Work(N, T) == [t \in 1..N |-> T[t].burst - T[t].remaining]
TimesOf(x, now) ==
    /\ x.arrival = 0 /\ x.remaining <= x.burst
    /\ x.state = "TERMINATED" <=> x.remaining = 0
    /\ x.start = -1 => x.state = "READY" /\ x.remaining = x.burst /\ x.response = -1
    /\ x.start # -1 => x.response = x.start
    /\ x.state = "TERMINATED" =>
          /\ x.burst <= x.completion /\ x.completion <= now
          /\ x.waiting = x.completion - x.burst /\ x.turnaround = x.completion
Timed(N, s, T) ==
    /\ \A t \in 1..N : TimesOf(T[t], s.now)
    /\ s.now = Total(Work(N, T))

(* No number is more than the total.                                       *)
LEMMA TotalAtLeast ==
    ASSUME NEW N \in Nat, NEW g \in [1..N -> Nat], NEW a \in 1..N
    PROVE  g[a] <= Total(g)
<1> DEFINE f == [i \in 1..N |-> IF i = a THEN g[a] ELSE 0]
<1>1. g[a] \in Int /\ f \in [1..N -> Int] /\ g \in [1..N -> Int] /\ \A i \in 1..N : f[i] <= g[i]
  OBVIOUS
<1>2. Total(f) = g[a]
  BY <1>1, TotalOne
<1> HIDE DEF f
<1>3. Total(f) <= Total(g)
  BY <1>1, TotalLeq
<1> QED  BY <1>2, <1>3

(* The work of a thread is a number.                                       *)
LEMMA WorkIs ==
    ASSUME NEW N \in Nat, NEW s, NEW T \in [1..N -> ThreadType(N)], Timed(N, s, T)
    PROVE  /\ Work(N, T) \in [1..N -> Nat] /\ Work(N, T) \in [1..N -> Int]
           /\ \A t \in 1..N : Work(N, T)[t] = T[t].burst - T[t].remaining
           /\ \A t \in 1..N : /\ T[t].burst \in Nat \ {0} /\ T[t].remaining \in 0..T[t].burst
                              /\ T[t].start \in Nat \cup {-1} /\ T[t].priority \in Nat
                              /\ T[t].waiting \in Nat /\ T[t].turnaround \in Nat
                              /\ T[t].completion \in Nat \cup {-1}
                              /\ T[t].response \in Nat \cup {-1}
<1>1. ASSUME NEW t \in 1..N
      PROVE  /\ T[t].burst \in Nat \ {0} /\ T[t].remaining \in Nat
             /\ T[t].start \in Nat \cup {-1} /\ T[t].remaining <= T[t].burst
             /\ T[t].priority \in Nat /\ T[t].waiting \in Nat /\ T[t].turnaround \in Nat
             /\ T[t].completion \in Nat \cup {-1} /\ T[t].response \in Nat \cup {-1}
  <2>1. T[t] \in ThreadType(N) /\ T[t].remaining <= T[t].burst
    BY DEF Timed, TimesOf
  <2> QED  BY <2>1 DEF ThreadType
<1>2. \A t \in 1..N : T[t].burst - T[t].remaining \in Nat
  BY <1>1
<1>3. \A t \in 1..N : T[t].remaining \in 0..T[t].burst
  BY <1>1
<1> QED  BY <1>1, <1>2, <1>3 DEF Work

(* Times stay right when a thread is dispatched ...                        *)
LEMMA TimedDispatch ==
    ASSUME NEW N, NEW s, NEW T, NEW R, NEW D, NEW i, NEW s1, NEW T1,
           Queued(N, s, T, R, D), Timed(N, s, T), Dispatched(N, s, T, R, D, i, s1, T1)
    PROVE  Timed(N, s1, T1)
<1> DEFINE t == R[i]
<1>1. /\ N \in Nat /\ T \in [1..N -> ThreadType(N)] /\ s.now \in Nat /\ s1.now = s.now
      /\ T1 \in [1..N -> ThreadType(N)]
  <2>1. Queued(N, s1, T1, Without(R, i), D) /\ s1.now = s.now
    BY DEF Dispatched
  <2> QED  BY <2>1, QueuedIs
<1>2. t \in 1..N /\ T[t].state = "READY"
  <2>1. i \in 1..Len(R) /\ R \in Seq(1..N)
    BY QueuedIs DEF Dispatched
  <2>2. t \in 1..N /\ In(t, R)
    <3>1. t \in 1..N
      <4> DEFINE S == 1..N
      <4>1. R \in Seq(S)
        BY <2>1
      <4> HIDE DEF S
      <4>2. R[i] \in S
        BY <2>1, <4>1
      <4> QED  BY <4>2 DEF S
    <3> QED  BY <2>1, <3>1 DEF In
  <2> QED  BY <2>2, QueuedIs
<1>3. Started(T[t], T1[t], s.now) /\ \A u \in 1..N : u # t => Alike(T1[u], T[u])
  BY DEF Dispatched
<1> HIDE DEF t
<1>4. \A u \in 1..N : TimesOf(T[u], s.now)
  BY DEF Timed
<1>5. ASSUME NEW u \in 1..N
      PROVE  /\ TimesOf(T1[u], s.now) /\ T1[u].burst = T[u].burst
             /\ T1[u].remaining = T[u].remaining
  <2>1. CASE u = t
    <3>1. AtLeast0(s.now - T[t].arrival) = s.now
      BY <1>1, <1>2, <1>4 DEF TimesOf, AtLeast0
    <3>2. s.now # -1
      BY <1>1
    <3> QED  BY <1>2, <1>3, <1>4, <2>1, <3>1, <3>2 DEF TimesOf, Started, SameTask
  <2>2. CASE u # t
    <3>1. Alike(T1[u], T[u]) /\ TimesOf(T[u], s.now)
      BY <1>3, <1>4, <2>2
    <3> QED  BY <3>1 DEF TimesOf, Alike
  <2> QED  BY <2>1, <2>2
<1>6. Work(N, T1) = Work(N, T)
  BY <1>5 DEF Work
<1> QED  BY <1>1, <1>5, <1>6 DEF Timed

(* ... and when it runs.                                                   *)
LEMMA TimedExecute ==
    ASSUME NEW N, NEW s, NEW T, NEW R, NEW D, NEW t \in 1..N, NEW s2, NEW T2,
           Queued(N, s, T, R, D), Timed(N, s, T), t = s.running,
           Executed(N, s, T, R, D, t, s2, T2)
    PROVE  Timed(N, s2, T2)
<1>1. /\ N \in Nat /\ T \in [1..N -> ThreadType(N)] /\ s.now \in Nat /\ s2.now = s.now + 1
      /\ T[t].state = "RUNNING"
  BY QueuedIs DEF Executed
<1>2. T2 \in [1..N -> ThreadType(N)] /\ OthersAlike(N, t, T, T2) /\ Ran(T[t], T2[t])
  BY DEF Executed, Completed, Requeued, RunsOn, Queued
<1>3. \A u \in 1..N : TimesOf(T[u], s.now)
  BY DEF Timed
<1>4. /\ Work(N, T) \in [1..N -> Int]
      /\ \A u \in 1..N : Work(N, T)[u] = T[u].burst - T[u].remaining
      /\ T[t].burst \in Nat \ {0} /\ T[t].remaining \in 0..T[t].burst
      /\ T[t].start \in Nat \cup {-1}
  BY <1>1, WorkIs
<1>5. T[t].remaining >= 1 /\ T[t].start # -1
  BY <1>1, <1>3, <1>4 DEF TimesOf
<1>6. /\ T2[t].burst = T[t].burst /\ T2[t].remaining = T[t].remaining - 1
      /\ T2[t].arrival = T[t].arrival /\ T2[t].start = T[t].start
      /\ T2[t].response = T[t].response
  BY <1>2 DEF Ran, SameTask
<1>7. \A u \in 1..N : u # t => Alike(T2[u], T[u])
  BY <1>2 DEF OthersAlike
<1>8. /\ \A u \in 1..N : Work(N, T2)[u] = T2[u].burst - T2[u].remaining
      /\ Work(N, T2) = [u \in 1..N |-> T2[u].burst - T2[u].remaining]
  BY DEF Work
<1>9. \A u \in 1..N : u # t => Work(N, T2)[u] = Work(N, T)[u]
  BY <1>4, <1>7, <1>8 DEF Alike
<1>10. Work(N, T2)[t] = Work(N, T)[t] + 1 /\ Work(N, T)[t] \in Nat
  <2>1. Work(N, T)[t] = T[t].burst - T[t].remaining
    BY <1>4
  <2>2. Work(N, T2)[t] = T2[t].burst - T2[t].remaining
    BY <1>8
  <2> DEFINE b == T[t].burst
             r == T[t].remaining
  <2>3. b \in Nat /\ r \in 0..b
    BY <1>4
  <2>4. Work(N, T)[t] = b - r /\ Work(N, T2)[t] = b - (r - 1)
    BY <1>6, <2>1, <2>2
  <2> HIDE DEF b, r
  <2>5. b - (r - 1) = (b - r) + 1 /\ b - r \in Nat
    BY <2>3
  <2> QED  BY <2>4, <2>5
<1>11. Work(N, T2) \in [1..N -> Nat]
  <2>1. \A u \in 1..N : Work(N, T2)[u] \in Nat
    <3>1. Work(N, T) \in [1..N -> Nat]
      BY <1>1, WorkIs
    <3> QED  BY <1>9, <1>10, <3>1
  <2> QED  BY <1>8, <2>1
<1>12. Work(N, T2) \in [1..N -> Int]
  BY <1>11
<1>13. s2.now = Total(Work(N, T2))
  <2> DEFINE f == Work(N, T)
             g == Work(N, T2)
  <2>1. f \in [1..N -> Int] /\ g \in [1..N -> Int] /\ \A u \in 1..N : u # t => g[u] = f[u]
    BY <1>4, <1>9, <1>12
  <2>2. g[t] - f[t] = 1
    BY <1>10
  <2>3. s.now = Total(f)
    BY DEF Timed
  <2> HIDE DEF f, g
  <2>4. Total(g) = Total(f) + (g[t] - f[t])
    BY <1>1, <2>1, TotalMore
  <2> QED  BY <1>1, <2>2, <2>3, <2>4 DEF g
<1>14. Work(N, T2)[t] <= s2.now
  BY <1>1, <1>11, <1>13, TotalAtLeast
<1>15. TimesOf(T2[t], s2.now)
  <2>1. CASE Completed(N, s, T, R, D, t, s2, T2)
    <3>1. /\ T[t].remaining = 1 /\ T2[t].state = "TERMINATED" /\ T2[t].completion = s.now + 1
          /\ T2[t].turnaround = s.now + 1 - T[t].arrival
          /\ T2[t].waiting = AtLeast0((s.now + 1 - T[t].arrival) - T[t].burst)
      BY <2>1 DEF Completed
    <3>2. T[t].arrival = 0 /\ T2[t].remaining = 0
      BY <1>3, <1>6, <3>1 DEF TimesOf
    <3>3. T2[t].burst <= s.now + 1
      BY <1>1, <1>4, <1>6, <1>8, <1>14, <3>2
    <3>4. T2[t].turnaround = s.now + 1 /\ T2[t].waiting = (s.now + 1) - T2[t].burst
      BY <1>1, <1>4, <1>6, <3>1, <3>2, <3>3 DEF AtLeast0
    <3> QED  BY <1>1, <1>3, <1>4, <1>5, <1>6, <3>1, <3>2, <3>3, <3>4 DEF TimesOf
  <2>2. CASE ~Completed(N, s, T, R, D, t, s2, T2)
    <3>1. T[t].remaining > 1 /\ T2[t].state \in {"READY", "RUNNING"}
      BY <2>2 DEF Executed, Requeued, RunsOn
    <3>2. TimesOf(T[t], s.now)
      BY <1>3
    <3>3. T2[t].remaining # 0 /\ T2[t].remaining <= T2[t].burst
      BY <1>4, <1>6, <3>1
    <3> QED  BY <1>5, <1>6, <3>1, <3>2, <3>3 DEF TimesOf
  <2> QED  BY <2>1, <2>2
<1>16. ASSUME NEW u \in 1..N, u # t PROVE TimesOf(T2[u], s2.now)
  <2>1. Alike(T2[u], T[u]) /\ TimesOf(T[u], s.now) /\ T[u] \in ThreadType(N)
    BY <1>1, <1>3, <1>7, <1>16
  <2>2. T[u].completion \in Nat \cup {-1}
    BY <2>1 DEF ThreadType
  <2> QED  BY <1>1, <2>1, <2>2 DEF TimesOf, Alike
<1> QED  BY <1>13, <1>15, <1>16 DEF Timed

-----------------------------------------------------------------------------
(* Every algorithm but round robin runs the threads one after the other.   *)

(* The members of the queues are threads, in the state that goes with it.  *)
LEMMA PlacedIs ==
    ASSUME NEW N, NEW s, NEW T, NEW R, NEW D, Queued(N, s, T, R, D)
    PROVE  /\ \A j \in 1..Len(R) : R[j] \in 1..N /\ T[R[j]].state = "READY"
           /\ \A j \in 1..Len(D) : D[j] \in 1..N /\ T[D[j]].state = "TERMINATED"
           /\ \A i, j \in 1..Len(R) : R[i] = R[j] => i = j
           /\ \A i, j \in 1..Len(D) : D[i] = D[j] => i = j
           /\ \A u \in 1..N : T[u].state = "READY" => \E j \in 1..Len(R) : R[j] = u
           /\ \A u \in 1..N : T[u].state = "TERMINATED" => \E j \in 1..Len(D) : D[j] = u
<1>1. R \in Seq(1..N) /\ D \in Seq(1..N)
  BY QueuedIs
<1>2. \A j \in 1..Len(R) : R[j] \in 1..N
  <2> DEFINE S == 1..N
  <2>1. R \in Seq(S)
    BY <1>1
  <2> HIDE DEF S
  <2>2. \A j \in 1..Len(R) : R[j] \in S
    BY <2>1
  <2> QED  BY <2>2 DEF S
<1>3. \A j \in 1..Len(D) : D[j] \in 1..N
  <2> DEFINE S == 1..N
  <2>1. D \in Seq(S)
    BY <1>1
  <2> HIDE DEF S
  <2>2. \A j \in 1..Len(D) : D[j] \in S
    BY <2>1
  <2> QED  BY <2>2 DEF S
<1>4. /\ \A u \in 1..N : T[u].state = "READY" <=> In(u, R)
      /\ \A u \in 1..N : T[u].state = "TERMINATED" <=> In(u, D)
  BY QueuedIs
<1>5. Listed(N, T, s.ready, R) /\ Listed(N, T, s.terminated, D)
  BY QueuedIs
<1> QED  BY <1>2, <1>3, <1>4, <1>5 DEF In, Listed

(* Whether u runs before t, and the time of those that do.                 *)
Before(alg, T, u, t) ==
    CASE alg = "SJF" -> \/ T[u].burst < T[t].burst
                        \/ T[u].burst = T[t].burst /\ u < t
      [] alg = "PRIORITY" -> \/ T[u].priority > T[t].priority
                             \/ T[u].priority = T[t].priority /\ u < t
      [] OTHER -> u < t
TimeBefore(N, alg, T, t) ==
    Total([u \in 1..N |-> IF Before(alg, T, u, t) THEN T[u].burst ELSE 0])

(* Those that have run, run before those that have not; a thread starts    *)
(* when they have run, and runs to its end.                                *)
Increasing(R) == \A i, j \in 1..Len(R) : i < j => R[i] < R[j]
InTurn(N, s, T, R) ==
    /\ Increasing(R)
    /\ \A t \in 1..N : T[t].state = "READY" => T[t].start = -1
    /\ \A u, t \in 1..N :
          T[u].state # "READY" /\ T[t].state = "READY" => Before(s.algorithm, T, u, t)
    /\ \A t \in 1..N : T[t].start # -1 => T[t].start = TimeBefore(N, s.algorithm, T, t)
    /\ \A t \in 1..N : T[t].state = "RUNNING" =>
                           s.now = T[t].start + (T[t].burst - T[t].remaining)
    /\ \A t \in 1..N : T[t].state = "TERMINATED" =>
                           T[t].completion = T[t].start + T[t].burst

(* Running before is about what never changes ...                          *)
LEMMA BeforeSame ==
    ASSUME NEW N, NEW alg, NEW T, NEW U, \A u \in 1..N : SameTask(U[u], T[u])
    PROVE  /\ \A u, t \in 1..N : Before(alg, U, u, t) <=> Before(alg, T, u, t)
           /\ \A t \in 1..N : TimeBefore(N, alg, U, t) = TimeBefore(N, alg, T, t)
<1>1. \A u \in 1..N : U[u].burst = T[u].burst /\ U[u].priority = T[u].priority
  BY DEF SameTask
<1>2. \A u, t \in 1..N : Before(alg, U, u, t) <=> Before(alg, T, u, t)
  BY <1>1 DEF Before
<1>3. ASSUME NEW t \in 1..N PROVE TimeBefore(N, alg, U, t) = TimeBefore(N, alg, T, t)
  <2>1. [u \in 1..N |-> IF Before(alg, U, u, t) THEN U[u].burst ELSE 0]
            = [u \in 1..N |-> IF Before(alg, T, u, t) THEN T[u].burst ELSE 0]
    BY <1>1, <1>2
  <2> QED  BY <2>1 DEF TimeBefore
<1> QED  BY <1>2, <1>3

(* ... and of two threads only one can run before the other.               *)
LEMMA BeforeAsym ==
    ASSUME NEW N \in Nat, NEW alg, NEW T \in [1..N -> ThreadType(N)],
           NEW u \in 1..N, NEW t \in 1..N, Before(alg, T, u, t)
    PROVE  u # t /\ ~Before(alg, T, t, u)
<1>1. T[u] \in ThreadType(N) /\ T[t] \in ThreadType(N)
  OBVIOUS
<1>2. /\ T[u].burst \in Nat /\ T[t].burst \in Nat
      /\ T[u].priority \in Nat /\ T[t].priority \in Nat
  BY <1>1 DEF ThreadType
<1> QED  BY <1>2 DEF Before

(* The thread that is chosen runs before the others in the queue.          *)
LEMMA ChosenFirst ==
    ASSUME NEW N, NEW s, NEW T, NEW R, NEW D, Queued(N, s, T, R, D), Timed(N, s, T),
           InTurn(N, s, T, R), s.algorithm # "RR", NEW i \in 1..Len(R),
           Chosen(s.algorithm, T, R, i), NEW j \in 1..Len(R), j # i
    PROVE  Before(s.algorithm, T, R[i], R[j])
<1>1. /\ R[i] \in 1..N /\ R[j] \in 1..N /\ Len(R) \in Nat
      /\ T[R[i]].state = "READY" /\ T[R[j]].state = "READY"
  BY PlacedIs, QueuedIs
<1>2. /\ T[R[i]].remaining = T[R[i]].burst /\ T[R[j]].remaining = T[R[j]].burst
  BY <1>1 DEF InTurn, Timed, TimesOf
<1>3. /\ T[R[i]].burst \in Nat /\ T[R[j]].burst \in Nat
      /\ T[R[i]].priority \in Nat /\ T[R[j]].priority \in Nat
  <2>1. T[R[i]] \in ThreadType(N) /\ T[R[j]] \in ThreadType(N)
    BY <1>1, QueuedIs
  <2> QED  BY <2>1 DEF ThreadType
<1>4. i < j => R[i] < R[j]
  BY DEF InTurn, Increasing
<1>5. i < j \/ j \in 1..i-1
  OBVIOUS
<1> DEFINE alg == s.algorithm
           x == T[R[i]]
           y == T[R[j]]
           u == R[i]
           t == R[j]
<1>6. CASE alg = "SJF"
  <2>1. x.remaining <= y.remaining /\ (j \in 1..i-1 => x.remaining < y.remaining)
    BY <1>6 DEF Chosen
  <2>2. x.burst <= y.burst /\ (j \in 1..i-1 => x.burst < y.burst)
    BY <1>2, <2>1
  <2>3. Before(alg, T, u, t) <=> x.burst < y.burst \/ (x.burst = y.burst /\ u < t)
    BY <1>6 DEF Before
  <2> HIDE DEF alg, x, y, u, t
  <2>4. x.burst < y.burst \/ (x.burst = y.burst /\ i < j)
    BY <1>3, <1>5, <2>2 DEF x, y
  <2> QED  BY <1>4, <2>3, <2>4 DEF alg, u, t
<1>7. CASE alg = "PRIORITY"
  <2>1. x.priority >= y.priority /\ (j \in 1..i-1 => x.priority > y.priority)
    BY <1>7 DEF Chosen
  <2>2. Before(alg, T, u, t) <=>
          x.priority > y.priority \/ (x.priority = y.priority /\ u < t)
    BY <1>7 DEF Before
  <2> HIDE DEF alg, x, y, u, t
  <2>3. x.priority > y.priority \/ (x.priority = y.priority /\ i < j)
    BY <1>3, <1>5, <2>1 DEF x, y
  <2> QED  BY <1>4, <2>2, <2>3 DEF alg, u, t
<1>8. CASE alg \notin {"SJF", "PRIORITY"}
  <2>1. i = 1
    BY <1>8 DEF Chosen
  <2>2. i < j
    BY <2>1
  <2>3. Before(alg, T, u, t) <=> u < t
    BY <1>8 DEF Before
  <2> QED  BY <1>4, <2>2, <2>3
<1> QED  BY <1>6, <1>7, <1>8

(* Turns are kept when a thread is dispatched ...                          *)
LEMMA InTurnDispatch ==
    ASSUME NEW N, NEW s, NEW T, NEW R, NEW D, NEW i, NEW s1, NEW T1,
           Queued(N, s, T, R, D), Timed(N, s, T), InTurn(N, s, T, R), s.algorithm # "RR",
           s.running = Nil, Dispatched(N, s, T, R, D, i, s1, T1)
    PROVE  InTurn(N, s1, T1, Without(R, i))
<1> DEFINE t == R[i]
           alg == s.algorithm
           p == Without(R, i)
<1>1. /\ N \in Nat /\ T \in [1..N -> ThreadType(N)] /\ s.now \in Nat
      /\ R \in Seq(1..N) /\ Len(R) \in Nat
      /\ \A u \in 1..N : T[u].state \in {"READY", "RUNNING", "TERMINATED"}
  BY QueuedIs
<1>2. /\ i \in 1..Len(R) /\ Chosen(alg, T, R, i) /\ s1.algorithm = alg /\ s1.now = s.now
      /\ Started(T[t], T1[t], s.now) /\ \A u \in 1..N : u # t => Alike(T1[u], T[u])
      /\ s1.running = t /\ Queued(N, s1, T1, p, D)
  BY DEF Dispatched
<1>3. t \in 1..N /\ T[t].state = "READY" /\ T[t].start = -1 /\ T[t].remaining = T[t].burst
  <2>1. t \in 1..N /\ T[t].state = "READY"
    BY <1>2, PlacedIs
  <2> QED  BY <2>1 DEF InTurn, Timed, TimesOf
<1>4. \A u \in 1..N : T[u].state = "READY" /\ u # t => Before(alg, T, t, u)
  <2> SUFFICES ASSUME NEW u \in 1..N, T[u].state = "READY", u # t PROVE Before(alg, T, t, u)
    OBVIOUS
  <2>1. PICK j \in 1..Len(R) : R[j] = u
    BY PlacedIs
  <2> QED  BY <1>2, <2>1, ChosenFirst
<1>5. /\ T1[t].state = "RUNNING" /\ T1[t].start = s.now /\ T1[t].burst = T[t].burst
      /\ T1[t].remaining = T[t].remaining
  BY <1>2, <1>3 DEF Started, SameTask
<1>6. \A u \in 1..N : SameTask(T1[u], T[u])
  BY <1>2 DEF Started, Alike, SameTask
<1>7. \A u, v \in 1..N : Before(alg, T1, u, v) <=> Before(alg, T, u, v)
  BY <1>6, BeforeSame
<1>8. \A u \in 1..N : TimeBefore(N, alg, T1, u) = TimeBefore(N, alg, T, u)
  BY <1>6, BeforeSame
<1>9. s.now = TimeBefore(N, alg, T, t)
  <2>1. ASSUME NEW u \in 1..N
        PROVE  T[u].burst - T[u].remaining = IF Before(alg, T, u, t) THEN T[u].burst ELSE 0
    <3>1. T[u].burst \in Nat /\ T[u].remaining \in Nat
      BY <1>1, WorkIs
    <3>2. CASE T[u].state = "READY"
      <4>1. T[u].remaining = T[u].burst
        BY <3>2 DEF InTurn, Timed, TimesOf
      <4>2. ~Before(alg, T, u, t)
        <5>1. CASE u = t
          BY <1>1, <5>1, BeforeAsym
        <5>2. CASE u # t
          <6>1. Before(alg, T, t, u)
            BY <1>4, <3>2, <5>2
          <6> QED  BY <1>1, <1>3, <6>1, BeforeAsym
        <5> QED  BY <5>1, <5>2
      <4> QED  BY <3>1, <4>1, <4>2
    <3>3. CASE T[u].state # "READY"
      <4>1. T[u].state = "TERMINATED"
        <5>1. T[u].state = "RUNNING" <=> u = s.running
          BY QueuedIs
        <5> QED  BY <1>1, <3>3, <5>1 DEF Nil
      <4>2. T[u].remaining = 0
        BY <4>1 DEF Timed, TimesOf
      <4>3. Before(alg, T, u, t)
        BY <1>3, <3>3 DEF InTurn
      <4> QED  BY <3>1, <4>2, <4>3
    <3> QED  BY <3>2, <3>3
  <2>2. Work(N, T) = [u \in 1..N |-> IF Before(alg, T, u, t) THEN T[u].burst ELSE 0]
    BY <2>1 DEF Work
  <2>3. s.now = Total(Work(N, T))
    BY DEF Timed
  <2> QED  BY <2>2, <2>3 DEF TimeBefore
<1>10. Increasing(p)
  <2>1. Increasing(R)
    BY DEF InTurn
  <2>2. /\ Len(p) = Len(R) - 1
        /\ \A j \in 1..Len(R)-1 : p[j] = IF j < i THEN R[j] ELSE R[j+1]
    <3>1. \A a, b \in 1..Len(R) : R[a] = R[b] => a = b
      BY PlacedIs
    <3> QED  BY <1>1, <1>2, <3>1, WithoutIs
  <2> HIDE DEF p
  <2>3. ASSUME NEW a \in 1..Len(p), NEW b \in 1..Len(p), a < b PROVE p[a] < p[b]
    <3> DEFINE x == IF a < i THEN a ELSE a + 1
               y == IF b < i THEN b ELSE b + 1
    <3>1. x \in 1..Len(R) /\ y \in 1..Len(R) /\ x < y
      BY <1>1, <1>2, <2>2, <2>3
    <3>2. p[a] = R[x] /\ p[b] = R[y]
      BY <2>2
    <3> HIDE DEF x, y
    <3> QED  BY <2>1, <3>1, <3>2 DEF Increasing
  <2> QED  BY <2>3 DEF Increasing
<1> HIDE DEF t, alg, p
<1>11. \A u \in 1..N : u # t => /\ T1[u].state = T[u].state /\ T1[u].start = T[u].start
                                /\ T1[u].burst = T[u].burst /\ T1[u].remaining = T[u].remaining
                                /\ T1[u].completion = T[u].completion
  BY <1>2 DEF Alike
<1>12. \A u \in 1..N : T1[u].state = "READY" => T1[u].start = -1
  BY <1>5, <1>11 DEF InTurn
<1>13. ASSUME NEW u \in 1..N, NEW v \in 1..N, T1[u].state # "READY", T1[v].state = "READY"
       PROVE  Before(alg, T1, u, v)
  <2>1. v # t /\ T[v].state = "READY"
    BY <1>5, <1>11, <1>13
  <2>2. CASE u = t
    BY <1>4, <1>7, <2>1, <2>2
  <2>3. CASE u # t
    <3>1. Before(alg, T, u, v)
      BY <1>11, <1>13, <2>1, <2>3 DEF InTurn, alg
    <3> QED  BY <1>7, <3>1
  <2> QED  BY <2>2, <2>3
<1>14. ASSUME NEW u \in 1..N, T1[u].start # -1
       PROVE  T1[u].start = TimeBefore(N, alg, T1, u)
  <2>1. CASE u = t
    BY <1>5, <1>8, <1>9, <2>1
  <2>2. CASE u # t
    <3>1. T[u].start = TimeBefore(N, alg, T, u)
      BY <1>11, <1>14, <2>2 DEF InTurn, alg
    <3> QED  BY <1>8, <1>11, <2>2, <3>1
  <2> QED  BY <2>1, <2>2
<1>15. ASSUME NEW u \in 1..N, T1[u].state = "RUNNING"
       PROVE  s1.now = T1[u].start + (T1[u].burst - T1[u].remaining)
  <2>1. u = t
    BY <1>2, <1>15, QueuedIs
  <2>2. T[t].burst \in Nat
    BY <1>1, <1>3, WorkIs
  <2> QED  BY <1>1, <1>2, <1>3, <1>5, <2>1, <2>2
<1>16. \A u \in 1..N : T1[u].state = "TERMINATED" => T1[u].completion = T1[u].start + T1[u].burst
  BY <1>5, <1>11 DEF InTurn
<1> QED  BY <1>2, <1>10, <1>12, <1>13, <1>14, <1>15, <1>16 DEF InTurn, p

(* ... and when it runs.                                                   *)
LEMMA InTurnExecute ==
    ASSUME NEW N, NEW s, NEW T, NEW R, NEW D, NEW t \in 1..N, NEW s2, NEW T2,
           Queued(N, s, T, R, D), Timed(N, s, T), InTurn(N, s, T, R), s.algorithm # "RR",
           t = s.running, Executed(N, s, T, R, D, t, s2, T2)
    PROVE  InTurn(N, s2, T2, R)
<1>1. /\ N \in Nat /\ T \in [1..N -> ThreadType(N)] /\ s.now \in Nat
      /\ T[t].state = "RUNNING" /\ s2.now = s.now + 1 /\ s2.algorithm = s.algorithm
      /\ \A u \in 1..N : T[u].state = "RUNNING" <=> u = t
  BY QueuedIs DEF Executed
<1>2. /\ OthersAlike(N, t, T, T2) /\ Ran(T[t], T2[t])
      /\ \/ T2[t].state = "RUNNING"
         \/ /\ T2[t].state = "TERMINATED" /\ T[t].remaining = 1
            /\ T2[t].completion = s.now + 1
  BY DEF Executed, Completed, Requeued, RunsOn
<1>3. /\ T[t].burst \in Nat /\ T[t].remaining \in Nat /\ T[t].start \in Nat \cup {-1}
      /\ s.now = T[t].start + (T[t].burst - T[t].remaining)
  BY <1>1, WorkIs DEF InTurn
<1>4. /\ T2[t].burst = T[t].burst /\ T2[t].remaining = T[t].remaining - 1
      /\ T2[t].start = T[t].start
  BY <1>2 DEF Ran, SameTask
<1>5. \A u \in 1..N : u # t => /\ T2[u].state = T[u].state /\ T2[u].start = T[u].start
                               /\ T2[u].burst = T[u].burst /\ T2[u].remaining = T[u].remaining
                               /\ T2[u].completion = T[u].completion
  BY <1>2 DEF OthersAlike, Alike
<1>6. \A u \in 1..N : SameTask(T2[u], T[u])
  BY <1>2 DEF OthersAlike, Alike, Ran, SameTask
<1>7. /\ \A u, v \in 1..N : Before(s.algorithm, T2, u, v) <=> Before(s.algorithm, T, u, v)
      /\ \A u \in 1..N : TimeBefore(N, s.algorithm, T2, u) = TimeBefore(N, s.algorithm, T, u)
  BY <1>6, BeforeSame
<1>8. \A u \in 1..N : T2[u].state = "READY" <=> T[u].state = "READY"
  BY <1>1, <1>2, <1>5
<1>9. \A u \in 1..N : T2[u].start = T[u].start
  BY <1>4, <1>5
<1>10. s2.now = T2[t].start + (T2[t].burst - T2[t].remaining)
  <2> DEFINE a == T[t].start
             b == T[t].burst
             r == T[t].remaining
             now == s.now
  <2>1. a \in Int /\ b \in Int /\ r \in Int /\ now = a + (b - r)
    BY <1>3
  <2>2. /\ s2.now = now + 1 /\ T2[t].start = a /\ T2[t].burst = b
        /\ T2[t].remaining = r - 1
    BY <1>1, <1>4
  <2> HIDE DEF a, b, r, now
  <2>3. now + 1 = a + (b - (r - 1))
    BY <2>1
  <2> QED  BY <2>2, <2>3
<1>11. ASSUME NEW u \in 1..N, T2[u].state = "TERMINATED"
       PROVE  T2[u].completion = T2[u].start + T2[u].burst
  <2>1. CASE u = t
    <3>1. T2[t].completion = s2.now /\ T2[t].remaining = 0
      BY <1>1, <1>2, <1>3, <1>4, <1>11, <2>1
    <3>2. T2[t].start \in Int /\ T2[t].burst \in Int
      BY <1>3, <1>4
    <3> QED  BY <1>10, <2>1, <3>1, <3>2
  <2>2. CASE u # t
    BY <1>5, <1>11, <2>2 DEF InTurn
  <2> QED  BY <2>1, <2>2
<1>12. \A u \in 1..N : T2[u].state = "RUNNING" => u = t
  BY <1>1, <1>5
<1> QED  BY <1>1, <1>7, <1>8, <1>9, <1>10, <1>11, <1>12 DEF InTurn

(* Multiples of the quantum.                                               *)
LEMMA MulAdd ==
    ASSUME NEW k \in Nat, NEW q \in Nat
    PROVE  /\ k * q \in Nat /\ (k + 1) * q = k * q + q
           /\ q * (k + 1) = k * q + q /\ q * k = k * q
OBVIOUS

(* A thread that ends in its k-th round after the first needed k + 1.      *)
LEMMA RoundsIs ==
    ASSUME NEW k \in Nat, NEW q \in Nat \ {0}, NEW b \in Nat, NEW base \in Nat,
           base = k * q, base < b, b <= base + q
    PROVE  (b + q - 1) \div q = k + 1
<1>1. (k+1) * q = base + q
  OBVIOUS
<1> QED  BY <1>1

Least(a, b) == IF a <= b THEN a ELSE b
(* The least of two numbers.                                               *)
LEMMA MinIs ==
    ASSUME NEW a \in Int, NEW b \in Int
    PROVE  Min({a, b}) = Least(a, b)
<1> DEFINE m == IF a <= b THEN a ELSE b
<1>1. m \in {a, b} /\ \A y \in {a, b} : m <= y
  OBVIOUS
<1>2. \A x \in {a, b} : (\A y \in {a, b} : x <= y) => x = m
  OBVIOUS
<1> HIDE DEF m
<1>3. Min({a, b}) = m
  BY <1>1, <1>2 DEF Min
<1> QED  BY <1>3 DEF m, Least

(* The round: the threads up to b have had a quantum more than the base of *)
(* those after b, and the queue goes on after b and around.                *)
Had(b, base, u) == IF u <= b THEN base + Quantum ELSE base
After(b, u, v) == \/ u > b /\ v <= b
                  \/ (u > b <=> v > b) /\ u < v
Rotated(b, R) == \A i, j \in 1..Len(R) : i < j => After(b, R[i], R[j])
Round(N, s, T, R, b, base) ==
    /\ b \in 0..N /\ base \in Nat /\ \E k \in Nat : base = k * Quantum
    /\ \A t \in 1..N : t # s.running =>
          T[t].burst - T[t].remaining = Least(T[t].burst, Had(b, base, t))
    /\ s.running # Nil =>
          /\ s.running = b + 1 /\ s.slice < Quantum
          /\ T[s.running].burst - T[s.running].remaining = base + s.slice
    /\ Rotated(b, R)

(* The times of a thread: when it starts, each thread before it has had    *)
(* its first quantum; when it ends, the others have run what RunsBefore    *)
(* says.                                                                   *)
FirstRound(N, T, t) ==
    Total([u \in 1..N |-> IF u < t THEN Least(Quantum, T[u].burst) ELSE 0])
Rounds(x) == (x.burst + Quantum - 1) \div Quantum
RanBefore(x, y, before) ==
    Min({y.burst, Quantum * (IF before THEN Rounds(x) ELSE Rounds(x) - 1)})
OthersRan(N, T, t) ==
    Total([u \in 1..N |-> IF u # t THEN RanBefore(T[t], T[u], u < t) ELSE 0])
Fair(N, T) ==
    \A t \in 1..N :
        /\ T[t].start # -1 => T[t].start = FirstRound(N, T, t)
        /\ T[t].state = "TERMINATED" => T[t].waiting = OthersRan(N, T, t)

(* These too are about what never changes.                                 *)
LEMMA FairSame ==
    ASSUME NEW N, NEW T, NEW U, \A u \in 1..N : SameTask(U[u], T[u])
    PROVE  /\ \A t \in 1..N : FirstRound(N, U, t) = FirstRound(N, T, t)
           /\ \A t \in 1..N : OthersRan(N, U, t) = OthersRan(N, T, t)
<1>1. \A u \in 1..N : U[u].burst = T[u].burst
  BY DEF SameTask
<1>2. ASSUME NEW t \in 1..N PROVE FirstRound(N, U, t) = FirstRound(N, T, t)
  <2>1. [u \in 1..N |-> IF u < t THEN Least(Quantum, U[u].burst) ELSE 0]
            = [u \in 1..N |-> IF u < t THEN Least(Quantum, T[u].burst) ELSE 0]
    BY <1>1
  <2> QED  BY <2>1 DEF FirstRound
<1>3. ASSUME NEW t \in 1..N PROVE OthersRan(N, U, t) = OthersRan(N, T, t)
  <2>1. \A u \in 1..N : RanBefore(U[t], U[u], u < t) = RanBefore(T[t], T[u], u < t)
    BY <1>1 DEF RanBefore, Rounds
  <2>2. [u \in 1..N |-> IF u # t THEN RanBefore(U[t], U[u], u < t) ELSE 0]
            = [u \in 1..N |-> IF u # t THEN RanBefore(T[t], T[u], u < t) ELSE 0]
    BY <2>1
  <2> QED  BY <2>2 DEF OthersRan
<1> QED  BY <1>2, <1>3

(* The round goes on when the first thread of the queue is dispatched: the *)
(* threads it passes over have ended, and a new round begins when it is    *)
(* one of those up to b.                                                   *)
LEMMA RoundDispatch ==
    ASSUME NEW N, NEW s, NEW T, NEW R, NEW D, NEW i, NEW s1, NEW T1,
           NEW b, NEW base, Queued(N, s, T, R, D), Timed(N, s, T), Round(N, s, T, R, b, base),
           s.algorithm = "RR", s.running = Nil, Dispatched(N, s, T, R, D, i, s1, T1)
    PROVE  LET t == R[i] IN
           /\ t \in 1..N
           /\ IF t > b THEN Round(N, s1, T1, Without(R, i), t - 1, base)
                       ELSE Round(N, s1, T1, Without(R, i), t - 1, base + Quantum)
<1> DEFINE t == R[i]
           p == Without(R, i)
<1>q. Quantum \in Nat \ {0}
  BY Parameters
<1>1. /\ N \in Nat /\ T \in [1..N -> ThreadType(N)] /\ s.now \in Nat
      /\ R \in Seq(1..N) /\ Len(R) \in Nat
      /\ \A u \in 1..N : T[u].state \in {"READY", "RUNNING", "TERMINATED"}
      /\ \A u \in 1..N : T[u].state = "RUNNING" <=> u = s.running
  BY QueuedIs
<1>2. /\ i \in 1..Len(R) /\ i = 1 /\ s1.slice = 0
      /\ Started(T[t], T1[t], s.now) /\ \A u \in 1..N : u # t => Alike(T1[u], T[u])
      /\ s1.running = t /\ Queued(N, s1, T1, p, D)
  BY DEF Dispatched, Chosen
<1>3. t \in 1..N /\ T[t].state = "READY"
  BY <1>2, PlacedIs
<1>4. /\ b \in 0..N /\ base \in Nat /\ Rotated(b, R)
      /\ \A u \in 1..N : T[u].burst - T[u].remaining = Least(T[u].burst, Had(b, base, u))
  BY <1>1 DEF Round, Nil
<1>5. \A u \in 1..N : T[u].burst \in Nat \ {0} /\ T[u].remaining \in 0..T[u].burst
  BY <1>1, WorkIs
<1>6. \A u \in 1..N : T[u].state # "READY" => T[u].remaining = 0
  <2>1. \A u \in 1..N : T[u].state = "READY" \/ T[u].state = "TERMINATED"
    BY <1>1 DEF Nil
  <2>2. \A u \in 1..N : T[u].state = "TERMINATED" => T[u].remaining = 0
    BY DEF Timed, TimesOf
  <2> QED  BY <2>1, <2>2
<1>7. T[t].remaining # 0
  BY <1>3 DEF Timed, TimesOf
<1>8. \A u \in 1..N : T[u].state = "READY" /\ u # t => After(b, t, u)
  <2> SUFFICES ASSUME NEW u \in 1..N, T[u].state = "READY", u # t PROVE After(b, t, u)
    OBVIOUS
  <2>1. PICK j \in 1..Len(R) : R[j] = u
    BY PlacedIs
  <2>2. j # 1 /\ 1 < j /\ 1 \in 1..Len(R)
    BY <1>1, <1>2, <2>1
  <2> HIDE DEF t
  <2>3. After(b, R[1], R[j])
    BY <1>4, <2>2 DEF Rotated
  <2> QED  BY <1>2, <2>1, <2>3 DEF t
<1>9. /\ Len(p) = Len(R) - 1 /\ \A j \in 1..Len(p) : p[j] = R[j+1] /\ j + 1 \in 1..Len(R)
      /\ \A j \in 1..Len(p) : p[j] \in 1..N /\ T[p[j]].state = "READY" /\ p[j] # t
  <2>1. \A a, c \in 1..Len(R) : R[a] = R[c] => a = c
    BY PlacedIs
  <2>2. /\ Len(p) = Len(R) - 1
        /\ \A j \in 1..Len(R)-1 : p[j] = IF j < i THEN R[j] ELSE R[j+1]
    BY <1>1, <1>2, <2>1, WithoutIs
  <2> HIDE DEF p
  <2>3. \A j \in 1..Len(p) : p[j] = R[j+1] /\ j + 1 \in 1..Len(R)
    BY <1>1, <1>2, <2>2
  <2>4. \A j \in 1..Len(R) : R[j] \in 1..N /\ T[R[j]].state = "READY"
    BY PlacedIs
  <2>5. \A j \in 1..Len(p) : p[j] # t
    BY <1>1, <1>2, <2>1, <2>3
  <2> QED  BY <2>2, <2>3, <2>4, <2>5
<1>10. /\ \A u \in 1..N : T1[u].burst = T[u].burst /\ T1[u].remaining = T[u].remaining
  BY <1>2 DEF Started, Alike, SameTask
<1> HIDE DEF p, t
<1>11. \A j, l \in 1..Len(p) : j < l => After(b, p[j], p[l])
  <2> SUFFICES ASSUME NEW j \in 1..Len(p), NEW l \in 1..Len(p), j < l
               PROVE  After(b, p[j], p[l])
    OBVIOUS
  <2>1. j + 1 < l + 1 /\ j + 1 \in 1..Len(R) /\ l + 1 \in 1..Len(R)
    BY <1>1, <1>9
  <2>2. After(b, R[j+1], R[l+1])
    BY <1>4, <2>1 DEF Rotated
  <2> QED  BY <1>9, <2>2
<1>12. CASE t > b
  <2>1. ASSUME NEW u \in 1..N, u # t
        PROVE  T1[u].burst - T1[u].remaining = Least(T1[u].burst, Had(t-1, base, u))
    <3>1. T[u].burst - T[u].remaining = Least(T[u].burst, Had(b, base, u))
      BY <1>4
    <3>2. CASE u > b /\ u < t
      <4>1. T[u].state # "READY"
        BY <1>1, <1>3, <1>4, <1>8, <1>12, <3>2 DEF After
      <4>2. T[u].remaining = 0
        BY <1>6, <4>1
      <4> QED  BY <1>3, <1>4, <1>5, <1>10, <1>q, <3>1, <3>2, <4>2 DEF Least, Had
    <3>3. CASE u <= b \/ u > t
      <4>1. Had(t-1, base, u) = Had(b, base, u)
        BY <1>3, <1>4, <1>12, <3>3 DEF Had
      <4> QED  BY <1>10, <3>1, <4>1
    <3> QED  BY <1>3, <1>4, <2>1, <3>2, <3>3
  <2>2. T1[t].burst - T1[t].remaining = base + s1.slice
    <3>1. T[t].burst - T[t].remaining = Least(T[t].burst, base)
      BY <1>3, <1>4, <1>12 DEF Had
    <3> QED  BY <1>2, <1>3, <1>4, <1>5, <1>7, <1>10, <3>1 DEF Least
  <2>3. Rotated(t - 1, p)
    <3> SUFFICES ASSUME NEW j \in 1..Len(p), NEW l \in 1..Len(p), j < l
                 PROVE  After(t - 1, p[j], p[l])
      BY DEF Rotated
    <3>1. After(b, p[j], p[l])
      BY <1>11
    <3>2. p[j] \in 1..N /\ p[l] \in 1..N /\ After(b, t, p[j]) /\ After(b, t, p[l])
      BY <1>8, <1>9
    <3> QED  BY <1>3, <1>4, <1>12, <3>1, <3>2 DEF After
  <2>4. Round(N, s1, T1, p, t - 1, base)
    <3>1. \E k \in Nat : base = k * Quantum
      BY DEF Round
    <3>2. t - 1 \in 0..N /\ s1.slice < Quantum /\ s1.running = (t - 1) + 1
      BY <1>1, <1>2, <1>3, <1>q DEF t
    <3>3. s1.running = t
      BY <1>2 DEF t
    <3> QED  BY <1>4, <2>1, <2>2, <2>3, <3>1, <3>2, <3>3 DEF Round
  <2> QED  BY <1>3, <1>12, <2>4 DEF t, p
<1>13. CASE ~(t > b)
  <2>1. ASSUME NEW u \in 1..N, u # t
        PROVE  T1[u].burst - T1[u].remaining
                   = Least(T1[u].burst, Had(t-1, base + Quantum, u))
    <3>1. T[u].burst - T[u].remaining = Least(T[u].burst, Had(b, base, u))
      BY <1>4
    <3>2. CASE u > b \/ u < t
      <4>1. T[u].state # "READY"
        BY <1>3, <1>4, <1>8, <1>13, <3>2 DEF After
      <4>2. T[u].remaining = 0
        BY <1>6, <4>1
      <4> QED  BY <1>3, <1>4, <1>5, <1>10, <1>q, <3>1, <3>2, <4>2 DEF Least, Had
    <3>3. CASE u <= b /\ u > t
      <4>1. Had(t-1, base + Quantum, u) = Had(b, base, u)
        BY <1>3, <1>4, <1>13, <3>3 DEF Had
      <4> QED  BY <1>10, <3>1, <4>1
    <3> QED  BY <1>3, <1>4, <2>1, <3>2, <3>3
  <2>2. T1[t].burst - T1[t].remaining = (base + Quantum) + s1.slice
    <3>1. T[t].burst - T[t].remaining = Least(T[t].burst, base + Quantum)
      BY <1>3, <1>4, <1>13 DEF Had
    <3> QED  BY <1>2, <1>3, <1>4, <1>5, <1>7, <1>10, <1>q, <3>1 DEF Least
  <2>3. Rotated(t - 1, p)
    <3> SUFFICES ASSUME NEW j \in 1..Len(p), NEW l \in 1..Len(p), j < l
                 PROVE  After(t - 1, p[j], p[l])
      BY DEF Rotated
    <3>1. After(b, p[j], p[l])
      BY <1>11
    <3>2. p[j] \in 1..N /\ p[l] \in 1..N /\ After(b, t, p[j]) /\ After(b, t, p[l])
      BY <1>8, <1>9
    <3> QED  BY <1>3, <1>4, <1>13, <3>1, <3>2 DEF After
  <2>4. Round(N, s1, T1, p, t - 1, base + Quantum)
    <3>1. \E k \in Nat : base + Quantum = k * Quantum
      <4>1. PICK k \in Nat : base = k * Quantum
        BY DEF Round
      <4>2. base + Quantum = (k + 1) * Quantum
        BY <1>q, <4>1, MulAdd
      <4> QED  BY <4>2
    <3>2. t - 1 \in 0..N /\ s1.slice < Quantum /\ s1.running = (t - 1) + 1
      BY <1>1, <1>2, <1>3, <1>q DEF t
    <3>3. s1.running = t /\ base + Quantum \in Nat
      BY <1>2, <1>4, <1>q DEF t
    <3> QED  BY <2>1, <2>2, <2>3, <3>1, <3>2, <3>3 DEF Round
  <2> QED  BY <1>3, <1>13, <2>4 DEF t, p
<1> QED  BY <1>12, <1>13

(* ... and when it has run for a slice.                                    *)
LEMMA RoundExecute ==
    ASSUME NEW N, NEW s, NEW T, NEW R, NEW D, NEW t \in 1..N, NEW s2, NEW T2, NEW b, NEW base,
           Queued(N, s, T, R, D), Timed(N, s, T), Round(N, s, T, R, b, base),
           s.algorithm = "RR", t = s.running
    PROVE  /\ RunsOn(N, s, T, R, D, t, s2, T2) => Round(N, s2, T2, R, b, base)
           /\ Requeued(N, s, T, R, D, t, s2, T2) => Round(N, s2, T2, Append(R, t), t, base)
           /\ Completed(N, s, T, R, D, t, s2, T2) => Round(N, s2, T2, R, t, base)
<1>q. Quantum \in Nat \ {0}
  BY Parameters
<1>1. /\ N \in Nat /\ T \in [1..N -> ThreadType(N)] /\ s.slice \in Nat /\ t # Nil
      /\ R \in Seq(1..N) /\ Len(R) \in Nat /\ T[t].state = "RUNNING"
  BY QueuedIs DEF Nil
<1>2. /\ b \in 0..N /\ base \in Nat /\ Rotated(b, R) /\ t = b + 1 /\ s.slice < Quantum
      /\ \A u \in 1..N : u # t =>
            T[u].burst - T[u].remaining = Least(T[u].burst, Had(b, base, u))
      /\ T[t].burst - T[t].remaining = base + s.slice
      /\ \E k \in Nat : base = k * Quantum
  BY <1>1 DEF Round
<1>3. \A u \in 1..N : T[u].burst \in Nat \ {0} /\ T[u].remaining \in 0..T[u].burst
  BY <1>1, WorkIs
<1>4. \A j \in 1..Len(R) : R[j] \in 1..N /\ R[j] # t
  BY <1>1, PlacedIs
<1>5. ASSUME OthersAlike(N, t, T, T2)
      PROVE  \A u \in 1..N : u # t => /\ T2[u].burst = T[u].burst
                                      /\ T2[u].remaining = T[u].remaining
  BY <1>5 DEF OthersAlike, Alike
<1>6. ASSUME Ran(T[t], T2[t])
      PROVE  T2[t].burst = T[t].burst /\ T2[t].remaining = T[t].remaining - 1
  BY <1>6 DEF Ran, SameTask
<1>7. ASSUME Ran(T[t], T2[t])
      PROVE  T2[t].burst - T2[t].remaining = base + s.slice + 1
  <2> DEFINE x == T[t].burst
             r == T[t].remaining
             k == s.slice
  <2>1. x \in Nat /\ r \in Nat /\ base \in Nat /\ k \in Nat /\ x - r = base + k
    BY <1>1, <1>2, <1>3
  <2> HIDE DEF x, r, k
  <2>2. x - (r - 1) = base + k + 1
    BY <2>1
  <2> QED  BY <1>6, <1>7, <2>2 DEF x, r, k
<1>8. \A u \in 1..N : u # t => Had(t, base, u) = Had(b, base, u)
  BY <1>1, <1>2 DEF Had
<1>9. Rotated(t, R)
  <2> SUFFICES ASSUME NEW j \in 1..Len(R), NEW l \in 1..Len(R), j < l
               PROVE  After(t, R[j], R[l])
    BY DEF Rotated
  <2>1. After(b, R[j], R[l])
    BY <1>2 DEF Rotated
  <2> QED  BY <1>1, <1>2, <1>4, <2>1 DEF After
<1>10. ASSUME RunsOn(N, s, T, R, D, t, s2, T2) PROVE Round(N, s2, T2, R, b, base)
  <2>1. /\ s2.running = t /\ s2.slice = s.slice + 1 /\ s.slice + 1 < Quantum
        /\ OthersAlike(N, t, T, T2) /\ Ran(T[t], T2[t])
    <3>1. ~(s.slice + 1 >= Quantum)
      BY <1>10 DEF RunsOn
    <3> QED  BY <1>1, <1>10, <1>q, <3>1 DEF RunsOn
  <2>2. T2[t].burst - T2[t].remaining = base + s2.slice
    BY <1>1, <1>2, <1>7, <2>1
  <2>3. \A u \in 1..N : u # t =>
            T2[u].burst - T2[u].remaining = Least(T2[u].burst, Had(b, base, u))
    BY <1>2, <1>5, <2>1
  <2>4. s2.running = b + 1 /\ s2.slice < Quantum
    BY <1>2, <2>1
  <2> QED  BY <1>2, <2>1, <2>2, <2>3, <2>4 DEF Round
<1>11. ASSUME Requeued(N, s, T, R, D, t, s2, T2) PROVE Round(N, s2, T2, Append(R, t), t, base)
  <2>1. /\ s2.running = Nil /\ T[t].remaining > 1 /\ s.slice + 1 >= Quantum
        /\ OthersAlike(N, t, T, T2) /\ Ran(T[t], T2[t])
    BY <1>11 DEF Requeued
  <2>2. ASSUME NEW u \in 1..N
        PROVE  T2[u].burst - T2[u].remaining = Least(T2[u].burst, Had(t, base, u))
    <3>1. CASE u # t
      BY <1>2, <1>5, <1>8, <2>1, <3>1
    <3>2. CASE u = t
      <4>1. T2[t].burst - T2[t].remaining = base + Quantum
        <5>1. T2[t].burst - T2[t].remaining = base + s.slice + 1
          BY <1>7, <2>1
        <5>2. s.slice + 1 = Quantum
          BY <1>1, <1>2, <1>q, <2>1
        <5> QED  BY <1>1, <1>2, <5>1, <5>2
      <4>2. Had(t, base, t) = base + Quantum
        BY DEF Had
      <4>3. T2[t].burst \in Nat /\ T2[t].remaining \in Nat
        BY <1>3, <1>6, <2>1
      <4> QED  BY <1>2, <1>q, <3>2, <4>1, <4>2, <4>3 DEF Least
    <3> QED  BY <3>1, <3>2
  <2>3. Rotated(t, Append(R, t))
    <3> SUFFICES ASSUME NEW j \in 1..Len(R)+1, NEW l \in 1..Len(R)+1, j < l
                 PROVE  After(t, Append(R, t)[j], Append(R, t)[l])
      BY <1>1 DEF Rotated
    <3>1. j \in 1..Len(R) /\ Append(R, t)[j] = R[j]
      BY <1>1
    <3>2. CASE l \in 1..Len(R)
      <4>1. Append(R, t)[l] = R[l]
        BY <1>1, <3>2
      <4> QED  BY <1>9, <3>1, <3>2, <4>1 DEF Rotated
    <3>3. CASE l = Len(R) + 1
      <4>1. Append(R, t)[l] = t
        BY <1>1, <3>3
      <4>2. R[j] \in 1..N /\ R[j] # t
        BY <1>4, <3>1
      <4> QED  BY <3>1, <4>1, <4>2 DEF After
    <3> QED  BY <1>1, <3>2, <3>3
  <2> QED  BY <1>1, <1>2, <2>1, <2>2, <2>3 DEF Round
<1>12. ASSUME Completed(N, s, T, R, D, t, s2, T2) PROVE Round(N, s2, T2, R, t, base)
  <2>1. /\ s2.running = Nil /\ T[t].remaining = 1
        /\ OthersAlike(N, t, T, T2) /\ Ran(T[t], T2[t])
    BY <1>12 DEF Completed
  <2>2. ASSUME NEW u \in 1..N
        PROVE  T2[u].burst - T2[u].remaining = Least(T2[u].burst, Had(t, base, u))
    <3>1. CASE u # t
      BY <1>2, <1>5, <1>8, <2>1, <3>1
    <3>2. CASE u = t
      <4>1. T2[t].burst - T2[t].remaining = base + s.slice + 1
        BY <1>7, <2>1
      <4>2. Had(t, base, t) = base + Quantum
        BY DEF Had
      <4>3. T2[t].burst \in Nat /\ T2[t].remaining = 0
        BY <1>3, <1>6, <2>1
      <4>4. T2[t].burst <= base + Quantum
        BY <1>1, <1>2, <1>q, <4>1, <4>3
      <4> QED  BY <1>2, <1>q, <3>2, <4>2, <4>3, <4>4 DEF Least
    <3> QED  BY <3>1, <3>2
  <2> QED  BY <1>1, <1>2, <1>9, <2>1, <2>2 DEF Round
<1> QED  BY <1>10, <1>11, <1>12

(* A thread that starts has waited for one quantum of each before it ...   *)
LEMMA FairDispatch ==
    ASSUME NEW N, NEW s, NEW T, NEW R, NEW D, NEW i, NEW s1, NEW T1, NEW b, NEW base,
           Queued(N, s, T, R, D), Timed(N, s, T), Round(N, s, T, R, b, base), Fair(N, T),
           s.algorithm = "RR", s.running = Nil, Dispatched(N, s, T, R, D, i, s1, T1)
    PROVE  Fair(N, T1)
<1> DEFINE t == R[i]
<1>q. Quantum \in Nat \ {0}
  BY Parameters
<1>1. /\ N \in Nat /\ T \in [1..N -> ThreadType(N)] /\ s.now \in Nat
  BY QueuedIs
<1>2. /\ Started(T[t], T1[t], s.now) /\ \A u \in 1..N : u # t => Alike(T1[u], T[u])
      /\ s1.running = t /\ s1.slice = 0 /\ s1.now = s.now
      /\ Queued(N, s1, T1, Without(R, i), D)
  BY DEF Dispatched
<1>3. /\ t \in 1..N
      /\ t > b => Round(N, s1, T1, Without(R, i), t - 1, base)
  BY RoundDispatch
<1>4. /\ b \in 0..N /\ base \in Nat /\ t # s.running
      /\ \A u \in 1..N : u # s.running =>
            T[u].burst - T[u].remaining = Least(T[u].burst, Had(b, base, u))
  BY <1>3 DEF Round, Nil
<1>5. \A u \in 1..N : T[u].burst \in Nat \ {0} /\ T[u].remaining \in 0..T[u].burst
  BY <1>1, WorkIs
<1>6. \A u \in 1..N : SameTask(T1[u], T[u])
  BY <1>2 DEF Started, Alike, SameTask
<1>7. /\ \A u \in 1..N : FirstRound(N, T1, u) = FirstRound(N, T, u)
      /\ \A u \in 1..N : OthersRan(N, T1, u) = OthersRan(N, T, u)
  BY <1>6, FairSame
<1>8. T1 \in [1..N -> ThreadType(N)] /\ Timed(N, s1, T1)
  <2>1. T1 \in [1..N -> ThreadType(N)]
    BY <1>2, QueuedIs
  <2> QED  BY <2>1, TimedDispatch
<1> HIDE DEF t
<1>9. ASSUME T[t].start = -1 PROVE s.now = FirstRound(N, T1, t)
  <2>1. T[t].remaining = T[t].burst
    BY <1>3, <1>9 DEF Timed, TimesOf
  <2>2. t > b /\ base = 0
    <3>1. T[t].burst - T[t].remaining = Least(T[t].burst, Had(b, base, t))
      BY <1>3, <1>4
    <3>2. T[t].burst \in Nat \ {0} /\ T[t].burst - T[t].remaining = 0
      BY <1>3, <1>5, <2>1
    <3>3. Had(b, base, t) = 0
      BY <1>4, <1>q, <3>1, <3>2 DEF Least, Had
    <3> QED  BY <1>3, <1>4, <1>q, <3>3 DEF Had
  <2>3. /\ \A u \in 1..N : u # t =>
              T1[u].burst - T1[u].remaining = Least(T1[u].burst, Had(t - 1, 0, u))
        /\ T1[t].burst - T1[t].remaining = 0
    <3>1. Round(N, s1, T1, Without(R, i), t - 1, 0)
      BY <1>3, <2>2
    <3>2. s1.running # Nil
      BY <1>2, <1>3 DEF Nil, t
    <3> QED  BY <1>2, <3>1, <3>2 DEF Round, t
  <2>4. ASSUME NEW u \in 1..N
        PROVE  T1[u].burst - T1[u].remaining
                   = IF u < t THEN Least(Quantum, T1[u].burst) ELSE 0
    <3>1. T1[u].burst \in Nat \ {0}
      BY <1>1, <1>8, WorkIs
    <3> QED  BY <1>3, <1>q, <2>3, <3>1 DEF Had, Least
  <2>5. Work(N, T1) = [u \in 1..N |-> IF u < t THEN Least(Quantum, T1[u].burst) ELSE 0]
    BY <2>4 DEF Work
  <2>6. s1.now = Total(Work(N, T1))
    BY <1>8 DEF Timed
  <2> QED  BY <1>2, <2>5, <2>6 DEF FirstRound
<1>10. ASSUME NEW u \in 1..N, T1[u].start # -1
       PROVE  T1[u].start = FirstRound(N, T1, u)
  <2>1. CASE u = t
    <3>1. T1[t].start = IF T[t].start = -1 THEN s.now ELSE T[t].start
      BY <1>2 DEF Started, t
    <3>2. T[t].start # -1 => T[t].start = FirstRound(N, T, t)
      BY <1>3 DEF Fair
    <3> QED  BY <1>3, <1>7, <1>9, <2>1, <3>1, <3>2
  <2>2. CASE u # t
    <3>1. T1[u].start = T[u].start
      BY <1>2, <2>2 DEF Alike, t
    <3> QED  BY <1>7, <1>10, <3>1 DEF Fair
  <2> QED  BY <2>1, <2>2
<1>11. ASSUME NEW u \in 1..N, T1[u].state = "TERMINATED"
       PROVE  T1[u].waiting = OthersRan(N, T1, u)
  <2>1. u # t
    BY <1>2, <1>11 DEF Started, t
  <2>2. T1[u].state = T[u].state /\ T1[u].waiting = T[u].waiting
    BY <1>2, <2>1 DEF Alike, t
  <2> QED  BY <1>7, <1>11, <2>2 DEF Fair
<1> QED  BY <1>10, <1>11 DEF Fair

(* ... and one that ends, for what RunsBefore says of the others.          *)
LEMMA FairExecute ==
    ASSUME NEW N, NEW s, NEW T, NEW R, NEW D, NEW t \in 1..N, NEW s2, NEW T2, NEW b, NEW base,
           Queued(N, s, T, R, D), Timed(N, s, T), Round(N, s, T, R, b, base), Fair(N, T),
           s.algorithm = "RR", t = s.running, Executed(N, s, T, R, D, t, s2, T2)
    PROVE  Fair(N, T2)
<1>q. Quantum \in Nat \ {0}
  BY Parameters
<1>1. /\ N \in Nat /\ T \in [1..N -> ThreadType(N)] /\ s.now \in Nat /\ s.slice \in Nat
      /\ t # Nil
  BY QueuedIs DEF Nil
<1>2. /\ OthersAlike(N, t, T, T2) /\ Ran(T[t], T2[t])
      /\ \/ T2[t].state # "TERMINATED"
         \/ T[t].remaining = 1
            /\ T2[t].waiting = AtLeast0((s.now + 1 - T[t].arrival) - T[t].burst)
  BY DEF Executed, Completed, Requeued, RunsOn
<1>3. /\ b \in 0..N /\ base \in Nat /\ t = b + 1 /\ s.slice < Quantum
      /\ \A u \in 1..N : u # t =>
            T[u].burst - T[u].remaining = Least(T[u].burst, Had(b, base, u))
      /\ T[t].burst - T[t].remaining = base + s.slice
  BY <1>1 DEF Round
<1>4. \A u \in 1..N : SameTask(T2[u], T[u])
  BY <1>2 DEF OthersAlike, Alike, Ran, SameTask
<1>5. /\ \A u \in 1..N : FirstRound(N, T2, u) = FirstRound(N, T, u)
      /\ \A u \in 1..N : OthersRan(N, T2, u) = OthersRan(N, T, u)
  BY <1>4, FairSame
<1>6. \A u \in 1..N : T2[u].start = T[u].start
  BY <1>2 DEF OthersAlike, Alike, Ran
<1>7. \A u \in 1..N : T[u].burst \in Nat \ {0} /\ T[u].remaining \in 0..T[u].burst
  BY <1>1, WorkIs
<1>8. ASSUME T2[t].state = "TERMINATED" PROVE T2[t].waiting = OthersRan(N, T, t)
  <2> DEFINE g == [u \in 1..N |-> IF u # t THEN RanBefore(T[t], T[u], u < t) ELSE 0]
             W == Work(N, T)
  <2>1. /\ T[t].remaining = 1 /\ T[t].arrival = 0
        /\ T2[t].waiting = AtLeast0((s.now + 1 - T[t].arrival) - T[t].burst)
    BY <1>2, <1>8 DEF Timed, TimesOf
  <2>2. PICK k \in Nat : base = k * Quantum
    BY DEF Round
  <2>3. Rounds(T[t]) = k + 1
    <3>1. T[t].burst \in Nat /\ base < T[t].burst /\ T[t].burst <= base + Quantum
      BY <1>1, <1>3, <1>7, <1>q, <2>1
    <3> QED  BY <1>3, <1>q, <2>2, <3>1, RoundsIs DEF Rounds
  <2>4. ASSUME NEW u \in 1..N, u # t PROVE g[u] = W[u]
    <3>1. RanBefore(T[t], T[u], u < t) = Min({T[u].burst, Had(b, base, u)})
      <4>1. Quantum * (k + 1) = base + Quantum /\ Quantum * k = base
        BY <1>q, <2>2, MulAdd
      <4>2. u < t <=> u <= b
        BY <1>3
      <4>3. (k + 1) - 1 = k
        OBVIOUS
      <4>4. Quantum * (IF u < t THEN Rounds(T[t]) ELSE Rounds(T[t]) - 1) = Had(b, base, u)
        BY <2>3, <4>1, <4>2, <4>3 DEF Had
      <4> QED  BY <4>4 DEF RanBefore
    <3>2. Min({T[u].burst, Had(b, base, u)}) = Least(T[u].burst, Had(b, base, u))
      BY <1>3, <1>7, <1>q, MinIs DEF Had
    <3> QED  BY <1>3, <2>4, <3>1, <3>2 DEF Work
  <2>5. /\ W \in [1..N -> Int] /\ W \in [1..N -> Nat] /\ W[t] = T[t].burst - 1
    BY <1>1, <2>1, WorkIs
  <2>6. s.now = Total(W)
    BY DEF Timed
  <2>7. g \in [1..N -> Nat] /\ g \in [1..N -> Int] /\ g[t] = 0
    <3>1. \A u \in 1..N : W[u] \in Nat
      BY <2>5
    <3>2. \A u \in 1..N : g[u] \in Nat
      BY <2>4, <3>1
    <3>3. g[t] = 0
      OBVIOUS
    <3>4. \A u \in 1..N : g[u] = (IF u # t THEN RanBefore(T[t], T[u], u < t) ELSE 0)
      OBVIOUS
    <3>5. \A u \in 1..N : (IF u # t THEN RanBefore(T[t], T[u], u < t) ELSE 0) \in Nat
      BY <3>2, <3>4
    <3>6. g \in [1..N -> Nat]
      BY <3>5
    <3> HIDE DEF g
    <3>7. g \in [1..N -> Int]
      BY <3>6
    <3> QED  BY <3>3, <3>6, <3>7
  <2> HIDE DEF g, W
  <2>8. Total(g) = Total(W) + (g[t] - W[t])
    <3>1. \A u \in 1..N : u # t => g[u] = W[u]
      BY <2>4
    <3>2. N \in Nat /\ W \in [1..N -> Int] /\ g \in [1..N -> Int]
      BY <1>1, <2>5, <2>7
    <3> QED  BY <3>1, <3>2, TotalMore
  <2>9. Total(g) \in Nat
    BY <1>1, <2>7, TotalNat
  <2>10. Total(g) = (s.now + 1 - T[t].arrival) - T[t].burst
    <3>1. Total(g) = s.now + (0 - (T[t].burst - 1))
      BY <2>5, <2>6, <2>7, <2>8
    <3>2. T[t].burst \in Nat
      BY <1>7
    <3> DEFINE x == T[t].burst
               now == s.now
    <3>3. now \in Nat /\ x \in Nat /\ Total(g) = now + (0 - (x - 1))
      BY <1>1, <3>1, <3>2
    <3>4. (now + 1 - T[t].arrival) - x = (now + 1 - 0) - x
      BY <2>1
    <3> HIDE DEF x, now
    <3>5. Total(g) = (now + 1 - 0) - x
      BY <3>3
    <3> QED  BY <3>4, <3>5 DEF x, now
  <2>11. T2[t].waiting = Total(g)
    BY <2>1, <2>9, <2>10 DEF AtLeast0
  <2> QED  BY <2>11 DEF OthersRan, g
<1>9. ASSUME NEW u \in 1..N, T2[u].state = "TERMINATED"
      PROVE  T2[u].waiting = OthersRan(N, T2, u)
  <2>1. CASE u = t
    BY <1>5, <1>8, <1>9, <2>1
  <2>2. CASE u # t
    <3>1. T2[u].state = T[u].state /\ T2[u].waiting = T[u].waiting
      BY <1>2, <2>2 DEF OthersAlike, Alike
    <3> QED  BY <1>5, <1>9, <3>1 DEF Fair
  <2> QED  BY <2>1, <2>2
<1>10. \A u \in 1..N : T2[u].start # -1 => T2[u].start = FirstRound(N, T2, u)
  BY <1>5, <1>6 DEF Fair
<1> QED  BY <1>9, <1>10 DEF Fair

(* The threads of a simulation when n of them are in the ready queue.      *)
Upto(n) == [i \in 1..n |-> i]
Put(x, i, n) == [x EXCEPT !.state = IF i <= n THEN "READY" ELSE "NEW",
                          !.next = IF i < n THEN i + 1 ELSE Nil]
Enrolling(N, T, n) ==
    [head |-> IF n = 0 THEN Nil ELSE 1, thr |-> [i \in 1..N |-> Put(T[i], i, n)]]
IsNew(N, x) == x \in ThreadType(N) /\ x.state = "NEW" /\ x.next = Nil

(* A thread put into the ready queue as a whole keeps its numbers.         *)
LEMMA PutIs ==
    ASSUME NEW N \in Nat, NEW x, IsNew(N, x), NEW i \in 1..N, NEW n \in 0..N
    PROVE  /\ Put(x, i, n) \in ThreadType(N)
           /\ Put(x, i, n).state = IF i <= n THEN "READY" ELSE "NEW"
           /\ Put(x, i, n).next = IF i < n THEN i + 1 ELSE Nil
           /\ Put(x, i, n).priority = x.priority /\ Put(x, i, n).burst = x.burst
           /\ Put(x, i, n).remaining = x.remaining /\ Put(x, i, n).arrival = x.arrival
           /\ Put(x, i, n).start = x.start /\ Put(x, i, n).completion = x.completion
           /\ Put(x, i, n).waiting = x.waiting /\ Put(x, i, n).turnaround = x.turnaround
           /\ Put(x, i, n).response = x.response
<1>1. (IF i < n THEN i + 1 ELSE Nil) \in 0..N
  BY DEF Nil
<1> QED  BY <1>1 DEF Put, IsNew, ThreadType

(* Threads that agree in every field are the same.                         *)
LEMMA SameThread ==
    ASSUME NEW N, NEW x \in ThreadType(N), NEW y \in ThreadType(N), Alike(x, y), x.next = y.next
    PROVE  x = y
BY DEF ThreadType, Alike

(* The sequence of the first n numbers.                                    *)
LEMMA UptoIs ==
    ASSUME NEW N \in Nat, NEW n \in 0..N
    PROVE  /\ Upto(n) \in Seq(1..N) /\ Len(Upto(n)) = n
           /\ \A i \in 1..n : Upto(n)[i] = i
           /\ \A u : In(u, Upto(n)) <=> u \in 1..n
           /\ n < N => Append(Upto(n), n + 1) = Upto(n + 1)
<1>1. Upto(n) \in Seq(1..N) /\ Len(Upto(n)) = n /\ \A i \in 1..n : Upto(n)[i] = i
  BY DEF Upto
<1>2. \A u : In(u, Upto(n)) <=> u \in 1..n
  BY <1>1 DEF In
<1>3. ASSUME n < N PROVE Append(Upto(n), n + 1) = Upto(n + 1)
  BY DEF Upto
<1> QED  BY <1>1, <1>2, <1>3

(* One more is put in the queue ...                                        *)
LEMMA EnrolOne ==
    ASSUME NEW N \in Nat, N <= MaxThreads, NEW T, \A i \in 1..N : IsNew(N, T[i]),
           NEW n \in 0..N-1
    PROVE  LET e == Enrolling(N, T, n)
           IN  Enqueue([e.thr EXCEPT ![n+1].state = "READY"], e.head, n + 1)
                   = Enrolling(N, T, n + 1)
<1> DEFINE e == Enrolling(N, T, n)
           P == [i \in 1..N |-> Put(T[i], i, n)]
           U == [P EXCEPT ![n+1].state = "READY"]
           h == IF n = 0 THEN Nil ELSE 1
           r == Enqueue(U, h, n + 1)
           q == Upto(n)
<1>1. e.thr = P /\ e.head = h /\ n + 1 \in 1..N /\ n \in 0..N /\ n + 1 \in 0..N
  BY DEF Enrolling
<1>2. ASSUME NEW i \in 1..N
      PROVE  /\ P[i] = Put(T[i], i, n)
             /\ U[i] = IF i = n + 1 THEN [P[i] EXCEPT !.state = "READY"] ELSE P[i]
  OBVIOUS
<1>3. ASSUME NEW i \in 1..N
      PROVE  /\ U[i] \in ThreadType(N) /\ Alike(U[i], Put(T[i], i, n + 1))
             /\ U[i].next = IF i < n THEN i + 1 ELSE Nil
  <2> HIDE DEF P, U
  <2> DEFINE x == Put(T[i], i, n)
             y == Put(T[i], i, n + 1)
  <2>0. IsNew(N, T[i])
    OBVIOUS
  <2>a. n \in 0..N /\ n + 1 \in 0..N
    BY <1>1
  <2>1. P[i] \in ThreadType(N) /\ P[i] = x
    <3>1. x \in ThreadType(N)
      BY <2>0, <2>a, PutIs
    <3> QED  BY <1>2, <3>1
  <2>2. /\ Alike([x EXCEPT !.state = y.state], y)
        /\ x.state = (IF i <= n THEN "READY" ELSE "NEW")
        /\ y.state = (IF i <= n + 1 THEN "READY" ELSE "NEW")
        /\ x.next = IF i < n THEN i + 1 ELSE Nil
    <3>1. x \in ThreadType(N)
      BY <2>1, <1>2
    <3>2. /\ y.priority = x.priority /\ y.burst = x.burst
          /\ y.remaining = x.remaining /\ y.arrival = x.arrival
          /\ y.start = x.start /\ y.completion = x.completion
          /\ y.waiting = x.waiting /\ y.turnaround = x.turnaround
          /\ y.response = x.response
      <4> DEFINE z == T[i]
      <4> HIDE DEF z
      <4>1. IsNew(N, z) /\ x = Put(z, i, n) /\ y = Put(z, i, n + 1)
        BY <2>0 DEF z
      <4> HIDE DEF x, y
      <4>2. /\ x.priority = z.priority /\ x.burst = z.burst
            /\ x.remaining = z.remaining /\ x.arrival = z.arrival
            /\ x.start = z.start /\ x.completion = z.completion
            /\ x.waiting = z.waiting /\ x.turnaround = z.turnaround
            /\ x.response = z.response
        BY <2>a, <4>1, PutIs
      <4>3. /\ y.priority = z.priority /\ y.burst = z.burst
            /\ y.remaining = z.remaining /\ y.arrival = z.arrival
            /\ y.start = z.start /\ y.completion = z.completion
            /\ y.waiting = z.waiting /\ y.turnaround = z.turnaround
            /\ y.response = z.response
        BY <2>a, <4>1, PutIs
      <4> QED  BY <4>2, <4>3
    <3>3. /\ x.state = (IF i <= n THEN "READY" ELSE "NEW")
          /\ y.state = (IF i <= n + 1 THEN "READY" ELSE "NEW")
          /\ x.next = IF i < n THEN i + 1 ELSE Nil
      <4> DEFINE z == T[i]
      <4> HIDE DEF z
      <4>1. IsNew(N, z) /\ x = Put(z, i, n) /\ y = Put(z, i, n + 1)
        BY <2>0 DEF z
      <4> HIDE DEF x, y
      <4>2. n \in 0..N /\ n + 1 \in 0..N /\ N \in Nat /\ i \in 1..N
        BY <2>a
      <4>3. /\ Put(z, i, n).state = (IF i <= n THEN "READY" ELSE "NEW")
            /\ Put(z, i, n).next = IF i < n THEN i + 1 ELSE Nil
        BY <4>1, <4>2, PutIs
      <4>4. Put(z, i, n + 1).state = (IF i <= n + 1 THEN "READY" ELSE "NEW")
        BY <4>1, <4>2, PutIs
      <4> QED  BY <4>1, <4>3, <4>4
    <3> HIDE DEF x, y
    <3> QED  BY <3>1, <3>2, <3>3 DEF Alike, ThreadType
  <2> HIDE DEF x
  <2>3. CASE i = n + 1
    <3>1. U[i] = [x EXCEPT !.state = "READY"] /\ y.state = "READY"
      BY <1>2, <2>1, <2>2, <2>3
    <3>2. U[i] \in ThreadType(N) /\ U[i].next = x.next
      BY <2>1, <3>1 DEF ThreadType
    <3> QED  BY <2>2, <3>1, <3>2
  <2>4. CASE i # n + 1
    <3>0. i <= n <=> i <= n + 1
      BY <2>4
    <3>1. U[i] = x /\ (i <= n <=> i <= n + 1)
      BY <1>2, <2>1, <2>4, <3>0
    <3>2. x.state = y.state
      BY <2>2, <3>1
    <3>3. [x EXCEPT !.state = y.state] = x
      BY <2>1, <3>2 DEF ThreadType
    <3> QED  BY <2>1, <2>2, <3>1, <3>3
  <2> QED  BY <2>3, <2>4
<1>4. U \in [1..N -> ThreadType(N)]
  <2>1. DOMAIN U = 1..N /\ U = [i \in 1..N |-> U[i]]
    OBVIOUS
  <2> HIDE DEF U
  <2> QED  BY <1>3, <2>1
<1> HIDE DEF P, U
<1>5. Listed(N, U, h, q)
  <2>1. /\ q \in Seq(1..N) /\ Len(q) = n /\ \A i \in 1..n : q[i] = i
    BY <1>1, UptoIs
  <2> HIDE DEF q
  <2>2. \A i \in 1..n : U[q[i]].next = IF i = n THEN Nil ELSE q[i+1]
    BY <1>1, <1>3, <2>1
  <2>3. h = IF n = 0 THEN Nil ELSE q[1]
    BY <1>1, <2>1
  <2> QED  BY <2>1, <2>2, <2>3 DEF Listed
<1>6. ~In(n + 1, q)
  BY <1>1, UptoIs
<1>7. Enqueued(N, U, q, n + 1, r.thr, r.head)
  <2> HIDE DEF h, q
  <2> QED  BY <1>1, <1>4, <1>5, <1>6, EnqueueIs
<1>8. Append(q, n + 1) = Upto(n + 1)
  BY <1>1, UptoIs
<1>9. /\ r.thr \in [1..N -> ThreadType(N)] /\ Listed(N, r.thr, r.head, Upto(n+1))
      /\ \A u \in 1..N : Alike(r.thr[u], U[u]) /\ (u # n + 1 /\ ~In(u, q) => r.thr[u] = U[u])
  BY <1>7, <1>8 DEF Enqueued
<1>10. r = [head |-> r.head, thr |-> r.thr]
  BY DEF Enqueue
<1> HIDE DEF r
<1>11. r.head = 1 /\ \A i \in 1..n+1 : r.thr[i].next = IF i = n + 1 THEN Nil ELSE i + 1
  <2>1. Len(Upto(n+1)) = n + 1 /\ \A i \in 1..n+1 : Upto(n+1)[i] = i
    BY <1>1, UptoIs
  <2> DEFINE g == Upto(n+1)
  <2>2. /\ r.head = (IF Len(g) = 0 THEN Nil ELSE g[1])
        /\ \A i \in 1..Len(g) : r.thr[g[i]].next = IF i = Len(g) THEN Nil ELSE g[i+1]
    BY <1>9 DEF Listed
  <2>3. 1 \in 1..n+1 /\ n + 1 # 0 /\ \A i \in 1..n+1 : i # n + 1 => i + 1 \in 1..n+1
    BY <1>1
  <2> HIDE DEF g
  <2> QED  BY <2>1, <2>2, <2>3 DEF g
<1>12. ASSUME NEW i \in 1..N PROVE r.thr[i] = Put(T[i], i, n + 1)
  <2>1. /\ Put(T[i], i, n + 1) \in ThreadType(N)
        /\ Put(T[i], i, n + 1).next = IF i < n + 1 THEN i + 1 ELSE Nil
    BY <1>1, PutIs
  <2>2. Alike(r.thr[i], Put(T[i], i, n + 1))
    BY <1>3, <1>9 DEF Alike
  <2>3. r.thr[i].next = IF i < n + 1 THEN i + 1 ELSE Nil
    <3>1. CASE i \in 1..n+1
      BY <1>1, <1>11, <3>1
    <3>2. CASE i \notin 1..n+1
      <4>1. ~In(i, q) /\ i # n + 1 /\ ~(i < n + 1) /\ ~(i < n)
        BY <1>1, <3>2, UptoIs
      <4> QED  BY <1>3, <1>9, <4>1
    <3> QED  BY <3>1, <3>2
  <2>4. r.thr[i] \in ThreadType(N)
    BY <1>9
  <2> QED  BY <2>1, <2>2, <2>3, <2>4, SameThread
<1>13. r.thr = [i \in 1..N |-> Put(T[i], i, n + 1)]
  <2>1. r.thr = [i \in 1..N |-> r.thr[i]]
    BY <1>9
  <2> QED  BY <1>12, <2>1
<1>14. Enrolling(N, T, n + 1) = [head |-> 1, thr |-> [i \in 1..N |-> Put(T[i], i, n + 1)]]
  BY <1>1 DEF Enrolling
<1>15. r = Enrolling(N, T, n + 1)
  BY <1>10, <1>11, <1>13, <1>14
<1> QED  BY <1>1, <1>15 DEF r, U

(* ... and at the end they all are.                                        *)
LEMMA EnrolledIs ==
    ASSUME NEW N \in Nat, N <= MaxThreads, NEW s, s.ready = Nil, NEW T,
           T \in [1..N -> ThreadType(N)], \A i \in 1..N : IsNew(N, T[i])
    PROVE  Enrolled(s, T) = Enrolling(N, T, N)
<1> DEFINE Add(e, t) == Enqueue([e.thr EXCEPT ![t].state = "READY"], e.head, t)
           Is(f) == f = [n \in 0..N |-> IF n = 0 THEN [head |-> s.ready, thr |-> T]
                                        ELSE Add(f[n-1], n)]
           added == CHOOSE f : Is(f)
           f1 == [n \in 0..N |-> Enrolling(N, T, n)]
<1>1. Len(T) = N
  OBVIOUS
<1>2. Enrolled(s, T) = added[N]
  BY <1>1 DEF Enrolled
<1>3. Enrolling(N, T, 0) = [head |-> s.ready, thr |-> T]
  <2>1. ASSUME NEW i \in 1..N PROVE Put(T[i], i, 0) = T[i]
    <3>1. IsNew(N, T[i])
      OBVIOUS
    <3>2. Put(T[i], i, 0) \in ThreadType(N) /\ T[i] \in ThreadType(N)
      BY <3>1, PutIs DEF IsNew
    <3>3. Alike(Put(T[i], i, 0), T[i]) /\ Put(T[i], i, 0).next = T[i].next
      BY <3>1, PutIs DEF IsNew, Alike
    <3> QED  BY <3>2, <3>3, SameThread
  <2>2. T = [i \in 1..N |-> T[i]]
    OBVIOUS
  <2>3. [i \in 1..N |-> Put(T[i], i, 0)] = T
    BY <2>1, <2>2
  <2> QED  BY <2>3 DEF Enrolling
<1>4. ASSUME NEW n \in 0..N-1 PROVE Add(Enrolling(N, T, n), n + 1) = Enrolling(N, T, n + 1)
  BY EnrolOne
<1> HIDE DEF Add
<1>5. Is(f1)
  <2>1. ASSUME NEW n \in 0..N
        PROVE  f1[n] = IF n = 0 THEN [head |-> s.ready, thr |-> T] ELSE Add(f1[n-1], n)
    <3>1. CASE n = 0
      BY <1>3, <3>1
    <3>2. CASE n # 0
      <4>1. n - 1 \in 0..N-1 /\ n - 1 \in 0..N /\ (n - 1) + 1 = n
        BY <3>2
      <4>2. f1[n-1] = Enrolling(N, T, n-1) /\ f1[n] = Enrolling(N, T, n)
        BY <4>1
      <4> HIDE DEF f1
      <4> QED  BY <1>4, <3>2, <4>1, <4>2
    <3> QED  BY <3>1, <3>2
  <2>2. f1 = [n \in 0..N |-> f1[n]]
    OBVIOUS
  <2> HIDE DEF f1
  <2> QED  BY <2>1, <2>2
<1>6. Is(added)
  <2> HIDE DEF Is, f1
  <2> QED  BY <1>5
<1> DEFINE S == {n \in 0..N : added[n] = f1[n]}
<1> HIDE DEF added, f1
<1>7. 0 \in S
  BY <1>5, <1>6
<1>8. ASSUME NEW n \in 0..N-1, n \in S PROVE n + 1 \in S
  <2>1. n + 1 \in 0..N /\ n + 1 # 0 /\ (n + 1) - 1 = n /\ added[n] = f1[n]
    BY <1>8
  <2>2. added[n+1] = Add(added[n], n + 1)
    BY <1>6, <2>1
  <2>3. f1[n+1] = Add(f1[n], n + 1)
    BY <1>5, <2>1
  <2> QED  BY <2>1, <2>2, <2>3
<1> HIDE DEF S
<1>9. 0..N \subseteq S
  BY <1>7, <1>8, UpTo
<1>10. added[N] = f1[N]
  BY <1>9 DEF S
<1> QED  BY <1>2, <1>10 DEF f1

(* What holds of the threads and the scheduler whenever the code returns   *)
(* to its loop.                                                            *)
Sound(N, s, T, R, D) ==
    /\ Queued(N, s, T, R, D) /\ Timed(N, s, T)
    /\ s.algorithm # "RR" => InTurn(N, s, T, R)
    /\ s.algorithm = "RR" => Fair(N, T) /\ \E b, base : Round(N, s, T, R, b, base)

TaskType == [priority : Nat, burst : Nat \ {0}]

(* It holds when a simulation starts.                                      *)
LEMMA SoundAtStart ==
    ASSUME NEW alg \in Algorithms \cup {"FCFS"}, NEW N \in Nat, N <= MaxThreads,
           NEW tasks \in [1..N -> TaskType],
           NEW T, T = [i \in 1..N |-> Created(tasks[i], 0)]
    PROVE  LET e == Enrolled(Fresh(alg), T) IN
           /\ Sound(N, [Fresh(alg) EXCEPT !.ready = e.head], e.thr, Upto(N), <<>>)
           /\ e.head = IF N = 0 THEN Nil ELSE 1
<1> DEFINE e == Enrolled(Fresh(alg), T)
           s == [Fresh(alg) EXCEPT !.ready = e.head]
           U == e.thr
           R == Upto(N)
<1>q. Quantum \in Nat \ {0}
  BY Parameters
<1>1. ASSUME NEW i \in 1..N
      PROVE  /\ IsNew(N, T[i]) /\ T[i].arrival = 0 /\ T[i].remaining = T[i].burst
             /\ T[i].start = -1 /\ T[i].response = -1 /\ T[i].burst \in Nat \ {0}
  <2>1. tasks[i] \in TaskType
    OBVIOUS
  <2>2. tasks[i].priority \in Nat /\ tasks[i].burst \in Nat \ {0}
    BY <2>1 DEF TaskType
  <2>3. T[i] = Created(tasks[i], 0)
    OBVIOUS
  <2>4. Nil \in 0..N /\ 0 \in Nat /\ -1 \in Nat \cup {-1}
    BY DEF Nil
  <2> QED  BY <2>2, <2>3, <2>4 DEF Created, ThreadType, IsNew
<1>2. T \in [1..N -> ThreadType(N)]
  <2>1. \A i \in 1..N : T[i] \in ThreadType(N)
    BY <1>1 DEF IsNew
  <2>2. T = [i \in 1..N |-> T[i]]
    OBVIOUS
  <2> QED  BY <2>1, <2>2
<1>3. e = Enrolling(N, T, N)
  <2>1. Fresh(alg).ready = Nil
    BY DEF Fresh
  <2> QED  BY <1>1, <1>2, <2>1, EnrolledIs
<1>4. /\ e.head = (IF N = 0 THEN Nil ELSE 1)
      /\ U = [i \in 1..N |-> Put(T[i], i, N)]
  BY <1>3 DEF Enrolling
<1> HIDE DEF e
<1>5. ASSUME NEW i \in 1..N
      PROVE  /\ U[i] \in ThreadType(N) /\ U[i].state = "READY"
             /\ U[i].next = (IF i < N THEN i + 1 ELSE Nil)
             /\ U[i].arrival = 0 /\ U[i].remaining = U[i].burst /\ U[i].burst \in Nat \ {0}
             /\ U[i].start = -1 /\ U[i].response = -1
  <2>1. U[i] = Put(T[i], i, N) /\ N \in 0..N /\ i <= N
    BY <1>4
  <2> DEFINE x == T[i]
             y == U[i]
  <2>2. /\ IsNew(N, x) /\ y = Put(x, i, N) /\ x.arrival = 0 /\ x.remaining = x.burst
        /\ x.start = -1 /\ x.response = -1 /\ x.burst \in Nat \ {0}
    BY <1>1, <2>1
  <2> HIDE DEF x, y
  <2>3. /\ y \in ThreadType(N) /\ y.state = "READY"
        /\ y.next = (IF i < N THEN i + 1 ELSE Nil) /\ y.burst = x.burst
        /\ y.arrival = x.arrival /\ y.remaining = x.remaining
        /\ y.start = x.start /\ y.response = x.response
    BY <2>1, <2>2, PutIs
  <2> QED  BY <2>2, <2>3 DEF y
<1>6. U \in [1..N -> ThreadType(N)]
  <2>1. U = [i \in 1..N |-> U[i]]
    BY <1>4
  <2> HIDE DEF U
  <2> QED  BY <1>5, <2>1
<1>7. /\ s.algorithm = alg /\ s.ready = e.head /\ s.terminated = Nil /\ s.running = Nil
      /\ s.now = 0 /\ s.slice = 0 /\ s.switches = 0 /\ s \in SchedType(N)
  BY <1>4 DEF Fresh, SchedType, Nil
<1>8. /\ R \in Seq(1..N) /\ Len(R) = N /\ \A i \in 1..N : R[i] = i
      /\ \A u : In(u, R) <=> u \in 1..N
  <2>1. N \in 0..N
    OBVIOUS
  <2> QED  BY <2>1, UptoIs
<1> HIDE DEF s, U, R
<1>9. Listed(N, U, s.ready, R)
  <2>1. \A i \in 1..N : U[R[i]].next = IF i = N THEN Nil ELSE R[i+1]
    BY <1>5, <1>8
  <2>2. s.ready = IF N = 0 THEN Nil ELSE R[1]
    BY <1>4, <1>7, <1>8
  <2> QED  BY <1>8, <2>1, <2>2 DEF Listed
<1>10. Listed(N, U, s.terminated, <<>>)
  <2>1. <<>> \in Seq(1..N) /\ Len(<<>>) = 0
    OBVIOUS
  <2> QED  BY <1>7, <2>1 DEF Listed
<1>11. Queued(N, s, U, R, <<>>)
  <2>1. ASSUME NEW t \in 1..N
        PROVE  /\ U[t].state = "READY" /\ In(t, R) /\ t # s.running /\ ~In(t, <<>>)
    BY <1>5, <1>7, <1>8 DEF Nil, In
  <2> QED  BY <1>6, <1>7, <1>9, <1>10, <2>1 DEF Queued
<1>12. Timed(N, s, U)
  <2>1. ASSUME NEW t \in 1..N PROVE TimesOf(U[t], s.now)
    BY <1>5, <1>7 DEF TimesOf
  <2>2. \A t \in 1..N : U[t].burst - U[t].remaining = 0
    BY <1>5
  <2>3. Work(N, U) \in [1..N -> Nat] /\ \A t \in 1..N : Work(N, U)[t] = 0
    BY <2>2 DEF Work
  <2>4. Total(Work(N, U)) = 0
    BY <2>3, TotalNat
  <2> QED  BY <1>7, <2>1, <2>4 DEF Timed
<1>13. InTurn(N, s, U, R)
  <2>1. Increasing(R)
    BY <1>8 DEF Increasing
  <2> QED  BY <1>5, <2>1 DEF InTurn
<1>14. Fair(N, U)
  BY <1>5 DEF Fair
<1>15. Round(N, s, U, R, 0, 0)
  <2>1. ASSUME NEW t \in 1..N
        PROVE  U[t].burst - U[t].remaining = Least(U[t].burst, Had(0, 0, t))
    <3>1. Had(0, 0, t) = 0
      BY DEF Had
    <3> QED  BY <1>5, <3>1 DEF Least
  <2>2. Rotated(0, R)
    BY <1>8 DEF Rotated, After
  <2>3. \E k \in Nat : 0 = k * Quantum
    <3>1. 0 = 0 * Quantum
      BY <1>q
    <3> QED  BY <3>1
  <2> QED  BY <1>7, <2>1, <2>2, <2>3 DEF Round
<1>16. Sound(N, s, U, R, <<>>)
  BY <1>11, <1>12, <1>13, <1>14, <1>15 DEF Sound
<1> QED  BY <1>4, <1>16 DEF s, U, R, e

(* It holds after every slice.                                             *)
LEMMA SoundAfterSlice ==
    ASSUME NEW N, NEW s, NEW T, NEW R, NEW D, Sound(N, s, T, R, D), ~Over(s)
    PROVE  LET r == ExecuteTimeSlice(s, T)
           IN  r.sched.algorithm = s.algorithm /\ \E R2, D2 : Sound(N, r.sched, r.thr, R2, D2)
<1> DEFINE d == Dispatch(s, T)
           s1 == d.sched
           T1 == d.thr
           e == Execute(s1, T1)
           s2 == Tick(e.sched, s1.running)
           T2 == e.thr
<1>1. Queued(N, s, T, R, D) /\ Timed(N, s, T)
  BY DEF Sound
<1>2. s.running \in 0..N
  BY <1>1, QueuedIs
<1>3. \E R1 : /\ Sound(N, s1, T1, R1, D) /\ s1.running \in 1..N
              /\ s1.algorithm = s.algorithm
  <2>1. CASE s.running # Nil
    <3>1. s1 = s /\ T1 = T
      BY <2>1 DEF Dispatch
    <3> QED  BY <1>2, <2>1, <3>1 DEF Nil
  <2>2. CASE s.running = Nil
    <3>1. s.ready # Nil
      BY <2>2 DEF Over
    <3>2. PICK i : Dispatched(N, s, T, R, D, i, s1, T1)
      BY <1>1, <2>2, <3>1, DispatchIs
    <3> HIDE DEF d, s1, T1
    <3>3. /\ Queued(N, s1, T1, Without(R, i), D) /\ s1.algorithm = s.algorithm
          /\ s1.running = R[i] /\ i \in 1..Len(R)
      BY <3>2 DEF Dispatched
    <3>4. Timed(N, s1, T1)
      BY <1>1, <3>2, TimedDispatch
    <3>5. R[i] \in 1..N
      BY <1>1, <3>3, PlacedIs
    <3>6. ASSUME s.algorithm # "RR" PROVE InTurn(N, s1, T1, Without(R, i))
      <4>1. InTurn(N, s, T, R)
        BY <3>6 DEF Sound
      <4> QED  BY <1>1, <2>2, <3>2, <3>6, <4>1, InTurnDispatch
    <3>7. ASSUME s.algorithm = "RR"
          PROVE  Fair(N, T1) /\ \E b, base : Round(N, s1, T1, Without(R, i), b, base)
      <4>1. Fair(N, T)
        BY <3>7 DEF Sound
      <4>2. PICK b, base : Round(N, s, T, R, b, base)
        BY <3>7 DEF Sound
      <4>3. Fair(N, T1)
        BY <1>1, <2>2, <3>2, <3>7, <4>1, <4>2, FairDispatch
      <4>4. \/ Round(N, s1, T1, Without(R, i), R[i] - 1, base)
            \/ Round(N, s1, T1, Without(R, i), R[i] - 1, base + Quantum)
        BY <1>1, <2>2, <3>2, <3>7, <4>2, RoundDispatch
      <4> QED  BY <4>3, <4>4
    <3>8. Sound(N, s1, T1, Without(R, i), D)
      BY <3>3, <3>4, <3>6, <3>7 DEF Sound
    <3> QED  BY <3>3, <3>5, <3>8
  <2> QED  BY <2>1, <2>2
<1> HIDE DEF d, s1, T1
<1>4. PICK R1 : /\ Sound(N, s1, T1, R1, D) /\ s1.running \in 1..N
                /\ s1.algorithm = s.algorithm
  BY <1>3
<1> DEFINE t == s1.running
<1>5. Queued(N, s1, T1, R1, D) /\ Timed(N, s1, T1)
  BY <1>4 DEF Sound
<1>6. t \in 1..N /\ T1[t].remaining >= 1 /\ T1[t].arrival = 0
  <2>1. T1[t].state = "RUNNING" /\ T1[t] \in ThreadType(N)
    BY <1>4, <1>5, QueuedIs
  <2>2. TimesOf(T1[t], s1.now)
    BY <1>4, <1>5 DEF Timed
  <2> QED  BY <1>4, <2>1, <2>2 DEF TimesOf, ThreadType
<1>7. Executed(N, s1, T1, R1, D, t, s2, T2)
  BY <1>5, <1>6, ExecuteIs
<1> HIDE DEF e, s2, T2
<1>8. s2.algorithm = s1.algorithm
  BY <1>7 DEF Executed
<1>9. Timed(N, s2, T2)
  BY <1>5, <1>6, <1>7, TimedExecute
<1>10. ASSUME s1.algorithm # "RR"
       PROVE  InTurn(N, s2, T2, R1) /\ \E D2 : Queued(N, s2, T2, R1, D2)
  <2>1. InTurn(N, s1, T1, R1)
    BY <1>4, <1>10 DEF Sound
  <2>2. InTurn(N, s2, T2, R1)
    BY <1>5, <1>6, <1>7, <1>10, <2>1, InTurnExecute
  <2>3. Queued(N, s2, T2, R1, D) \/ Queued(N, s2, T2, R1, Append(D, t))
    BY <1>7, <1>10 DEF Executed, Completed, Requeued, RunsOn
  <2> QED  BY <2>2, <2>3
<1>11. ASSUME s1.algorithm = "RR"
       PROVE  /\ Fair(N, T2)
              /\ \E R2, D2, b2, base2 :
                    Queued(N, s2, T2, R2, D2) /\ Round(N, s2, T2, R2, b2, base2)
  <2>1. Fair(N, T1)
    BY <1>4, <1>11 DEF Sound
  <2>2. PICK b, base : Round(N, s1, T1, R1, b, base)
    BY <1>4, <1>11 DEF Sound
  <2>3. Fair(N, T2)
    BY <1>5, <1>6, <1>7, <1>11, <2>1, <2>2, FairExecute
  <2>4. CASE RunsOn(N, s1, T1, R1, D, t, s2, T2)
    <3>1. Round(N, s2, T2, R1, b, base)
      BY <1>5, <1>6, <1>11, <2>2, <2>4, RoundExecute
    <3>2. Queued(N, s2, T2, R1, D)
      BY <2>4 DEF RunsOn
    <3> QED  BY <2>3, <3>1, <3>2
  <2>5. CASE Requeued(N, s1, T1, R1, D, t, s2, T2)
    <3>1. Round(N, s2, T2, Append(R1, t), t, base)
      BY <1>5, <1>6, <1>11, <2>2, <2>5, RoundExecute
    <3>2. Queued(N, s2, T2, Append(R1, t), D)
      BY <2>5 DEF Requeued
    <3> QED  BY <2>3, <3>1, <3>2
  <2>6. CASE Completed(N, s1, T1, R1, D, t, s2, T2)
    <3>1. Round(N, s2, T2, R1, t, base)
      BY <1>5, <1>6, <1>11, <2>2, <2>6, RoundExecute
    <3>2. Queued(N, s2, T2, R1, Append(D, t))
      BY <2>6 DEF Completed
    <3> QED  BY <2>3, <3>1, <3>2
  <2> QED  BY <1>7, <2>4, <2>5, <2>6 DEF Executed
<1>12. \E R2, D2 : Sound(N, s2, T2, R2, D2)
  <2>1. CASE s1.algorithm # "RR"
    BY <1>8, <1>9, <1>10, <2>1 DEF Sound
  <2>2. CASE s1.algorithm = "RR"
    BY <1>8, <1>9, <1>11, <2>2 DEF Sound
  <2> QED  BY <2>1, <2>2
<1>13. ExecuteTimeSlice(s, T) = [sched |-> s2, thr |-> T2]
  BY DEF ExecuteTimeSlice, d, s1, T1, e, s2, T2
<1> QED  BY <1>4, <1>8, <1>12, <1>13

(* The tasks that a program names, and those of the demonstrations.        *)
LEMMA KnownIs ==
    /\ Len(KnownTasks) = 9 /\ DOMAIN KnownTasks = 1..9
    /\ \A n \in 1..9 : KnownTasks[n] \in TaskType
<1>1. \A p \in 0..9, b \in 1..9 : Task(p, b) \in TaskType
  BY DEF Task, TaskType
<1> DEFINE k == KnownTasks
<1>2. /\ Len(k) = 9 /\ DOMAIN k = 1..9
      /\ k[1] = Task(1, 4) /\ k[2] = Task(2, 3) /\ k[3] = Task(1, 2)
      /\ k[4] = Task(5, 2) /\ k[5] = Task(3, 4) /\ k[6] = Task(1, 6)
      /\ k[7] = Task(0, 2) /\ k[8] = Task(0, 8) /\ k[9] = Task(0, 4)
  BY DEF KnownTasks
<1> HIDE DEF k
<1>3. ASSUME NEW n \in 1..9 PROVE k[n] \in TaskType
  <2>1. n = 1 \/ n = 2 \/ n = 3 \/ n = 4 \/ n = 5 \/ n = 6 \/ n = 7 \/ n = 8 \/ n = 9
    OBVIOUS
  <2> QED  BY <1>1, <1>2, <2>1
<1> QED  BY <1>2, <1>3 DEF k

(* The tasks asked for by name are as many as the names.                   *)
LEMMA NamedIs ==
    ASSUME NEW K \in SUBSET (DOMAIN KnownTasks)
    PROVE  Cardinality(K) \in Nat /\ Named(K) \in [1..Cardinality(K) -> TaskType]
<1> DEFINE M == Len(KnownTasks)
           V == Seq(TaskType)
           v0 == <<>>
           F == [n \in 1..M |-> [v \in V |-> IF n \in K THEN Append(v, KnownTasks[n]) ELSE v]]
           Is(f) == f = [n \in 0..M |->
                            IF n = 0 THEN <<>>
                            ELSE IF n \in K THEN Append(f[n-1], KnownTasks[n]) ELSE f[n-1]]
           found == CHOOSE f : Is(f)
           Of(n) == {i \in K : i <= n}
<1>1. M = 9 /\ M \in Nat /\ K \subseteq 1..M /\ \A n \in 1..M : KnownTasks[n] \in TaskType
  BY KnownIs
<1>2. Named(K) = found[M]
  BY DEF Named
<1>3. IsFiniteSet(1..M) /\ \A n : Of(n) \in SUBSET (1..M)
  <2>1. IsFiniteSet(1..M)
    <3>1. 1 \in Int /\ M \in Int
      BY <1>1
    <3> HIDE DEF M
    <3> QED  BY <3>1, FS_Interval
  <2> QED  BY <1>1, <2>1
<1> HIDE DEF M
<1>4. \A n : IsFiniteSet(Of(n)) /\ Cardinality(Of(n)) \in Nat
  <2> DEFINE W == 1..M
  <2>1. IsFiniteSet(W) /\ \A n : Of(n) \in SUBSET W
    BY <1>3
  <2> HIDE DEF W
  <2>2. \A n : IsFiniteSet(Of(n))
    BY <2>1, FS_Subset
  <2> QED  BY <2>2, FS_CardinalityType
<1>5. \E f : Is(f)
  <2>1. F \in [1..M -> [V -> V]]
    <3>1. ASSUME NEW n \in 1..M, NEW v \in V
          PROVE  (IF n \in K THEN Append(v, KnownTasks[n]) ELSE v) \in V
      BY <1>1
    <3> QED  BY <3>1
  <2>2. v0 \in V
    OBVIOUS
  <2>3. \A n \in 1..M, v \in V :
            F[n][v] = IF n \in K THEN Append(v, KnownTasks[n]) ELSE v
    OBVIOUS
  <2> HIDE DEF F, V, v0
  <2>4. PICK f : Steps(M, V, v0, F, f)
    BY <1>1, <2>1, <2>2, StepsExist
  <2>5. ASSUME NEW n \in 0..M
        PROVE  f[n] = IF n = 0 THEN <<>>
                      ELSE IF n \in K THEN Append(f[n-1], KnownTasks[n]) ELSE f[n-1]
    <3>1. CASE n = 0
      BY <2>4, <3>1 DEF Steps, v0
    <3>2. CASE n # 0
      <4>1. n - 1 \in 0..M-1 /\ n - 1 \in 0..M /\ (n - 1) + 1 = n /\ n \in 1..M
        BY <1>1, <3>2
      <4>2. f[n] = F[n][f[n-1]] /\ f[n-1] \in V
        BY <2>4, <4>1 DEF Steps
      <4> QED  BY <2>3, <3>2, <4>1, <4>2
    <3> QED  BY <3>1, <3>2
  <2>6. f = [n \in 0..M |-> f[n]]
    BY <2>4 DEF Steps
  <2>7. Is(f)
    BY <2>5, <2>6
  <2> QED  BY <2>7
<1>6. Is(found)
  <2> HIDE DEF Is
  <2> QED  BY <1>5
<1> DEFINE S == {n \in 0..M : found[n] \in V /\ Len(found[n]) = Cardinality(Of(n))}
<1> HIDE DEF found, V
<1>7. 0 \in S
  <2>1. Of(0) = {}
    BY <1>1
  <2>2. Cardinality(Of(0)) = 0
    BY <2>1, FS_EmptySet
  <2>3. found[0] = <<>> /\ 0 \in 0..M
    BY <1>1, <1>6
  <2>4. <<>> \in V /\ Len(<<>>) = 0
    BY DEF V
  <2> QED  BY <2>2, <2>3, <2>4
<1>8. ASSUME NEW n \in 0..M-1, n \in S PROVE n + 1 \in S
  <2>1. /\ n + 1 \in 0..M /\ n + 1 \in 1..M /\ n + 1 # 0 /\ (n + 1) - 1 = n
        /\ found[n] \in V /\ Len(found[n]) = Cardinality(Of(n))
    BY <1>1, <1>8
  <2>2. found[n+1] = IF n + 1 \in K THEN Append(found[n], KnownTasks[n+1]) ELSE found[n]
    BY <1>6, <2>1
  <2> DEFINE a == Of(n)
             c == Of(n+1)
  <2>3. CASE n + 1 \in K
    <3>1. c = a \cup {n + 1} /\ n + 1 \notin a
      BY <1>1, <2>3
    <3>2. IsFiniteSet(a) /\ Cardinality(a) \in Nat
      BY <1>4
    <3> HIDE DEF a, c
    <3>3. Cardinality(c) = Cardinality(a) + 1
      BY <3>1, <3>2, FS_AddElement
    <3>4. found[n+1] \in V /\ Len(found[n+1]) = Len(found[n]) + 1
      BY <1>1, <2>1, <2>2, <2>3 DEF V
    <3> QED  BY <2>1, <3>3, <3>4 DEF a, c
  <2>4. CASE n + 1 \notin K
    <3>1. c = a
      BY <1>1, <2>4
    <3> QED  BY <2>1, <2>2, <2>4, <3>1
  <2> QED  BY <2>3, <2>4
<1> HIDE DEF S
<1>9. 0..M \subseteq S
  BY <1>1, <1>7, <1>8, UpTo
<1>10. found[M] \in V /\ Len(found[M]) = Cardinality(Of(M))
  BY <1>1, <1>9 DEF S
<1>11. Of(M) = K
  BY <1>1
<1>12. Cardinality(K) \in Nat
  BY <1>4, <1>11
<1> DEFINE q == found[M]
           m == Cardinality(K)
<1>13. q \in Seq(TaskType) /\ Len(q) = m /\ m \in Nat
  BY <1>10, <1>11, <1>12 DEF V
<1> HIDE DEF q, m
<1>14. q \in [1..m -> TaskType]
  BY <1>13
<1> QED  BY <1>2, <1>13, <1>14 DEF q, m

(* A command line asks for a known algorithm and at least one task.        *)
LEMMA AskedIs ==
    ASSUME NEW asked, asked \in Parsed \/ (asked \in Demos /\ asked[1] \in Algorithms)
    PROVE  /\ asked[1] \in Algorithms
           /\ \E n \in 1..MaxThreads : asked[2] \in [1..n -> TaskType]
<1> DEFINE Is(q) == \E n \in 1..MaxThreads : q \in [1..n -> TaskType]
<1>q. MaxThreads \in Nat /\ 3 \in 1..MaxThreads
  BY Parameters
<1>1. \A p \in 0..9, b \in 1..9 : Task(p, b) \in TaskType
  BY DEF Task, TaskType
<1>2. ASSUME NEW x \in TaskType, NEW y \in TaskType, NEW z \in TaskType PROVE Is(<<x, y, z>>)
  <2>1. <<x, y, z>> \in [1..3 -> TaskType]
    OBVIOUS
  <2> QED  BY <1>q, <2>1
<1>3. Is(DefaultTasks)
  <2>1. Task(1, 3) \in TaskType /\ Task(2, 4) \in TaskType /\ Task(1, 2) \in TaskType
    BY <1>1
  <2> HIDE DEF Is
  <2> QED  BY <1>2, <2>1 DEF DefaultTasks
<1>4. ASSUME NEW K \in SUBSET (DOMAIN KnownTasks), K # {}, Cardinality(K) <= MaxThreads
      PROVE  Is(Named(K))
  <2>1. Cardinality(K) \in Nat /\ Named(K) \in [1..Cardinality(K) -> TaskType]
    BY NamedIs
  <2>2. IsFiniteSet(K)
    <3> DEFINE W == 1..9
    <3>1. IsFiniteSet(W) /\ K \in SUBSET W
      <4>1. 1 \in Int /\ 9 \in Int /\ K \subseteq 1..9
        BY KnownIs
      <4>2. IsFiniteSet(1..9)
        BY <4>1, FS_Interval
      <4> QED  BY <4>1, <4>2
    <3> HIDE DEF W
    <3> QED  BY <3>1, FS_Subset
  <2>3. Cardinality(K) # 0
    BY <1>4, <2>2, FS_EmptySet
  <2>4. Cardinality(K) \in 1..MaxThreads
    BY <1>4, <1>q, <2>1, <2>3
  <2> QED  BY <2>1, <2>4
<1>5. CASE asked \in Demos /\ asked[1] \in Algorithms
  <2>1. /\ Task(0, 4) \in TaskType /\ Task(0, 3) \in TaskType /\ Task(0, 2) \in TaskType
        /\ Task(0, 8) \in TaskType /\ Task(1, 6) \in TaskType /\ Task(5, 2) \in TaskType
        /\ Task(3, 4) \in TaskType /\ Task(0, 5) \in TaskType
    BY <1>1
  <2> HIDE DEF Is
  <2>2. /\ Is(<<Task(0, 4), Task(0, 3), Task(0, 2)>>)
        /\ Is(<<Task(0, 2), Task(0, 8), Task(0, 4)>>)
        /\ Is(<<Task(1, 6), Task(5, 2), Task(3, 4)>>)
        /\ Is(<<Task(0, 5), Task(0, 3), Task(0, 4)>>)
    BY <1>2, <2>1
  <2>3. \/ asked[2] = <<Task(0, 4), Task(0, 3), Task(0, 2)>>
        \/ asked[2] = <<Task(0, 2), Task(0, 8), Task(0, 4)>>
        \/ asked[2] = <<Task(1, 6), Task(5, 2), Task(3, 4)>>
        \/ asked[2] = <<Task(0, 5), Task(0, 3), Task(0, 4)>>
    BY <1>5 DEF Demos
  <2>4. Is(asked[2])
    BY <2>2, <2>3
  <2> QED  BY <1>5, <2>4 DEF Is
<1>6. CASE asked \in Parsed
  <2> HIDE DEF Is
  <2>1. /\ asked[1] \in Algorithms
        /\ \/ asked[2] = DefaultTasks
           \/ \E K \in SUBSET (DOMAIN KnownTasks) :
                 K # {} /\ Cardinality(K) <= MaxThreads /\ asked[2] = Named(K)
    BY <1>6 DEF Parsed
  <2>2. Is(asked[2])
    BY <1>3, <1>4, <2>1
  <2> QED  BY <2>1, <2>2 DEF Is
<1> QED  BY <1>5, <1>6

-----------------------------------------------------------------------------
(* The invariant.                                                          *)
Inv ==
    /\ pc \in {"idle", "run", "done"}
    /\ \E R, D : Sound(Len(thr), sched, thr, R, D)
    /\ pc = "run" => ~Over(sched)
    /\ pc = "done" => Over(sched) /\ stats = Totals(sched, thr)
    /\ pc # "done" => stats = NoStats

(* The invariant holds when the threads have been enrolled.                *)
LEMMA InvAtStart ==
    ASSUME NEW alg \in Algorithms, NEW n \in 1..MaxThreads, NEW tasks \in [1..n -> TaskType],
           Start(Fresh(alg), [i \in DOMAIN tasks |-> Created(tasks[i], 0)])
    PROVE  Inv'
<1> DEFINE T == [i \in 1..n |-> Created(tasks[i], 0)]
           e == Enrolled(Fresh(alg), T)
           s == [Fresh(alg) EXCEPT !.ready = e.head]
<1>1. n \in Nat /\ n <= MaxThreads /\ n # 0 /\ MaxThreads \in Nat /\ TimeCap \in Nat
  BY Parameters
<1>2. [i \in DOMAIN tasks |-> Created(tasks[i], 0)] = T
  OBVIOUS
<1>3. pc' = "run" /\ sched' = s /\ thr' = e.thr /\ stats' = NoStats
  BY <1>2 DEF Start
<1>4. Sound(n, s, e.thr, Upto(n), <<>>) /\ e.head = 1
  <2> HIDE DEF T, e, s
  <2>1. T = [i \in 1..n |-> Created(tasks[i], 0)]
    BY DEF T
  <2> QED  BY <1>1, <2>1, SoundAtStart DEF e, s
<1>5. s.ready = e.head /\ s.now = 0
  BY DEF Fresh
<1> HIDE DEF T, e, s
<1>6. Len(e.thr) = n
  <2>1. e.thr \in [1..n -> ThreadType(n)]
    BY <1>4, QueuedIs DEF Sound
  <2> QED  BY <1>1, <2>1
<1>7. ~Over(s)
  BY <1>1, <1>4, <1>5 DEF Over, Nil
<1>8. \E R, D : Sound(Len(thr'), sched', thr', R, D)
  BY <1>3, <1>4, <1>6
<1>9. ~Over(sched)'
  BY <1>3, <1>7 DEF Over
<1> QED  BY <1>3, <1>8, <1>9 DEF Inv

(* The invariant holds in every state of the scheduler.                    *)
LEMMA InvHolds == Spec => []Inv
<1>1. Init => Inv
  <2> SUFFICES ASSUME Init PROVE Inv
    OBVIOUS
  <2> DEFINE alg == "FCFS"
             tasks == <<>>
             T == [i \in 1..0 |-> Created(tasks[i], 0)]
             e == Enrolled(Fresh(alg), T)
             s == [Fresh(alg) EXCEPT !.ready = e.head]
  <2>1. /\ 0 \in Nat /\ 0 <= MaxThreads /\ alg \in Algorithms \cup {"FCFS"}
        /\ tasks \in [1..0 -> TaskType]
    BY Parameters
  <2>2. Sound(0, s, e.thr, Upto(0), <<>>) /\ e.head = Nil
    <3> HIDE DEF T, e, s, tasks, alg
    <3>1. T = [i \in 1..0 |-> Created(tasks[i], 0)]
      BY DEF T
    <3> QED  BY <2>1, <3>1, SoundAtStart DEF e, s
  <2>3. s = Fresh(alg)
    BY <2>2 DEF Fresh
  <2>4. thr = e.thr /\ Len(thr) = 0
    <3>1. e.thr \in [1..0 -> ThreadType(0)]
      BY <2>2, QueuedIs DEF Sound
    <3> HIDE DEF e
    <3> QED  BY <3>1 DEF Init
  <2> HIDE DEF e, s
  <2>5. Sound(Len(thr), sched, thr, Upto(0), <<>>)
    BY <2>2, <2>3, <2>4 DEF Init
  <2> QED  BY <2>5 DEF Init, Inv
<1>2. Inv /\ [Next]_vars => Inv'
  <2> SUFFICES ASSUME Inv, [Next]_vars PROVE Inv'
    OBVIOUS
  <2>1. ASSUME NEW asked \in {d \in Demos : d[1] \in Algorithms}, Demo(asked[1], asked[2])
        PROVE  Inv'
    <3>1. asked[1] \in Algorithms /\ \E n \in 1..MaxThreads : asked[2] \in [1..n -> TaskType]
      BY <2>1, AskedIs
    <3>2. PICK n \in 1..MaxThreads : asked[2] \in [1..n -> TaskType]
      BY <3>1
    <3> QED  BY <2>1, <3>1, <3>2, InvAtStart DEF Demo
  <2>2. ASSUME NEW asked \in Parsed, ThreadDemo(asked[1], asked[2])
        PROVE  Inv'
    <3> DEFINE tasks == asked[2]
    <3>1. asked[1] \in Algorithms /\ \E n \in 1..MaxThreads : tasks \in [1..n -> TaskType]
      BY <2>2, AskedIs
    <3>2. PICK n \in 1..MaxThreads : tasks \in [1..n -> TaskType]
      BY <3>1
    <3> DEFINE C == [i \in DOMAIN tasks |-> Created(tasks[i], sched.now)]
               T == [i \in DOMAIN tasks |-> [C[i] EXCEPT !.arrival = 0]]
    <3>3. Start(Fresh(asked[1]), T)
      BY <2>2 DEF ThreadDemo
    <3>4. T = [i \in DOMAIN tasks |-> Created(tasks[i], 0)]
      <4>1. ASSUME NEW i \in DOMAIN tasks PROVE [C[i] EXCEPT !.arrival = 0] = Created(tasks[i], 0)
        BY DEF Created
      <4> QED  BY <4>1
    <3> HIDE DEF T, C, tasks
    <3>5. Start(Fresh(asked[1]), [i \in DOMAIN tasks |-> Created(tasks[i], 0)])
      BY <3>3, <3>4
    <3> QED  BY <3>1, <3>2, <3>5, InvAtStart
  <2>3. CASE Slice
    <3> DEFINE r == ExecuteTimeSlice(sched, thr)
    <3>1. /\ pc = "run" /\ sched' = r.sched /\ thr' = r.thr
          /\ pc' = (IF Over(r.sched) THEN "done" ELSE "run")
          /\ stats' = IF Over(r.sched) THEN Totals(r.sched, r.thr) ELSE stats
      BY <2>3 DEF Slice
    <3>2. PICK R, D : Sound(Len(thr), sched, thr, R, D)
      BY DEF Inv
    <3>3. ~Over(sched)
      BY <3>1 DEF Inv
    <3>4. PICK R2, D2 : Sound(Len(thr), r.sched, r.thr, R2, D2)
      BY <3>2, <3>3, SoundAfterSlice
    <3> HIDE DEF r
    <3>5. Len(r.thr) = Len(thr)
      <4> DEFINE n == Len(thr)
      <4> HIDE DEF n
      <4>1. Sound(n, r.sched, r.thr, R2, D2)
        BY <3>4 DEF n
      <4>2. n \in Nat /\ r.thr \in [1..n -> ThreadType(n)]
        BY <4>1, QueuedIs DEF Sound
      <4> QED  BY <4>2 DEF n
    <3>6. \E Q, E : Sound(Len(thr'), sched', thr', Q, E)
      BY <3>1, <3>4, <3>5
    <3>7. Over(sched)' <=> Over(r.sched)
      BY <3>1
    <3>8. Totals(sched, thr)' = Totals(r.sched, r.thr)
      BY <3>1
    <3>9. stats = NoStats
      BY <3>1 DEF Inv
    <3> QED  BY <3>1, <3>6, <3>7, <3>8, <3>9 DEF Inv
  <2>4. CASE UNCHANGED vars
    <3>1. pc' = pc /\ sched' = sched /\ thr' = thr /\ stats' = stats
      BY <2>4 DEF vars
    <3>2. Over(sched)' <=> Over(sched)
      BY <3>1
    <3>3. Totals(sched, thr)' = Totals(sched, thr)
      BY <3>1
    <3>4. \E R, D : Sound(Len(thr'), sched', thr', R, D)
      BY <3>1 DEF Inv
    <3> QED  BY <3>1, <3>2, <3>3, <3>4 DEF Inv
  <2> QED  BY <2>1, <2>2, <2>3, <2>4 DEF Next
<1> QED  BY <1>1, <1>2, PTL DEF Spec

(* What the invariant says of the queues as the properties name them.      *)
LEMMA InvIs ==
    ASSUME Inv
    PROVE  LET N == Len(thr) IN
           /\ N \in Nat /\ Ids = 1..N /\ thr \in [1..N -> ThreadType(N)]
           /\ Sound(N, sched, thr, ReadyQ, TerminatedQ)
           /\ Queued(N, sched, thr, ReadyQ, TerminatedQ) /\ Timed(N, sched, thr)
<1> DEFINE N == Len(thr)
<1>1. PICK R, D : Sound(N, sched, thr, R, D)
  BY DEF Inv
<1> HIDE DEF N
<1>2. Queued(N, sched, thr, R, D) /\ Timed(N, sched, thr)
  BY <1>1 DEF Sound
<1>3. /\ N \in Nat /\ N <= MaxThreads /\ thr \in [1..N -> ThreadType(N)]
      /\ Listed(N, thr, sched.ready, R) /\ Listed(N, thr, sched.terminated, D)
  BY <1>2, QueuedIs
<1>4. ReadyQ = R /\ TerminatedQ = D
  BY <1>3, ChainIs DEF ReadyQ, TerminatedQ
<1>5. Ids = 1..N
  BY <1>3 DEF Ids
<1> QED  BY <1>1, <1>2, <1>3, <1>4, <1>5 DEF N

(* How many threads are in each place.                                     *)
LEMMA CountIs ==
    ASSUME NEW N, NEW s, NEW T, NEW R, NEW D, Queued(N, s, T, R, D)
    PROVE  (Len(R) + Len(D)) + (IF s.running = Nil THEN 0 ELSE 1) = N
<1> DEFINE A == {t \in 1..N : In(t, R)}
           B == {t \in 1..N : In(t, D)}
           C == {t \in 1..N : t = s.running}
<1>1. /\ N \in Nat /\ s.running \in 0..N
      /\ R \in Seq(1..N) /\ D \in Seq(1..N)
      /\ \A i, j \in 1..Len(R) : R[i] = R[j] => i = j
      /\ \A i, j \in 1..Len(D) : D[i] = D[j] => i = j
  BY QueuedIs, PlacedIs
<1>2. /\ \A t \in 1..N : T[t].state \in {"READY", "RUNNING", "TERMINATED"}
      /\ \A t \in 1..N : T[t].state = "READY" <=> In(t, R)
      /\ \A t \in 1..N : T[t].state = "RUNNING" <=> t = s.running
      /\ \A t \in 1..N : T[t].state = "TERMINATED" <=> In(t, D)
  BY QueuedIs
<1>3. IsFiniteSet(A) /\ Cardinality(A) = Len(R) /\ Len(R) \in Nat
  BY <1>1, QueueIs
<1>4. IsFiniteSet(B) /\ Cardinality(B) = Len(D) /\ Len(D) \in Nat
  BY <1>1, QueueIs
<1>5. IsFiniteSet(C) /\ Cardinality(C) = IF s.running = Nil THEN 0 ELSE 1
  <2>1. CASE s.running = Nil
    <3>1. C = {}
      BY <2>1 DEF Nil
    <3> QED  BY <2>1, <3>1, FS_EmptySet
  <2>2. CASE s.running # Nil
    <3>1. C = {s.running}
      BY <1>1, <2>2 DEF Nil
    <3> QED  BY <2>2, <3>1, FS_Singleton
  <2> QED  BY <2>1, <2>2
<1>6. (A \cup B) \cup C = 1..N
  BY <1>2
<1>7. A \cap B = {} /\ (A \cup B) \cap C = {}
  BY <1>2
<1> HIDE DEF A, B, C
<1>8. IsFiniteSet(A \cup B) /\ Cardinality(A \cup B) = Cardinality(A) + Cardinality(B)
  <2>1. IsFiniteSet(A \cup B)
        /\ Cardinality(A \cup B) = Cardinality(A) + Cardinality(B) - Cardinality(A \cap B)
    BY <1>3, <1>4, FS_Union
  <2>2. Cardinality(A \cap B) = 0
    BY <1>7, FS_EmptySet
  <2> QED  BY <1>3, <1>4, <2>1, <2>2
<1>9. Cardinality((A \cup B) \cup C) = Cardinality(A \cup B) + Cardinality(C)
  <2> DEFINE X == A \cup B
  <2>1. IsFiniteSet(X) /\ Cardinality(X) \in Nat /\ IsFiniteSet(C) /\ Cardinality(C) \in Nat
    BY <1>3, <1>4, <1>5, <1>8
  <2>2. Cardinality(X \cap C) = 0
    BY <1>7, FS_EmptySet
  <2> HIDE DEF X
  <2>3. Cardinality(X \cup C) = Cardinality(X) + Cardinality(C) - Cardinality(X \cap C)
    BY <2>1, FS_Union
  <2>4. Cardinality(X \cup C) = Cardinality(X) + Cardinality(C)
    BY <2>1, <2>2, <2>3
  <2> QED  BY <2>4 DEF X
<1>10. Cardinality(1..N) = N
  <2>1. 1 \in Int /\ N \in Int
    BY <1>1
  <2>2. Cardinality(1..N) = IF 1 > N THEN 0 ELSE N-1+1
    BY <2>1, FS_Interval
  <2> QED  BY <1>1, <2>2
<1> QED  BY <1>3, <1>4, <1>5, <1>6, <1>8, <1>9, <1>10

(* No time is negative: the types of the scheduler, of the threads and of  *)
(* the statistics hold.                                                    *)
THEOREM Types == Spec => []TypeOK
<1>1. Inv => TypeOK
  <2> SUFFICES ASSUME Inv PROVE TypeOK
    OBVIOUS
  <2> DEFINE N == Len(thr)
             D == TerminatedQ
  <2>1. /\ N \in Nat /\ thr \in [1..N -> ThreadType(N)] /\ DOMAIN thr = 1..N
        /\ Queued(N, sched, thr, ReadyQ, D)
    BY InvIs
  <2> HIDE DEF N, D
  <2>2. /\ N <= MaxThreads /\ MaxThreads \in Nat /\ sched \in SchedType(N)
        /\ \A u \in 1..N : thr[u].state \in {"READY", "RUNNING", "TERMINATED"}
        /\ \A u \in 1..N : thr[u] \in ThreadType(N)
    BY <2>1, QueuedIs, Parameters
  <2>3. 0..N \subseteq Threads \cup {Nil}
    BY <2>1, <2>2 DEF Threads, Nil
  <2>4. sched \in [algorithm : Algorithms \cup {"FCFS"},
                   ready : Threads \cup {Nil}, terminated : Threads \cup {Nil},
                   running : Threads \cup {Nil}, now : Nat, slice : Nat, switches : Nat]
    BY <2>2, <2>3 DEF SchedType
  <2>5. ASSUME NEW t \in DOMAIN thr
        PROVE  /\ thr[t].state \in {"READY", "RUNNING", "TERMINATED"}
               /\ thr[t].remaining \in Nat /\ thr[t].next \in Threads \cup {Nil}
               /\ thr[t].response \in Nat \cup {-1}
    BY <2>1, <2>2, <2>3 DEF ThreadType
  <2>6. \A k \in DOMAIN stats : stats[k] \in Nat
    <3>1. CASE pc # "done"
      <4>1. stats = NoStats
        BY <3>1 DEF Inv
      <4> QED  BY <4>1 DEF NoStats
    <3>2. CASE pc = "done"
      <4> DEFINE m == Len(D)
                 a == [i \in 1..m |-> thr[D[i]].turnaround]
                 b == [i \in 1..m |-> thr[D[i]].waiting]
                 c == [i \in 1..m |-> thr[D[i]].response]
                 d == [i \in 1..m |-> thr[D[i]].burst]
      <4>1. m \in Nat /\ D \in Seq(1..N)
        BY <2>1, QueuedIs
      <4>2. DOMAIN D = 1..m
        BY <4>1
      <4>3. stats = [count |-> m, turnaround |-> Total(a), waiting |-> Total(b),
                     response |-> Total(c), cpu |-> Total(d)]
        <5>1. stats = Totals(sched, thr)
          BY <3>2 DEF Inv
        <5> QED  BY <4>2, <5>1 DEF Totals, D, TerminatedQ
      <4>4. ASSUME NEW i \in 1..m
            PROVE  /\ thr[D[i]].turnaround \in Nat /\ thr[D[i]].waiting \in Nat
                   /\ thr[D[i]].response \in Nat /\ thr[D[i]].burst \in Nat
        <5>1. D[i] \in 1..N /\ thr[D[i]].state = "TERMINATED"
          BY <2>1, PlacedIs
        <5> DEFINE x == thr[D[i]]
        <5>2. x \in ThreadType(N) /\ TimesOf(x, sched.now) /\ x.state = "TERMINATED"
          BY <2>1, <2>2, <5>1, InvIs DEF Timed, N
        <5> HIDE DEF x
        <5>3. x.start # -1 /\ x.response = x.start
          BY <5>2 DEF TimesOf
        <5>4. /\ x.turnaround \in Nat /\ x.waiting \in Nat /\ x.start \in Nat \cup {-1}
              /\ x.burst \in Nat
          BY <5>2 DEF ThreadType
        <5> QED  BY <5>3, <5>4 DEF x
      <4>5. /\ a \in [1..m -> Nat] /\ b \in [1..m -> Nat]
            /\ c \in [1..m -> Nat] /\ d \in [1..m -> Nat]
        BY <4>4
      <4> HIDE DEF m, a, b, c, d
      <4>6. Total(a) \in Nat /\ Total(b) \in Nat /\ Total(c) \in Nat /\ Total(d) \in Nat
        BY <4>1, <4>5, TotalNat
      <4> QED  BY <4>1, <4>3, <4>6
    <3> QED  BY <3>1, <3>2
  <2>7. pc \in {"idle", "run", "done"}
    BY DEF Inv
  <2> QED  BY <2>4, <2>5, <2>6, <2>7 DEF TypeOK
<1> QED  BY <1>1, InvHolds, PTL

(* What a queue contains, and two of them put together.                    *)
LEMMA InSeq ==
    ASSUME NEW N, NEW q \in Seq(1..N), NEW u, In(u, q)
    PROVE  u \in 1..N
<1> DEFINE S == 1..N
<1>1. q \in Seq(S)
  OBVIOUS
<1> HIDE DEF S
<1>2. u \in S
  BY <1>1 DEF In
<1> QED  BY <1>2 DEF S

(* What is in a sequence of two parts is in one of them.                   *)
LEMMA JoinedHas ==
    ASSUME NEW N, NEW p \in Seq(1..N), NEW q \in Seq(1..N), NEW u
    PROVE  In(u, p \o q) <=> In(u, p) \/ In(u, q)
<1> DEFINE S == 1..N
           a == Len(p)
           b == Len(q)
           r == p \o q
<1>1. p \in Seq(S) /\ q \in Seq(S)
  OBVIOUS
<1> HIDE DEF S
<1>2. /\ a \in Nat /\ b \in Nat /\ Len(r) = a + b
      /\ \A i \in 1..a : r[i] = p[i]
      /\ \A i \in 1..b : r[a + i] = q[i]
  BY <1>1
<1> HIDE DEF a, b, r
<1>3. ASSUME In(u, r) PROVE In(u, p) \/ In(u, q)
  <2>1. PICK i \in 1..Len(r) : r[i] = u
    BY <1>3 DEF In
  <2>2. CASE i \in 1..a
    BY <1>2, <2>1, <2>2 DEF In, a
  <2>3. CASE i \notin 1..a
    <3>1. i - a \in 1..b /\ a + (i - a) = i
      BY <1>2, <2>1, <2>3
    <3>2. q[i - a] = u
      BY <1>2, <2>1, <3>1
    <3> QED  BY <3>1, <3>2 DEF In, b
  <2> QED  BY <2>2, <2>3
<1>4. ASSUME In(u, p) PROVE In(u, r)
  <2>1. PICK i \in 1..a : p[i] = u
    BY <1>4 DEF In, a
  <2>2. i \in 1..Len(r) /\ r[i] = u
    BY <1>2, <2>1
  <2> QED  BY <2>2 DEF In
<1>5. ASSUME In(u, q) PROVE In(u, r)
  <2>1. PICK i \in 1..b : q[i] = u
    BY <1>5 DEF In, b
  <2>2. a + i \in 1..Len(r) /\ r[a + i] = u
    BY <1>2, <2>1
  <2> QED  BY <2>2 DEF In
<1> QED  BY <1>3, <1>4, <1>5 DEF r

(* No queue operation loses a thread or holds it twice.                    *)
THEOREM PlacementHolds == Spec => []Placement
<1>1. Inv => Placement
  <2> SUFFICES ASSUME Inv PROVE Placement
    OBVIOUS
  <2> DEFINE N == Len(thr)
             R == ReadyQ
             D == TerminatedQ
             E == IF sched.running = Nil THEN <<>> ELSE <<sched.running>>
             places == R \o D \o E
  <2>1. N \in Nat /\ Ids = 1..N /\ Queued(N, sched, thr, R, D)
    BY InvIs
  <2> HIDE DEF N, R, D
  <2>2. /\ R \in Seq(1..N) /\ D \in Seq(1..N) /\ sched.running \in 0..N
        /\ Len(R) \in Nat /\ Len(D) \in Nat
        /\ \A t \in 1..N : thr[t].state \in {"READY", "RUNNING", "TERMINATED"}
        /\ \A t \in 1..N : thr[t].state = "READY" <=> In(t, R)
        /\ \A t \in 1..N : thr[t].state = "RUNNING" <=> t = sched.running
        /\ \A t \in 1..N : thr[t].state = "TERMINATED" <=> In(t, D)
    BY <2>1, QueuedIs
  <2>3. /\ E \in Seq(1..N) /\ Len(E) = (IF sched.running = Nil THEN 0 ELSE 1)
        /\ \A u : In(u, E) <=> u = sched.running /\ u # Nil
    <3>1. CASE sched.running = Nil
      BY <3>1 DEF In
    <3>2. CASE sched.running # Nil
      <4>1. sched.running \in 1..N
        BY <2>2, <3>2 DEF Nil
      <4>2. E = <<sched.running>>
        BY <3>2
      <4> HIDE DEF E
      <4>3. E \in Seq(1..N) /\ Len(E) = 1 /\ E[1] = sched.running
        BY <4>1, <4>2
      <4> QED  BY <3>2, <4>3 DEF In
    <3> QED  BY <3>1, <3>2
  <2> HIDE DEF E
  <2>4. Len(places) = N
    <3>1. Len(places) = (Len(R) + Len(D)) + Len(E)
      <4> DEFINE S == 1..N
      <4>1. R \in Seq(S) /\ D \in Seq(S) /\ E \in Seq(S)
        BY <2>2, <2>3
      <4> HIDE DEF S
      <4>2. R \o D \in Seq(S) /\ Len(R \o D) = Len(R) + Len(D)
        BY <4>1
      <4> QED  BY <4>1, <4>2
    <3>2. (Len(R) + Len(D)) + (IF sched.running = Nil THEN 0 ELSE 1) = N
      <4> DEFINE s == sched
                 T == thr
      <4>1. Queued(N, s, T, R, D)
        BY <2>1
      <4> HIDE DEF s, T
      <4>2. (Len(R) + Len(D)) + (IF s.running = Nil THEN 0 ELSE 1) = N
        BY <4>1, CountIs
      <4> QED  BY <4>2 DEF s
    <3> QED  BY <2>3, <3>1, <3>2
  <2>5. \A q \in Seq(1..N) : \A u : u \in Range(q) <=> In(u, q)
    BY DEF In, Range
  <2>6. R \o D \in Seq(1..N) /\ places \in Seq(1..N)
    BY <2>2, <2>3
  <2>7. \A p, q \in Seq(1..N) : \A u : In(u, p \o q) <=> In(u, p) \/ In(u, q)
    BY JoinedHas
  <2>8. \A u : In(u, places) <=> (In(u, R) \/ In(u, D)) \/ In(u, E)
    BY <2>2, <2>3, <2>6, <2>7
  <2> HIDE DEF places
  <2>9. Range(places) = 1..N
    <3>1. \A u : u \in Range(places) <=> (In(u, R) \/ In(u, D)) \/ In(u, E)
      BY <2>5, <2>6, <2>8
    <3>2. \A q \in Seq(1..N) : \A u : In(u, q) => u \in 1..N
      BY InSeq
    <3>3. \A u \in 1..N : (In(u, R) \/ In(u, D)) \/ In(u, E)
      BY <2>2, <2>3 DEF Nil
    <3> QED  BY <2>2, <2>3, <3>1, <3>2, <3>3
  <2>10. ASSUME NEW t \in 1..N
         PROVE  CASE thr[t].state = "READY" -> t \in Range(R)
                  [] thr[t].state = "RUNNING" -> t = sched.running
                  [] OTHER -> t \in Range(D)
    BY <2>2, <2>5
  <2> QED  BY <2>1, <2>4, <2>9, <2>10 DEF Placement, places, E, R, D, N
<1> QED  BY <1>1, InvHolds, PTL

(* Under round robin no thread gets more than a quantum ahead of another.  *)
THEOREM RoundRobinIsBalanced == Spec => []RoundRobinBalanced
<1>1. Inv => RoundRobinBalanced
  <2> SUFFICES ASSUME Inv, sched.algorithm = "RR",
                      NEW t \in Ids, NEW u \in Ids, thr[t].remaining > 0, thr[u].remaining > 0
               PROVE  Done(t) - Done(u) <= Quantum
    BY DEF RoundRobinBalanced
  <2> DEFINE N == Len(thr)
  <2>1. /\ N \in Nat /\ Ids = 1..N /\ thr \in [1..N -> ThreadType(N)]
        /\ Sound(N, sched, thr, ReadyQ, TerminatedQ)
        /\ Queued(N, sched, thr, ReadyQ, TerminatedQ) /\ Timed(N, sched, thr)
    BY InvIs
  <2> HIDE DEF N
  <2>2. PICK b, base : Round(N, sched, thr, ReadyQ, b, base)
    BY <2>1 DEF Sound
  <2>3. sched.slice \in Nat /\ Quantum \in Nat \ {0}
    BY <2>1, QueuedIs, Parameters
  <2>4. ASSUME NEW v \in 1..N, thr[v].remaining > 0
        PROVE  Done(v) \in Nat /\ base <= Done(v) /\ Done(v) <= base + Quantum
    <3>1. thr[v].burst \in Nat /\ thr[v].remaining \in 0..thr[v].burst
      BY <2>1, WorkIs
    <3>2. base \in Nat
      BY <2>2 DEF Round
    <3>3. CASE v # sched.running
      <4>1. Done(v) = Least(thr[v].burst, Had(b, base, v))
        BY <2>2, <3>3 DEF Round, Done
      <4>2. Done(v) < thr[v].burst
        BY <2>4, <3>1 DEF Done
      <4>3. Had(b, base, v) = base \/ Had(b, base, v) = base + Quantum
        BY DEF Had
      <4> QED  BY <2>3, <3>1, <3>2, <4>1, <4>2, <4>3 DEF Least
    <3>4. CASE v = sched.running
      <4>1. Done(v) = base + sched.slice /\ sched.slice < Quantum
        BY <2>2, <3>4 DEF Round, Done, Nil
      <4> QED  BY <2>3, <3>2, <4>1
    <3> QED  BY <3>3, <3>4
  <2>5. base \in Nat
    BY <2>2 DEF Round
  <2>6. Done(t) \in Nat /\ Done(t) <= base + Quantum /\ Done(u) \in Nat /\ base <= Done(u)
    BY <2>1, <2>4
  <2> QED  BY <2>3, <2>5, <2>6
<1> QED  BY <1>1, InvHolds, PTL

(* What the threads in a queue add up to.                                  *)
OfTheEnded(N, T, D, f, a, c) ==
    /\ f \in [1..N -> Int]
    /\ a \in [1..Len(D) -> Int] /\ \A i \in 1..Len(D) : a[i] = f[D[i]]
    /\ c \in [1..N -> Int]
    /\ \A t \in 1..N : c[t] = IF T[t].state = "TERMINATED" THEN f[t] ELSE 0
LEMMA TotalOver ==
    ASSUME NEW N, NEW s, NEW T, NEW R, NEW D, Queued(N, s, T, R, D),
           NEW f, NEW a, NEW c, OfTheEnded(N, T, D, f, a, c)
    PROVE  Total(a) = Total(c)
<1> DEFINE m == Len(D)
<1>1. /\ N \in Nat /\ D \in Seq(1..N) /\ m \in Nat
      /\ \A u \in 1..N : T[u].state = "TERMINATED" <=> In(u, D)
  BY QueuedIs
<1>2. \A i, j \in 1..m : D[i] = D[j] => i = j
  BY PlacedIs
<1>3. D \in [1..m -> 1..N]
  BY <1>1, <1>2, QueueIs
<1>4. \A u \in 1..N : T[u].state = "TERMINATED" <=> Hit(D, m, u)
  BY <1>1 DEF In, Hit
<1>5. a \in [1..m -> Int] /\ \A i \in 1..m : a[i] = f[D[i]]
  BY DEF OfTheEnded
<1>6. /\ \A t \in 1..N : c[t] = IF Hit(D, m, t) THEN f[t] ELSE 0
      /\ f \in [1..N -> Int] /\ c \in [1..N -> Int]
  BY <1>4 DEF OfTheEnded
<1> HIDE DEF m
<1>7. AddsUp(N, m, D, f, a, c)
  BY <1>1, <1>2, <1>3, <1>5, <1>6 DEF AddsUp
<1> QED  BY <1>7, TotalAlong

(* The statistics count each thread that ended once, and only its own      *)
(* time.                                                                   *)
THEOREM StatisticsAreExact == Spec => []StatisticsExact
<1>1. Inv => StatisticsExact
  <2> SUFFICES ASSUME Inv, pc = "done"
               PROVE  /\ stats.count = Cardinality({t \in Ids : thr[t].remaining = 0})
                      /\ stats.turnaround = stats.waiting + stats.cpu
                      /\ stats.cpu <= sched.now
                      /\ sched.now <= TimeCap => stats.cpu = sched.now /\ stats.count = Len(thr)
    BY DEF StatisticsExact
  <2> DEFINE N == Len(thr)
             R == ReadyQ
             D == TerminatedQ
             m == Len(D)
             s == sched
             T == thr
             ended(t) == T[t].state = "TERMINATED"
  <2>1. /\ N \in Nat /\ Ids = 1..N /\ T \in [1..N -> ThreadType(N)]
        /\ Queued(N, s, T, R, D) /\ Timed(N, s, T)
    BY InvIs
  <2>2. Over(s) /\ stats = Totals(s, T)
    BY DEF Inv
  <2>3. /\ D \in Seq(1..N) /\ m \in Nat /\ DOMAIN D = 1..m /\ s.now \in Nat /\ TimeCap \in Nat
    <3>1. D \in Seq(1..N) /\ m \in Nat /\ s.now \in Nat
      BY <2>1, QueuedIs
    <3>2. DOMAIN D = 1..m
      BY <3>1
    <3> QED  BY <3>1, <3>2, Parameters
  <2>4. stats = [count |-> m,
                 turnaround |-> Total([i \in 1..m |-> T[D[i]].turnaround]),
                 waiting |-> Total([i \in 1..m |-> T[D[i]].waiting]),
                 response |-> Total([i \in 1..m |-> T[D[i]].response]),
                 cpu |-> Total([i \in 1..m |-> T[D[i]].burst])]
    BY <2>2, <2>3 DEF Totals, TerminatedQ
  <2> HIDE DEF N, R, D, s, T
  <2>5. /\ stats.count = m
        /\ stats.turnaround = Total([i \in 1..m |-> T[D[i]].turnaround])
        /\ stats.waiting = Total([i \in 1..m |-> T[D[i]].waiting])
        /\ stats.cpu = Total([i \in 1..m |-> T[D[i]].burst])
    BY <2>4
  <2>6. \A t \in 1..N : /\ T[t].burst \in Nat \ {0} /\ T[t].remaining \in 0..T[t].burst
                        /\ T[t].waiting \in Nat /\ T[t].turnaround \in Nat
                        /\ T[t].completion \in Nat \cup {-1}
    BY <2>1, WorkIs
  <2>7. \A t \in 1..N : ended(t) <=> T[t].remaining = 0
    BY <2>1 DEF Timed, TimesOf
  <2>8. \A t \in 1..N : ended(t) => /\ T[t].waiting = T[t].completion - T[t].burst
                                    /\ T[t].turnaround = T[t].completion
    BY <2>1 DEF Timed, TimesOf
  <2>9. \A i \in 1..m : D[i] \in 1..N /\ ended(D[i])
    BY <2>1, PlacedIs
  <2>10. stats.count = Cardinality({t \in Ids : thr[t].remaining = 0})
    <3>1. \A t \in 1..N : ended(t) <=> In(t, D)
      BY <2>1, QueuedIs
    <3>2. {t \in 1..N : T[t].remaining = 0} = {t \in 1..N : In(t, D)}
      BY <2>7, <3>1
    <3>3. \A i, j \in 1..Len(D) : D[i] = D[j] => i = j
      BY <2>1, PlacedIs
    <3>4. Cardinality({t \in 1..N : In(t, D)}) = m
      BY <2>1, <2>3, <3>3, QueueIs
    <3>5. Cardinality({t \in 1..N : T[t].remaining = 0}) = m
      BY <3>2, <3>4
    <3> QED  BY <2>1, <2>5, <3>5 DEF T
  <2>11. stats.turnaround = stats.waiting + stats.cpu
    <3> DEFINE a == [i \in 1..m |-> T[D[i]].turnaround]
               b == [i \in 1..m |-> T[D[i]].waiting]
               c == [i \in 1..m |-> T[D[i]].burst]
    <3>1. \A i \in 1..m : /\ T[D[i]].turnaround \in Int /\ T[D[i]].waiting \in Int
                          /\ T[D[i]].burst \in Int
                          /\ T[D[i]].turnaround = T[D[i]].waiting + T[D[i]].burst
      BY <2>6, <2>8, <2>9
    <3>2. /\ a \in [1..m -> Int] /\ b \in [1..m -> Int] /\ c \in [1..m -> Int]
          /\ \A i \in 1..m : a[i] = b[i] + c[i]
      BY <3>1
    <3>3. stats.turnaround = Total(a) /\ stats.waiting = Total(b) /\ stats.cpu = Total(c)
      BY <2>5
    <3> HIDE DEF a, b, c, m
    <3>4. Total(a) = Total(b) + Total(c)
      BY <2>3, <3>2, TotalAdd
    <3> QED  BY <3>3, <3>4
  <2> DEFINE f == [t \in 1..N |-> T[t].burst]
             h == [t \in 1..N |-> IF ended(t) THEN f[t] ELSE 0]
             w == Work(N, T)
  <2>12. f \in [1..N -> Int] /\ \A t \in 1..N : f[t] = T[t].burst
    BY <2>6
  <2>14. /\ h \in [1..N -> Int] /\ \A t \in 1..N : h[t] = IF ended(t) THEN T[t].burst ELSE 0
    BY <2>6
  <2>13. stats.cpu = Total(h)
    <3> DEFINE a == [i \in 1..m |-> T[D[i]].burst]
    <3>1. a \in [1..Len(D) -> Int] /\ \A i \in 1..Len(D) : a[i] = f[D[i]]
      BY <2>6, <2>9, <2>12
    <3>2. \A t \in 1..N : h[t] = IF ended(t) THEN f[t] ELSE 0
      BY <2>12, <2>14
    <3>3. stats.cpu = Total(a)
      BY <2>5
    <3> HIDE DEF f, a, h
    <3>4. OfTheEnded(N, T, D, f, a, h)
      BY <2>12, <2>14, <3>1, <3>2 DEF OfTheEnded
    <3>5. Total(a) = Total(h)
      BY <2>1, <3>4, TotalOver
    <3> QED  BY <3>3, <3>5
  <2>15. /\ w \in [1..N -> Int] /\ \A t \in 1..N : w[t] = T[t].burst - T[t].remaining
         /\ s.now = Total(w)
    BY <2>1, WorkIs DEF Timed
  <2> HIDE DEF f, h, w
  <2>16. stats.cpu <= s.now
    <3>1. \A t \in 1..N : h[t] <= w[t]
      BY <2>6, <2>7, <2>14, <2>15
    <3>2. Total(h) <= Total(w)
      BY <2>1, <2>14, <2>15, <3>1, TotalLeq
    <3> QED  BY <2>13, <2>15, <3>2
  <2>17. ASSUME s.now <= TimeCap PROVE stats.cpu = s.now /\ stats.count = N
    <3>1. s.ready = Nil /\ s.running = Nil
      BY <2>2, <2>3, <2>17 DEF Over
    <3>2. Len(R) = 0
      <4>1. /\ R \in Seq(1..N) /\ Len(R) \in Nat /\ Listed(N, T, s.ready, R)
        BY <2>1, QueuedIs
      <4>2. Len(R) # 0 => R[1] \in 1..N
        BY <2>1, <4>1, PlacedIs
      <4> QED  BY <3>1, <4>1, <4>2 DEF Listed, Nil
    <3>3. \A t \in 1..N : ended(t)
      <4>1. /\ \A t \in 1..N : T[t].state \in {"READY", "RUNNING", "TERMINATED"}
            /\ \A t \in 1..N : T[t].state = "READY" <=> In(t, R)
            /\ \A t \in 1..N : T[t].state = "RUNNING" <=> t = s.running
        BY <2>1, QueuedIs
      <4> QED  BY <3>1, <3>2, <4>1 DEF In, Nil
    <3>4. \A t \in 1..N : h[t] = w[t]
      BY <2>6, <2>7, <2>14, <2>15, <3>3
    <3>5. Total(h) = Total(w)
      BY <2>1, <2>14, <2>15, <3>4, TotalSame
    <3>6. (Len(R) + m) + (IF s.running = Nil THEN 0 ELSE 1) = N
      BY <2>1, CountIs
    <3>7. m = N
      BY <2>3, <3>1, <3>2, <3>6
    <3> QED  BY <2>5, <2>13, <2>15, <3>5, <3>7
  <2> QED  BY <2>10, <2>11, <2>16, <2>17 DEF s, N
<1> QED  BY <1>1, InvHolds, PTL

(* Every response time and every waiting time is the time of the threads   *)
(* that the algorithm puts before.                                         *)
THEOREM TimesAreExact == Spec => []TimesExact
<1>1. Inv => TimesExact
  <2> SUFFICES ASSUME Inv, NEW t \in Ids
               PROVE  /\ thr[t].start # -1 =>
                            thr[t].response = SumOver(Ahead(t), [u \in Ids |-> Share(u)])
                      /\ thr[t].state = "TERMINATED" =>
                            /\ thr[t].waiting = thr[t].completion - thr[t].burst
                            /\ sched.algorithm # "RR" =>
                                  thr[t].waiting = SumOver(Ahead(t), [u \in Ids |-> Share(u)])
                            /\ sched.algorithm = "RR" =>
                                  thr[t].waiting =
                                      SumOver(Ids \ {t}, [u \in Ids |-> RunsBefore(t, u)])
    BY DEF TimesExact
  <2> DEFINE N == Len(thr)
             alg == sched.algorithm
             x == thr[t]
  <2>1. /\ N \in Nat /\ Ids = 1..N /\ thr \in [1..N -> ThreadType(N)]
        /\ Sound(N, sched, thr, ReadyQ, TerminatedQ) /\ Timed(N, sched, thr)
    BY InvIs
  <2> HIDE DEF N
  <2>2. /\ \A u \in 1..N : thr[u].burst \in Nat \ {0}
        /\ x.burst \in Nat /\ x.start \in Nat \cup {-1} /\ Quantum \in Nat
        /\ x.completion \in Nat \cup {-1}
    BY <2>1, WorkIs, Parameters
  <2>3. TimesOf(x, sched.now)
    BY <2>1 DEF Timed
  <2>4. SumOver(Ahead(t), [u \in Ids |-> Share(u)])
            = Total([u \in 1..N |-> IF u \in Ahead(t) THEN Share(u) ELSE 0])
    <3>1. [u \in Ids |-> IF u \in Ahead(t) THEN [v \in Ids |-> Share(v)][u] ELSE 0]
              = [u \in 1..N |-> IF u \in Ahead(t) THEN Share(u) ELSE 0]
      BY <2>1
    <3> QED  BY <3>1 DEF SumOver
  <2>5. ASSUME alg # "RR"
        PROVE  SumOver(Ahead(t), [u \in Ids |-> Share(u)]) = TimeBefore(N, alg, thr, t)
    <3>1. ASSUME NEW u \in 1..N
          PROVE  /\ u \in Ahead(t) <=> Before(alg, thr, u, t)
                 /\ Share(u) = thr[u].burst
      BY <2>1, <2>5 DEF Ahead, Before, Share
    <3>2. [u \in 1..N |-> IF u \in Ahead(t) THEN Share(u) ELSE 0]
              = [u \in 1..N |-> IF Before(alg, thr, u, t) THEN thr[u].burst ELSE 0]
      BY <3>1
    <3> QED  BY <2>4, <3>2 DEF TimeBefore
  <2>6. ASSUME alg = "RR"
        PROVE  SumOver(Ahead(t), [u \in Ids |-> Share(u)]) = FirstRound(N, thr, t)
    <3>1. ASSUME NEW u \in 1..N
          PROVE  /\ u \in Ahead(t) <=> u < t
                 /\ Share(u) = Least(Quantum, thr[u].burst)
      <4>1. u \in Ahead(t) <=> u < t
        BY <2>1, <2>6 DEF Ahead
      <4>2. Share(u) = Min({Quantum, thr[u].burst})
        BY <2>6 DEF Share
      <4>3. Quantum \in Int /\ thr[u].burst \in Int
        BY <2>2
      <4> QED  BY <4>1, <4>2, <4>3, MinIs
    <3>2. [u \in 1..N |-> IF u \in Ahead(t) THEN Share(u) ELSE 0]
              = [u \in 1..N |-> IF u < t THEN Least(Quantum, thr[u].burst) ELSE 0]
      BY <3>1
    <3> QED  BY <2>4, <3>2 DEF FirstRound
  <2>7. SumOver(Ids \ {t}, [u \in Ids |-> RunsBefore(t, u)]) = OthersRan(N, thr, t)
    <3>1. \A u \in 1..N : RunsBefore(t, u) = RanBefore(thr[t], thr[u], u < t)
      BY DEF RunsBefore, RanBefore, RoundsOf, Rounds
    <3>2. [u \in Ids |-> IF u \in Ids \ {t} THEN [v \in Ids |-> RunsBefore(t, v)][u] ELSE 0]
              = [u \in 1..N |-> IF u # t THEN RanBefore(thr[t], thr[u], u < t) ELSE 0]
      BY <2>1, <3>1
    <3> QED  BY <3>2 DEF SumOver, OthersRan
  <2>8. ASSUME x.start # -1
        PROVE  x.response = SumOver(Ahead(t), [u \in Ids |-> Share(u)])
    <3>1. x.response = x.start
      BY <2>3, <2>8 DEF TimesOf
    <3>2. CASE alg # "RR"
      <4>1. x.start = TimeBefore(N, alg, thr, t)
        BY <2>1, <2>8, <3>2 DEF Sound, InTurn
      <4> QED  BY <2>5, <3>1, <3>2, <4>1
    <3>3. CASE alg = "RR"
      <4>1. x.start = FirstRound(N, thr, t)
        BY <2>1, <2>8, <3>3 DEF Sound, Fair
      <4> QED  BY <2>6, <3>1, <3>3, <4>1
    <3> QED  BY <3>2, <3>3
  <2>9. ASSUME x.state = "TERMINATED"
        PROVE  /\ x.waiting = x.completion - x.burst
               /\ alg # "RR" => x.waiting = SumOver(Ahead(t), [u \in Ids |-> Share(u)])
               /\ alg = "RR" =>
                     x.waiting = SumOver(Ids \ {t}, [u \in Ids |-> RunsBefore(t, u)])
    <3>1. x.waiting = x.completion - x.burst /\ x.start # -1
      BY <2>3, <2>9 DEF TimesOf
    <3>2. ASSUME alg # "RR"
          PROVE  x.waiting = SumOver(Ahead(t), [u \in Ids |-> Share(u)])
      <4>1. x.start = TimeBefore(N, alg, thr, t) /\ x.completion = x.start + x.burst
        BY <2>1, <2>9, <3>1, <3>2 DEF Sound, InTurn
      <4>2. x.waiting = x.start
        <5> DEFINE a == x.start
                   b == x.burst
        <5>1. a \in Int /\ b \in Int /\ x.waiting = (a + b) - b
          BY <2>2, <3>1, <4>1
        <5> HIDE DEF a, b
        <5> QED  BY <5>1 DEF a
      <4> QED  BY <2>5, <3>2, <4>1, <4>2
    <3>3. ASSUME alg = "RR"
          PROVE  x.waiting = SumOver(Ids \ {t}, [u \in Ids |-> RunsBefore(t, u)])
      <4>1. x.waiting = OthersRan(N, thr, t)
        BY <2>1, <2>9, <3>3 DEF Sound, Fair
      <4> QED  BY <2>7, <4>1
    <3> QED  BY <3>1, <3>2, <3>3
  <2> QED  BY <2>8, <2>9
<1> QED  BY <1>1, InvHolds, PTL

-----------------------------------------------------------------------------
(* Shortest job first: sums over pairs of threads.                         *)
Square(N) == [1..N -> [1..N -> Int]]
Grand(N, w) == Total([i \in 1..N |-> Total(w[i])])

(* The sums of the rows of a square are numbers, and so is their sum.      *)
LEMMA RowsAre ==
    ASSUME NEW N, N \in Nat, NEW w, w \in Square(N)
    PROVE  /\ \A i \in 1..N : w[i] \in [1..N -> Int] /\ Total(w[i]) \in Int
           /\ [i \in 1..N |-> Total(w[i])] \in [1..N -> Int]
           /\ Grand(N, w) \in Int
<1>1. \A i \in 1..N : w[i] \in [1..N -> Int]
  BY DEF Square
<1>2. ASSUME NEW i \in 1..N PROVE Total(w[i]) \in Int
  <2> DEFINE g == w[i]
  <2>1. g \in [1..N -> Int]
    BY <1>1
  <2> HIDE DEF g
  <2>2. Total(g) \in Int
    BY <2>1, TotalSame
  <2> QED  BY <2>2 DEF g
<1> DEFINE rows == [i \in 1..N |-> Total(w[i])]
<1>3. rows \in [1..N -> Int]
  BY <1>2
<1> HIDE DEF rows
<1>4. Total(rows) \in Int
  BY <1>3, TotalSame
<1> QED  BY <1>1, <1>2, <1>3, <1>4 DEF rows, Grand

Added(N, p, q, z) == \A i, j \in 1..N : z[i][j] = p[i][j] + q[i][j]
AtMost(N, p, q) == \A i, j \in 1..N : p[i][j] <= q[i][j]
Swapped(N, p, q) == \A i, j \in 1..N : q[i][j] = p[j][i]

(* The sum of a square adds up place by place.                             *)
LEMMA GrandAdd ==
    ASSUME NEW N, N \in Nat, NEW p, p \in Square(N), NEW q, q \in Square(N),
           NEW z, z \in Square(N), Added(N, p, q, z)
    PROVE  Grand(N, z) = Grand(N, p) + Grand(N, q)
<1> DEFINE a == [i \in 1..N |-> Total(p[i])]
           b == [i \in 1..N |-> Total(q[i])]
           c == [i \in 1..N |-> Total(z[i])]
<1>1. a \in [1..N -> Int] /\ b \in [1..N -> Int] /\ c \in [1..N -> Int]
  BY RowsAre
<1>2. ASSUME NEW i \in 1..N PROVE c[i] = a[i] + b[i]
  <2> DEFINE x == p[i]
             y == q[i]
             s == z[i]
  <2>1. x \in [1..N -> Int] /\ y \in [1..N -> Int] /\ s \in [1..N -> Int]
    BY RowsAre
  <2>2. \A j \in 1..N : s[j] = x[j] + y[j]
    BY DEF Added
  <2> HIDE DEF x, y, s
  <2>3. Total(s) = Total(x) + Total(y)
    BY <2>1, <2>2, TotalAdd
  <2> QED  BY <2>3 DEF x, y, s
<1> HIDE DEF a, b, c
<1>3. Total(c) = Total(a) + Total(b)
  BY <1>1, <1>2, TotalAdd
<1> QED  BY <1>3 DEF Grand, a, b, c

(* A square that is nowhere larger has no larger sum.                      *)
LEMMA GrandLeq ==
    ASSUME NEW N, N \in Nat, NEW p, p \in Square(N), NEW q, q \in Square(N), AtMost(N, p, q)
    PROVE  Grand(N, p) <= Grand(N, q)
<1> DEFINE a == [i \in 1..N |-> Total(p[i])]
           b == [i \in 1..N |-> Total(q[i])]
<1>1. a \in [1..N -> Int] /\ b \in [1..N -> Int]
  BY RowsAre
<1>2. ASSUME NEW i \in 1..N PROVE a[i] <= b[i]
  <2> DEFINE x == p[i]
             y == q[i]
  <2>1. x \in [1..N -> Int] /\ y \in [1..N -> Int]
    BY RowsAre
  <2>2. \A j \in 1..N : x[j] <= y[j]
    BY DEF AtMost
  <2> HIDE DEF x, y
  <2>3. Total(x) <= Total(y)
    BY <2>1, <2>2, TotalLeq
  <2> QED  BY <2>3 DEF x, y
<1> HIDE DEF a, b
<1>3. Total(a) <= Total(b)
  BY <1>1, <1>2, TotalLeq
<1> QED  BY <1>3 DEF Grand, a, b

(* The rows and the columns of a square add up to the same.                *)
LEMMA GrandSwap ==
    ASSUME NEW N, N \in Nat, NEW p, p \in Square(N), NEW q, q \in Square(N), Swapped(N, p, q)
    PROVE  Grand(N, q) = Grand(N, p)
<1> DEFINE a == [i \in 1..N |-> Total(p[i])]
           Col(n, i) == [j \in 1..N |-> IF j <= n THEN q[i][j] ELSE 0]
           h(n) == [i \in 1..N |-> Total(Col(n, i))]
<1>1. /\ a \in [1..N -> Int]
      /\ \A i \in 1..N : p[i] \in [1..N -> Int] /\ q[i] \in [1..N -> Int]
      /\ \A i \in 1..N : a[i] = Total(p[i])
  BY RowsAre
<1>2. \A n \in Nat, i \in 1..N :
          /\ Col(n, i) \in [1..N -> Int]
          /\ \A j \in 1..N : Col(n, i)[j] = IF j <= n THEN q[i][j] ELSE 0
  BY <1>1
<1>3. \A i \in 1..N : Col(0, i) \in [1..N -> Nat] /\ \A j \in 1..N : Col(0, i)[j] = 0
  OBVIOUS
<1>4. \A i \in 1..N : Col(N, i) = q[i]
  <2> SUFFICES ASSUME NEW i \in 1..N PROVE Col(N, i) = q[i]
    OBVIOUS
  <2>1. \A j \in 1..N : j <= N /\ q[i][j] = IF j <= N THEN q[i][j] ELSE 0
    OBVIOUS
  <2>2. q[i] = [j \in 1..N |-> q[i][j]]
    BY <1>1
  <2> QED  BY <2>1, <2>2
<1> HIDE DEF Col
<1>5. \A n \in Nat : /\ h(n) \in [1..N -> Int] /\ \A i \in 1..N : h(n)[i] = Total(Col(n, i))
  <2>1. ASSUME NEW n \in Nat, NEW i \in 1..N PROVE Total(Col(n, i)) \in Int
    <3> DEFINE g == Col(n, i)
    <3>1. g \in [1..N -> Int]
      BY <1>2
    <3> HIDE DEF g
    <3>2. Total(g) \in Int
      BY <3>1, TotalSame
    <3> QED  BY <3>2 DEF g
  <2> QED  BY <2>1
<1>6. h(0) \in [1..N -> Nat] /\ \A i \in 1..N : h(0)[i] = 0
  <2>1. ASSUME NEW i \in 1..N PROVE Total(Col(0, i)) = 0
    <3> DEFINE g == Col(0, i)
    <3>1. g \in [1..N -> Nat] /\ \A j \in 1..N : g[j] = 0
      BY <1>3
    <3> HIDE DEF g
    <3>2. Total(g) = 0
      BY <3>1, TotalNat
    <3> QED  BY <3>2 DEF g
  <2> QED  BY <2>1
<1>7. h(N) = [i \in 1..N |-> Total(q[i])]
  BY <1>4
<1> HIDE DEF a, h
<1>8. PICK s : Sums(N, a, s) /\ Total(a) = s[N]
  BY <1>1, TotalIs
<1> DEFINE S == {n \in 0..N : s[n] = Total(h(n))}
<1>9. 0 \in S
  <2> DEFINE g == h(0)
  <2>1. g \in [1..N -> Nat] /\ \A i \in 1..N : g[i] = 0
    BY <1>6
  <2> HIDE DEF g
  <2>2. Total(g) = 0
    BY <2>1, TotalNat
  <2> QED  BY <1>8, <2>2 DEF Sums, g
<1>10. ASSUME NEW n \in 0..N-1, n \in S PROVE n + 1 \in S
  <2>1. n + 1 \in 1..N /\ n + 1 \in 0..N /\ n \in Nat /\ n + 1 \in Nat /\ s[n] = Total(h(n))
    BY <1>10
  <2>2. s[n+1] = s[n] + Total(p[n+1])
    BY <1>1, <1>8, <2>1 DEF Sums
  <2>3. ASSUME NEW i \in 1..N PROVE h(n+1)[i] = h(n)[i] + p[n+1][i]
    <3> DEFINE x == Col(n, i)
               y == Col(n + 1, i)
               k == n + 1
    <3>1. /\ x \in [1..N -> Int] /\ y \in [1..N -> Int] /\ k \in 1..N
          /\ x[k] = 0 /\ y[k] = q[i][k]
      BY <1>2, <2>1
    <3>2. ASSUME NEW j \in 1..N, j # k PROVE y[j] = x[j]
      <4>1. j <= n <=> j <= n + 1
        BY <3>2
      <4> QED  BY <1>2, <2>1, <4>1
    <3>3. h(n)[i] = Total(x) /\ h(n+1)[i] = Total(y)
      BY <1>5, <2>1
    <3>4. q[i][k] = p[k][i] /\ p[k][i] \in Int
      BY <1>1, <2>1 DEF Swapped
    <3> HIDE DEF x, y, k
    <3>5. Total(x) \in Int /\ Total(y) = Total(x) + (y[k] - x[k])
      BY <3>1, <3>2, TotalMore
    <3>6. Total(y) = Total(x) + p[k][i]
      BY <3>1, <3>4, <3>5
    <3> QED  BY <3>3, <3>6 DEF k
  <2> DEFINE f == h(n)
             g == p[n+1]
             u == h(n+1)
  <2>4. f \in [1..N -> Int] /\ g \in [1..N -> Int] /\ u \in [1..N -> Int]
    BY <1>1, <1>5, <2>1
  <2>5. \A i \in 1..N : u[i] = f[i] + g[i]
    BY <2>3
  <2> HIDE DEF f, g, u
  <2>6. Total(u) = Total(f) + Total(g)
    BY <2>4, <2>5, TotalAdd
  <2> QED  BY <2>1, <2>2, <2>6 DEF f, g, u
<1> HIDE DEF S
<1>11. 0..N \subseteq S
  BY <1>9, <1>10, UpTo
<1>12. s[N] = Total(h(N))
  BY <1>11 DEF S
<1> QED  BY <1>7, <1>8, <1>12 DEF Grand, a

(* A number at each place after the i-th.                                  *)
FromThen(N, i, c, g) ==
    /\ N \in Nat /\ i \in 1..N /\ c \in Nat
    /\ g \in [1..N -> Int] /\ \A j \in 1..N : g[j] = IF i < j THEN c ELSE 0
LEMMA TotalTail ==
    ASSUME NEW N, NEW i, NEW c, NEW g, FromThen(N, i, c, g)
    PROVE  Total(g) = (N - i) * c
<1> SUFFICES ASSUME N \in Nat, i \in 1..N, c \in Nat, g \in [1..N -> Int],
                    \A j \in 1..N : g[j] = IF i < j THEN c ELSE 0
             PROVE  Total(g) = (N - i) * c
  BY DEF FromThen
<1>1. PICK s : Sums(N, g, s) /\ Total(g) = s[N]
  BY TotalIs
<1> DEFINE S == {n \in 0..N : s[n] = IF n <= i THEN 0 ELSE (n - i) * c}
<1>2. 0 \in S
  BY <1>1 DEF Sums
<1>3. ASSUME NEW n \in 0..N-1, n \in S PROVE n + 1 \in S
  <2>1. n + 1 \in 1..N /\ s[n+1] = s[n] + g[n+1] /\ s[n] = IF n <= i THEN 0 ELSE (n - i) * c
    BY <1>1, <1>3 DEF Sums
  <2>2. CASE n < i
    BY <2>1, <2>2
  <2>3. CASE n = i
    <3>1. s[n+1] = c /\ (n + 1) - i = 1 /\ 1 * c = c /\ ~(n + 1 <= i)
      BY <2>1, <2>3
    <3> QED  BY <2>1, <3>1
  <2>4. CASE n > i
    <3>1. n - i \in Nat /\ (n + 1) - i = (n - i) + 1 /\ ~(n + 1 <= i) /\ ~(n <= i) /\ i < n + 1
      BY <2>4
    <3>2. ((n - i) + 1) * c = (n - i) * c + c
      BY <3>1, MulAdd
    <3> QED  BY <2>1, <3>1, <3>2
  <2> QED  BY <2>2, <2>3, <2>4
<1> HIDE DEF S
<1>4. 0..N \subseteq S
  BY <1>2, <1>3, UpTo
<1>5. s[N] = IF N <= i THEN 0 ELSE (N - i) * c
  BY <1>4 DEF S
<1>6. N <= i => (N - i) * c = 0
  OBVIOUS
<1> QED  BY <1>1, <1>5, <1>6

(* The order in which numbers are added does not matter.                   *)
Order(N, order) ==
    /\ N \in Nat /\ order \in [1..N -> 1..N]
    /\ \A i, j \in 1..N : order[i] = order[j] => i = j
Reordered(N, order, f, a) ==
    /\ f \in [1..N -> Int] /\ a \in [1..N -> Int]
    /\ \A i \in 1..N : a[i] = f[order[i]]
LEMMA TotalReordered ==
    ASSUME NEW N, NEW order, Order(N, order), NEW f, NEW a, Reordered(N, order, f, a)
    PROVE  Total(a) = Total(f)
<1> SUFFICES ASSUME N \in Nat, order \in [1..N -> 1..N],
                    \A i, j \in 1..N : order[i] = order[j] => i = j,
                    f \in [1..N -> Int], a \in [1..N -> Int],
                    \A i \in 1..N : a[i] = f[order[i]]
             PROVE  Total(a) = Total(f)
  BY DEF Order, Reordered
<1> DEFINE X == {t \in 1..N : In(t, order)}
<1>1. Len(order) = N /\ order \in Seq(1..N)
  OBVIOUS
<1>2. IsFiniteSet(X) /\ Cardinality(X) = N
  BY <1>1, QueueIs
<1>3. IsFiniteSet(1..N) /\ Cardinality(1..N) = N
  <2>1. 1 \in Int /\ N \in Int
    OBVIOUS
  <2>2. IsFiniteSet(1..N) /\ Cardinality(1..N) = IF 1 > N THEN 0 ELSE N-1+1
    BY <2>1, FS_Interval
  <2> QED  BY <2>2
<1>4. X = 1..N
  <2> DEFINE W == 1..N
  <2>1. X \in SUBSET W /\ IsFiniteSet(W) /\ Cardinality(W) = Cardinality(X)
    BY <1>2, <1>3
  <2> HIDE DEF X, W
  <2>2. W = X
    BY <2>1, FS_Subset
  <2> QED  BY <2>2 DEF W
<1>5. \A t \in 1..N : Hit(order, N, t)
  <2>1. \A t \in 1..N : In(t, order)
    BY <1>4
  <2> QED  BY <1>1, <2>1 DEF In, Hit
<1>6. AddsUp(N, N, order, f, a, f)
  BY <1>5 DEF AddsUp
<1> QED  BY <1>6, TotalAlong

(* Of two threads, the one that waits under shortest job first waits for   *)
(* no more than one of them waits in any order.                            *)
LEMMA PairIs ==
    ASSUME NEW bu \in Nat, NEW bv \in Nat, NEW u \in Nat, NEW v \in Nat,
           NEW i \in Nat, NEW j \in Nat, u = v <=> i = j, u = v => bu = bv
    PROVE  (IF bv < bu \/ (bv = bu /\ v < u) THEN bv ELSE 0)
                 + (IF bu < bv \/ (bu = bv /\ u < v) THEN bu ELSE 0)
           <= (IF i < j THEN bu ELSE 0) + (IF j < i THEN bv ELSE 0)
OBVIOUS

(* Of each two threads, shortest job first makes the longer wait for the   *)
(* shorter; any other order makes one of the two wait for the other.       *)
Waits(N, T, order, w, v) ==
    /\ Order(N, order) /\ T \in [1..N -> ThreadType(N)]
    /\ w \in [1..N -> Int] /\ \A t \in 1..N : w[t] = TimeBefore(N, "SJF", T, t)
    /\ v = [i \in 1..N |-> (N - i) * T[order[i]].burst]
LEMMA ShortestIsLeast ==
    ASSUME NEW N, NEW T, NEW order, NEW w, NEW v, Waits(N, T, order, w, v)
    PROVE  Total(w) <= Total(v)
<1> DEFINE Bef(u, t) == Before("SJF", T, u, t)
           b(u) == T[u].burst
           p == [i \in 1..N |-> [j \in 1..N |->
                    IF Bef(order[j], order[i]) THEN b(order[j]) ELSE 0]]
           p2 == [i \in 1..N |-> [j \in 1..N |->
                    IF Bef(order[i], order[j]) THEN b(order[i]) ELSE 0]]
           r == [i \in 1..N |-> [j \in 1..N |-> IF i < j THEN b(order[i]) ELSE 0]]
           r2 == [i \in 1..N |-> [j \in 1..N |-> IF j < i THEN b(order[j]) ELSE 0]]
           x == [i \in 1..N |-> [j \in 1..N |-> p[i][j] + p2[i][j]]]
           y == [i \in 1..N |-> [j \in 1..N |-> r[i][j] + r2[i][j]]]
<1>a. Order(N, order) /\ v = [i \in 1..N |-> (N - i) * T[order[i]].burst]
  BY DEF Waits
<1> SUFFICES ASSUME N \in Nat, T \in [1..N -> ThreadType(N)], order \in [1..N -> 1..N],
                    \A i, j \in 1..N : order[i] = order[j] => i = j, w \in [1..N -> Int],
                    \A t \in 1..N : w[t] = TimeBefore(N, "SJF", T, t)
             PROVE  Total(w) <= Total(v)
  BY DEF Waits, Order
<1>1. \A u \in 1..N : b(u) \in Nat
  <2>1. \A u \in 1..N : T[u] \in ThreadType(N)
    OBVIOUS
  <2> QED  BY <2>1 DEF ThreadType
<1>2. \A u, t \in 1..N : Bef(u, t) <=> b(u) < b(t) \/ (b(u) = b(t) /\ u < t)
  BY DEF Before
<1> HIDE DEF b, Bef
<1>3. \A i \in 1..N : order[i] \in 1..N /\ b(order[i]) \in Nat
  BY <1>1
<1>4. /\ \A i, j \in 1..N : p[i][j] = IF Bef(order[j], order[i]) THEN b(order[j]) ELSE 0
      /\ \A i, j \in 1..N : r[i][j] = IF i < j THEN b(order[i]) ELSE 0
      /\ \A i, j \in 1..N : p[i][j] \in Int /\ r[i][j] \in Int
  BY <1>3
<1>b. /\ \A i, j \in 1..N : p2[i][j] = p[j][i]
      /\ \A i, j \in 1..N : r2[i][j] = r[j][i]
  OBVIOUS
<1>c. /\ \A i, j \in 1..N : x[i][j] = p[i][j] + p2[i][j]
      /\ \A i, j \in 1..N : y[i][j] = r[i][j] + r2[i][j]
  <2> HIDE DEF p, p2, r, r2
  <2> QED  OBVIOUS
<1>5. /\ p \in Square(N) /\ p2 \in Square(N) /\ r \in Square(N) /\ r2 \in Square(N)
  BY <1>3 DEF Square
<1>6. x \in Square(N) /\ y \in Square(N)
  <2> HIDE DEF p, p2, r, r2
  <2>1. ASSUME NEW i \in 1..N, NEW j \in 1..N
        PROVE  p[i][j] + p2[i][j] \in Int /\ r[i][j] + r2[i][j] \in Int
    <3>1. p[i][j] \in Int /\ p[j][i] \in Int /\ r[i][j] \in Int /\ r[j][i] \in Int
      BY <1>4
    <3>2. p2[i][j] = p[j][i] /\ r2[i][j] = r[j][i]
      BY <1>b
    <3> QED  BY <3>1, <3>2
  <2> QED  BY <2>1 DEF Square
<1>7. \A i \in 1..N : p[i] \in [1..N -> Int] /\ r[i] \in [1..N -> Int]
  BY <1>3
<1> HIDE DEF p, p2, r, r2, x, y
<1>8. Swapped(N, p, p2) /\ Swapped(N, r, r2) /\ Added(N, p, p2, x) /\ Added(N, r, r2, y)
  BY <1>b, <1>c DEF Swapped, Added
<1>9. AtMost(N, x, y)
  <2> SUFFICES ASSUME NEW i \in 1..N, NEW j \in 1..N PROVE x[i][j] <= y[i][j]
    BY DEF AtMost
  <2> DEFINE u == order[i]
             z == order[j]
  <2>1. u \in 1..N /\ z \in 1..N /\ b(u) \in Nat /\ b(z) \in Nat /\ (u = z <=> i = j)
    BY <1>3
  <2>2. x[i][j] = p[i][j] + p[j][i]
    BY <1>b, <1>c
  <2>3. y[i][j] = r[i][j] + r[j][i]
    BY <1>b, <1>c
  <2>4. p[i][j] = IF Bef(z, u) THEN b(z) ELSE 0
    BY <1>4
  <2>5. p[j][i] = IF Bef(u, z) THEN b(u) ELSE 0
    BY <1>4
  <2>6. r[i][j] = (IF i < j THEN b(u) ELSE 0) /\ r[j][i] = (IF j < i THEN b(z) ELSE 0)
    BY <1>4
  <2>7. Bef(u, z) <=> b(u) < b(z) \/ (b(u) = b(z) /\ u < z)
    BY <1>2, <2>1
  <2>8. Bef(z, u) <=> b(z) < b(u) \/ (b(z) = b(u) /\ z < u)
    BY <1>2, <2>1
  <2> DEFINE bu == b(u)
             bv == b(z)
  <2>9. /\ bu \in Nat /\ bv \in Nat /\ u \in Nat /\ z \in Nat /\ i \in Nat /\ j \in Nat
        /\ u = z => bu = bv
    <3>1. i \in Nat /\ j \in Nat
      OBVIOUS
    <3>2. u = z => bu = bv
      OBVIOUS
    <3> HIDE DEF u, z
    <3>3. u \in Nat /\ z \in Nat
      BY <2>1
    <3> QED  BY <2>1, <3>1, <3>2, <3>3
  <2>10. x[i][j] = (IF bv < bu \/ (bv = bu /\ z < u) THEN bv ELSE 0)
                   + (IF bu < bv \/ (bu = bv /\ u < z) THEN bu ELSE 0)
    BY <2>2, <2>4, <2>5, <2>7, <2>8
  <2>11. y[i][j] = (IF i < j THEN bu ELSE 0) + (IF j < i THEN bv ELSE 0)
    BY <2>3, <2>6
  <2> HIDE DEF u, z, bu, bv
  <2>12. u = z <=> i = j
    BY <2>1
  <2>13. (IF bv < bu \/ (bv = bu /\ z < u) THEN bv ELSE 0)
               + (IF bu < bv \/ (bu = bv /\ u < z) THEN bu ELSE 0)
         <= (IF i < j THEN bu ELSE 0) + (IF j < i THEN bv ELSE 0)
    BY ONLY <2>9, <2>12, PairIs
  <2> QED  BY <2>10, <2>11, <2>13
<1>10. Grand(N, p) <= Grand(N, r)
  <2>1. Grand(N, p2) = Grand(N, p) /\ Grand(N, r2) = Grand(N, r)
    BY <1>5, <1>8, GrandSwap
  <2>2. Grand(N, x) = Grand(N, p) + Grand(N, p2)
    BY <1>5, <1>6, <1>8, GrandAdd
  <2>3. Grand(N, y) = Grand(N, r) + Grand(N, r2)
    BY <1>5, <1>6, <1>8, GrandAdd
  <2>4. Grand(N, x) <= Grand(N, y)
    BY <1>6, <1>9, GrandLeq
  <2>5. Grand(N, p) \in Int /\ Grand(N, r) \in Int
    BY <1>5, RowsAre
  <2> QED  BY <2>1, <2>2, <2>3, <2>4, <2>5
<1>11. Grand(N, p) = Total(w)
  <2> DEFINE a == [i \in 1..N |-> Total(p[i])]
  <2>1. ASSUME NEW i \in 1..N PROVE a[i] = w[order[i]]
    <3> DEFINE f == [u \in 1..N |-> IF Bef(u, order[i]) THEN b(u) ELSE 0]
               g == p[i]
    <3>1. f \in [1..N -> Int] /\ g \in [1..N -> Int]
      <4>1. \A u \in 1..N : (IF Bef(u, order[i]) THEN b(u) ELSE 0) \in Int
        BY <1>1
      <4>2. f \in [1..N -> Int]
        BY <4>1
      <4> QED  BY <1>7, <4>2
    <3>2. \A j \in 1..N : g[j] = f[order[j]]
      BY <1>3, <1>4
    <3>3. TimeBefore(N, "SJF", T, order[i]) = Total(f)
      BY DEF TimeBefore, Bef, b
    <3>4. order[i] \in 1..N
      BY <1>3
    <3> HIDE DEF f, g
    <3>5. Reordered(N, order, f, g)
      BY <3>1, <3>2 DEF Reordered
    <3>6. Total(g) = Total(f)
      BY <1>a, <3>5, TotalReordered
    <3> QED  BY <3>3, <3>4, <3>6 DEF g
  <2>2. a \in [1..N -> Int]
    BY <1>5, RowsAre
  <2> HIDE DEF a
  <2>3. Reordered(N, order, w, a)
    BY <2>1, <2>2 DEF Reordered
  <2>4. Total(a) = Total(w)
    BY <1>a, <2>3, TotalReordered
  <2> QED  BY <2>4 DEF Grand, a
<1>12. Grand(N, r) = Total([i \in 1..N |-> (N - i) * b(order[i])])
  <2>1. ASSUME NEW i \in 1..N PROVE Total(r[i]) = (N - i) * b(order[i])
    <3> DEFINE g == r[i]
               c == b(order[i])
    <3>1. /\ c \in Nat /\ g \in [1..N -> Int]
          /\ \A j \in 1..N : g[j] = IF i < j THEN c ELSE 0
      BY <1>3, <1>4, <1>7
    <3> HIDE DEF g, c
    <3>2. FromThen(N, i, c, g)
      BY <3>1 DEF FromThen
    <3>3. Total(g) = (N - i) * c
      BY <3>2, TotalTail
    <3> QED  BY <3>3 DEF g, c
  <2>2. [i \in 1..N |-> Total(r[i])] = [i \in 1..N |-> (N - i) * b(order[i])]
    BY <2>1
  <2> QED  BY <2>2 DEF Grand
<1> QED  BY <1>a, <1>10, <1>11, <1>12 DEF b

(* No order of the same threads, run one after the other, has a smaller    *)
(* total waiting time than the simulation of shortest job first reports.   *)
THEOREM ShortestFirstIsOptimal == Spec => []ShortestFirstOptimal
<1>1. Inv => ShortestFirstOptimal
  <2> SUFFICES ASSUME Inv, Ended, sched.algorithm = "SJF",
                      NEW order \in [Ids -> Ids], IsInjective(order)
               PROVE  stats.waiting <= Total([i \in Ids |-> (Len(thr) - i) * thr[order[i]].burst])
    BY DEF ShortestFirstOptimal
  <2> DEFINE N == Len(thr)
             R == ReadyQ
             D == TerminatedQ
             m == Len(D)
             s == sched
             T == thr
             f == [t \in 1..N |-> T[t].waiting]
             a == [i \in 1..m |-> T[D[i]].waiting]
  <2>1. /\ N \in Nat /\ Ids = 1..N /\ T \in [1..N -> ThreadType(N)]
        /\ Sound(N, s, T, R, D) /\ Queued(N, s, T, R, D) /\ Timed(N, s, T)
    BY InvIs
  <2>2. pc = "done" /\ m = N
    BY DEF Ended
  <2>3. /\ D \in Seq(1..N) /\ DOMAIN D = 1..m
        /\ \A u \in 1..N : T[u].state = "TERMINATED" <=> In(u, D)
    <3>1. D \in Seq(1..N) /\ \A u \in 1..N : T[u].state = "TERMINATED" <=> In(u, D)
      BY <2>1, QueuedIs
    <3>2. DOMAIN D = 1..m
      BY <3>1
    <3> QED  BY <3>1, <3>2
  <2>4. stats.waiting = Total(a)
    <3>1. stats = Totals(s, T)
      BY <2>2 DEF Inv
    <3>2. stats.waiting = Total([i \in DOMAIN D |-> T[D[i]].waiting])
      BY <3>1 DEF Totals, TerminatedQ
    <3> QED  BY <2>3, <3>2
  <2>5. /\ \A i, j \in 1..N : order[i] = order[j] => i = j
        /\ order \in [1..N -> 1..N]
    BY <2>1 DEF IsInjective
  <2> HIDE DEF N, R, D, s, T
  <2>6. \A t \in 1..N : T[t].waiting \in Nat /\ T[t].burst \in Nat /\ T[t].start \in Nat \cup {-1}
    BY <2>1, WorkIs
  <2>7. \A t \in 1..N : T[t].state = "TERMINATED"
    <3>1. \A i, j \in 1..m : D[i] = D[j] => i = j
      BY <2>1, PlacedIs
    <3> DEFINE X == {t \in 1..N : In(t, D)}
               W == 1..N
    <3>2. IsFiniteSet(X) /\ Cardinality(X) = N
      BY <2>1, <2>2, <2>3, <3>1, QueueIs
    <3>3. IsFiniteSet(W) /\ Cardinality(W) = N
      <4>1. 1 \in Int /\ N \in Int
        BY <2>1
      <4>2. IsFiniteSet(1..N) /\ Cardinality(1..N) = IF 1 > N THEN 0 ELSE N-1+1
        BY <4>1, FS_Interval
      <4> QED  BY <2>1, <4>2
    <3>4. X \in SUBSET W
      OBVIOUS
    <3>5. \A t : t \in X <=> t \in W /\ In(t, D)
      OBVIOUS
    <3> HIDE DEF X, W
    <3>6. W = X
      BY <3>2, <3>3, <3>4, FS_Subset
    <3> QED  BY <2>3, <3>5, <3>6 DEF W
  <2>8. \A t \in 1..N : f[t] = TimeBefore(N, "SJF", T, t)
    <3> SUFFICES ASSUME NEW t \in 1..N PROVE T[t].waiting = TimeBefore(N, "SJF", T, t)
      OBVIOUS
    <3> DEFINE x == T[t]
    <3>1. /\ x.state = "TERMINATED" /\ x.burst \in Nat /\ x.start \in Nat \cup {-1}
          /\ TimesOf(x, s.now)
      BY <2>1, <2>6, <2>7 DEF Timed
    <3>2. x.waiting = x.completion - x.burst /\ x.start # -1
      BY <3>1 DEF TimesOf
    <3>3. s.algorithm = "SJF"
      BY DEF s
    <3>4. InTurn(N, s, T, R)
      BY <2>1, <3>3 DEF Sound
    <3>5. x.start = TimeBefore(N, "SJF", T, t) /\ x.completion = x.start + x.burst
      BY <3>1, <3>2, <3>3, <3>4 DEF InTurn
    <3> DEFINE start == x.start
               burst == x.burst
    <3>6. start \in Int /\ burst \in Int /\ x.waiting = (start + burst) - burst
      BY <3>1, <3>2, <3>5
    <3> HIDE DEF start, burst
    <3>7. x.waiting = start
      BY <3>6
    <3> QED  BY <3>5, <3>7 DEF start
  <2>9. /\ f \in [1..N -> Int] /\ \A t \in 1..N : f[t] = T[t].waiting
    BY <2>6
  <2>10. Total(a) = Total(f)
    <3>1. \A i \in 1..m : D[i] \in 1..N
      BY <2>1, PlacedIs
    <3>2. a \in [1..m -> Int] /\ \A i \in 1..m : a[i] = f[D[i]]
      BY <2>6, <2>9, <3>1
    <3> HIDE DEF a, f
    <3>3. OfTheEnded(N, T, D, f, a, f)
      BY <2>7, <2>9, <3>2 DEF OfTheEnded
    <3> QED  BY <2>1, <3>3, TotalOver
  <2> HIDE DEF f, a, m
  <2> DEFINE v == [i \in 1..N |-> (N - i) * T[order[i]].burst]
  <2>11. Waits(N, T, order, f, v)
    BY <2>1, <2>5, <2>8, <2>9 DEF Waits, Order
  <2> HIDE DEF v
  <2>12. Total(f) <= Total(v)
    BY <2>11, ShortestIsLeast
  <2> QED  BY <2>1, <2>4, <2>10, <2>12 DEF N, T, v
<1> QED  BY <1>1, InvHolds, PTL

=============================================================================

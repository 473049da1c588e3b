--------------------------- MODULE LosuUnitProofs ---------------------------
(***************************************************************************)
(* The hash table of a unit is a map with loops over it, for every set of  *)
(* keys, every way they collide and every size of the table.               *)
(***************************************************************************)
EXTENDS LosuUnit, FiniteSetTheorems, WellFoundedInduction, TLAPS

-----------------------------------------------------------------------------
(* Numbers.                                                                *)

(* A set of numbers has a least one.                                       *)
LEMMA LeastOne == ASSUME NEW S \in SUBSET Nat, S # {}
                  PROVE  \E x \in S : \A y \in S : x <= y
<1> DEFINE R == OpToRel(<, Nat)
<1>1. \A x, y \in Nat : <<y, x>> \in R <=> y < x
  BY DEF OpToRel
<1>2. IsWellFoundedOn(R, Nat)
  BY NatLessThanWellFounded
<1> HIDE DEF R
<1>3. PICK x \in S : \A y \in S : ~(<<y, x>> \in R)
  BY <1>2, WFMin
<1>4. ASSUME NEW y \in S PROVE x <= y
  <2>1. x \in Nat /\ y \in Nat  OBVIOUS
  <2>2. ~(y < x)  BY <1>1, <1>3, <2>1
  <2> QED  BY <2>1, <2>2
<1> QED  BY <1>4

(* What holds of 0 and goes from each number to the next holds of all, up  *)
(* to m ...                                                                *)
LEMMA UpTo ==
    ASSUME NEW m \in Nat, NEW S, 0 \in S, \A n \in 0..m-1 : n \in S => n + 1 \in S
    PROVE  0..m \subseteq S
<1> DEFINE B == {n \in 0..m : n \notin S}
<1> SUFFICES ASSUME B # {} PROVE FALSE
  OBVIOUS
<1>1. B \in SUBSET Nat
  OBVIOUS
<1> HIDE DEF B
<1>2. PICK n \in B : \A y \in B : n <= y
  BY <1>1, LeastOne
<1>3. n \in 0..m /\ n \notin S /\ n # 0
  BY <1>2 DEF B
<1>4. n - 1 \in 0..m-1 /\ ~(n <= n - 1) /\ (n - 1) + 1 = n
  BY <1>3
<1>5. n - 1 \in S
  BY <1>2, <1>4 DEF B
<1> QED  BY <1>3, <1>4, <1>5

(* ... and of all there are.                                               *)
LEMMA OfAll ==
    ASSUME NEW S, 0 \in S, \A n \in Nat : n \in S => n + 1 \in S
    PROVE  Nat \subseteq S
<1> SUFFICES ASSUME NEW m \in Nat PROVE m \in S
  OBVIOUS
<1>1. \A n \in 0..m-1 : n \in S => n + 1 \in S
  OBVIOUS
<1>2. 0..m \subseteq S
  BY <1>1, UpTo
<1> QED  BY <1>2

(* Min is the least of a set of numbers ...                                *)
LEMMA MinIs == ASSUME NEW S \in SUBSET Nat, S # {}
               PROVE  Min(S) \in S /\ \A y \in S : Min(S) <= y
<1>1. \E x \in S : \A y \in S : x <= y
  BY LeastOne
<1> QED  BY <1>1 DEF Min

(* ... and Max the greatest of one that is bounded.                        *)
LEMMA MaxIs == ASSUME NEW n \in Nat, NEW S \in SUBSET (1..n), S # {}
               PROVE  Max(S) \in S /\ \A y \in S : y <= Max(S)
<1> DEFINE D == {d \in Nat : \E x \in S : d = n - x}
<1>1. D \in SUBSET Nat /\ D # {}
  <2>1. PICK x \in S : TRUE
    OBVIOUS
  <2>2. x \in 1..n
    OBVIOUS
  <2>3. n - x \in D
    BY <2>2
  <2> QED  BY <2>3
<1>2. PICK d \in D : \A e \in D : d <= e
  BY <1>1, LeastOne
<1>3. PICK x \in S : d = n - x
  BY <1>2
<1>4. ASSUME NEW y \in S PROVE x >= y
  <2>1. y \in 1..n /\ x \in 1..n /\ n - y \in D
    OBVIOUS
  <2>2. x \in Int /\ y \in Int /\ d <= n - y
    BY <1>2, <2>1
  <2> QED  BY <1>3, <2>2
<1>5. \E z \in S : \A y \in S : z >= y
  BY <1>4
<1>6. Max(S) \in S /\ \A y \in S : Max(S) >= y
  BY <1>5 DEF Max
<1>7. ASSUME NEW y \in S PROVE y <= Max(S)
  <2>1. y \in 1..n /\ Max(S) \in 1..n /\ Max(S) >= y
    BY <1>6
  <2> QED  BY <2>1
<1> QED  BY <1>6, <1>7

(* The sizes: MinSize, and each twice the one before.                      *)
Doubles(m, f) == f = [n \in 0..m |-> IF n = 0 THEN MinSize ELSE 2 * f[n-1]]

(* There are such functions, up to every number ...                        *)
LEMMA DoublesExists == ASSUME NEW m \in Nat PROVE \E f : Doubles(m, f)
<1> DEFINE S == {k \in Nat : \E f : Doubles(k, f)}
<1>1. 0 \in S
  <2>1. Doubles(0, [n \in 0..0 |-> MinSize])
    BY DEF Doubles
  <2> QED  BY <2>1
<1>2. ASSUME NEW k \in Nat, k \in S PROVE k + 1 \in S
  <2>1. PICK f : Doubles(k, f)
    BY <1>2
  <2> DEFINE g == [n \in 0..k+1 |-> IF n = k + 1 THEN 2 * f[k] ELSE f[n]]
  <2>2. ASSUME NEW n \in 0..k+1 PROVE g[n] = IF n = 0 THEN MinSize ELSE 2 * g[n-1]
    <3>1. CASE n = k + 1
      BY <3>1
    <3>2. CASE n # k + 1
      <4>1. n \in 0..k /\ (n # 0 => n - 1 \in 0..k+1 /\ n - 1 # k + 1)
        BY <3>2
      <4>2. f[n] = IF n = 0 THEN MinSize ELSE 2 * f[n-1]
        BY <2>1, <4>1 DEF Doubles
      <4> QED  BY <3>2, <4>1, <4>2
    <3> QED  BY <3>1, <3>2
  <2>3. Doubles(k + 1, g)
    BY <2>2 DEF Doubles
  <2> QED  BY <2>3
<1> HIDE DEF S
<1>3. Nat \subseteq S
  BY <1>1, <1>2, OfAll
<1> QED  BY <1>3 DEF S

(* ... they agree where they overlap ...                                   *)
LEMMA DoublesAgree ==
    ASSUME NEW m \in Nat, NEW k \in Nat, NEW f, NEW g, Doubles(m, f), Doubles(k, g), m <= k
    PROVE  f[m] = g[m]
<1> DEFINE S == {n \in 0..m : f[n] = g[n]}
<1>1. 0 \in S
  BY DEF Doubles
<1>2. ASSUME NEW n \in 0..m-1, n \in S PROVE n + 1 \in S
  <2>1. n + 1 \in 0..m /\ n + 1 \in 0..k /\ n + 1 # 0 /\ (n + 1) - 1 = n
    OBVIOUS
  <2>2. f[n+1] = 2 * f[n] /\ g[n+1] = 2 * g[n]
    BY <2>1 DEF Doubles
  <2> QED  BY <1>2, <2>1, <2>2
<1> HIDE DEF S
<1>3. 0..m \subseteq S
  BY <1>1, <1>2, UpTo
<1> QED  BY <1>3 DEF S

(* ... and so there is Doubled, which starts at 4 and grows past any n.    *)
LEMMA DoubledIs ==
    /\ Doubled[0] = 4
    /\ \A n \in Nat : Doubled[n] \in Nat /\ Doubled[n] >= 4 /\ Doubled[n] > n
                      /\ Doubled[n+1] = 2 * Doubled[n]
<1> DEFINE C(n) == CHOOSE f : Doubles(n, f)
           F == [n \in Nat |-> C(n)[n]]
<1>1. \A n \in Nat : Doubles(n, C(n))
  BY DoublesExists
<1> HIDE DEF C
<1>2. \A n \in Nat : F[n] = C(n)[n]
  OBVIOUS
<1>3. F[0] = MinSize
  BY <1>1, <1>2 DEF Doubles
<1>4. ASSUME NEW n \in Nat PROVE F[n+1] = 2 * F[n]
  <2>1. C(n+1)[n+1] = 2 * C(n+1)[n]
    BY <1>1 DEF Doubles
  <2>2. C(n)[n] = C(n+1)[n]
    BY <1>1, DoublesAgree
  <2> QED  BY <1>2, <2>1, <2>2
<1>5. F = [n \in Nat |-> IF n = 0 THEN MinSize ELSE 2 * F[n-1]]
  <2>1. ASSUME NEW n \in Nat PROVE F[n] = IF n = 0 THEN MinSize ELSE 2 * F[n-1]
    <3>1. n # 0 => n - 1 \in Nat /\ (n - 1) + 1 = n
      OBVIOUS
    <3> QED  BY <1>3, <1>4, <3>1
  <2> QED  BY <2>1
<1> HIDE DEF F
<1>6. Doubled = [n \in Nat |-> IF n = 0 THEN MinSize ELSE 2 * Doubled[n-1]]
  BY <1>5 DEF Doubled
<1>7. Doubled[0] = 4
  BY <1>6, Sizes
<1>8. ASSUME NEW n \in Nat PROVE Doubled[n+1] = 2 * Doubled[n]
  <2>1. n + 1 \in Nat /\ n + 1 # 0 /\ (n + 1) - 1 = n
    OBVIOUS
  <2> QED  BY <1>6, <2>1
<1> DEFINE S == {n \in Nat : Doubled[n] \in Nat /\ Doubled[n] >= 4 /\ Doubled[n] > n}
<1>9. 0 \in S
  BY <1>7
<1>10. ASSUME NEW n \in Nat, n \in S PROVE n + 1 \in S
  BY <1>8, <1>10
<1> HIDE DEF S
<1>11. Nat \subseteq S
  BY <1>9, <1>10, OfAll
<1> QED  BY <1>7, <1>8, <1>11 DEF S

(* A size is a number from 4 on, its double is a size, and so is its half  *)
(* unless it is the least.                                                 *)
LEMMA SizeIs ==
    ASSUME NEW m, IsSize(m)
    PROVE  /\ m \in Nat /\ m >= 4 /\ IsSize(2 * m)
           /\ m > 4 => m >= 8 /\ IsSize(m \div 2) /\ m = 2 * (m \div 2)
<1>1. PICK n \in 0..m : m = Doubled[n]
  BY DEF IsSize
<1>2. m \in Nat /\ m >= 4 /\ n \in Nat
  <2>1. CASE n \in Nat
    BY <1>1, <2>1, DoubledIs
  <2>2. n \in Nat
    OBVIOUS
  <2> QED  BY <2>1, <2>2
<1>3. IsSize(2 * m)
  <2>1. 2 * m = Doubled[n + 1] /\ 2 * m > n + 1
    BY <1>1, <1>2, DoubledIs
  <2> QED  BY <1>2, <2>1 DEF IsSize
<1>4. ASSUME m > 4 PROVE m >= 8 /\ IsSize(m \div 2) /\ m = 2 * (m \div 2)
  <2>1. n # 0
    BY <1>1, <1>4, DoubledIs
  <2> DEFINE h == Doubled[n - 1]
  <2>2. h \in Nat /\ h >= 4 /\ h > n - 1 /\ m = 2 * h /\ n - 1 \in Nat
    <3>1. n - 1 \in Nat /\ (n - 1) + 1 = n
      BY <1>2, <2>1
    <3> QED  BY <1>1, <3>1, DoubledIs
  <2>3. h = m \div 2
    BY <2>2
  <2>4. IsSize(h)
    BY <2>2 DEF IsSize
  <2> QED  BY <2>2, <2>3, <2>4
<1> QED  BY <1>2, <1>3, <1>4

-----------------------------------------------------------------------------
(* Chains, of the key of each node, the node after it, and the main node   *)
(* of each key.                                                            *)

USE DEF Nil

(* No node of a chain is before itself.                                    *)
Ranked(N, next) ==
    \E r \in [1..N -> Nat] : \A i \in 1..N : next[i] # Nil => r[i] < r[next[i]]

(* The nodes from i on, until there is none.                               *)
Walked(N, next, i, w) ==
    /\ w \in [0..N -> 0..N] /\ w[0] = i
    /\ \A n \in 0..N-1 : w[n+1] = IF w[n] = Nil THEN Nil ELSE next[w[n]]

Reached(N, w) == {x \in 1..N : \E n \in 0..N : w[n] = x}

(* There is a walk from each node.                                         *)
LEMMA WalkExists ==
    ASSUME NEW N \in Nat, NEW next \in [1..N -> 0..N], NEW i \in 1..N
    PROVE  \E w : Walked(N, next, i, w)
<1> DEFINE Part(m, w) ==
             /\ w \in [0..m -> 0..N] /\ w[0] = i
             /\ \A n \in 0..m-1 : w[n+1] = IF w[n] = Nil THEN Nil ELSE next[w[n]]
           S == {m \in 0..N : \E w : Part(m, w)}
<1>1. 0 \in S
  <2> DEFINE w == [n \in 0..0 |-> i]
  <2>1. w \in [0..0 -> 0..N] /\ w[0] = i /\ \A n \in 0..0-1 : FALSE
    OBVIOUS
  <2>2. Part(0, w)
    BY <2>1
  <2> HIDE DEF Part, w
  <2> QED  BY <2>2
<1>2. ASSUME NEW m \in 0..N-1, m \in S PROVE m + 1 \in S
  <2>1. PICK w : Part(m, w)
    BY <1>2
  <2> DEFINE x == IF w[m] = Nil THEN Nil ELSE next[w[m]]
             v == [n \in 0..m+1 |-> IF n = m + 1 THEN x ELSE w[n]]
  <2>2. x \in 0..N
    BY <2>1
  <2> HIDE DEF x
  <2>3. v \in [0..m+1 -> 0..N] /\ v[0] = i
    BY <2>1, <2>2
  <2>4. ASSUME NEW n \in 0..m PROVE v[n+1] = IF v[n] = Nil THEN Nil ELSE next[v[n]]
    <3>1. n + 1 \in 0..m+1 /\ n \in 0..m+1 /\ n # m + 1 /\ (n = m <=> n + 1 = m + 1)
      OBVIOUS
    <3>2. v[n] = w[n]
      BY <3>1
    <3>3. CASE n = m
      BY <3>1, <3>2, <3>3 DEF x
    <3>4. CASE n # m
      <4>1. v[n + 1] = w[n + 1] /\ n \in 0..m-1
        BY <3>1, <3>4
      <4> QED  BY <2>1, <3>2, <4>1
    <3> QED  BY <3>3, <3>4
  <2>5. Part(m + 1, v)
    <3>1. (m + 1) - 1 = m
      OBVIOUS
    <3> HIDE DEF v
    <3> QED  BY <2>3, <2>4, <3>1
  <2>6. m + 1 \in 0..N
    OBVIOUS
  <2> HIDE DEF v, Part
  <2> QED  BY <2>5, <2>6
<1>3. 0..N \subseteq S
  <2> HIDE DEF S
  <2> QED  BY <1>1, <1>2, UpTo
<1>4. PICK w : Part(N, w)
  <2> HIDE DEF Part
  <2>1. N \in S
    <3> HIDE DEF S
    <3> QED  BY <1>3
  <2> QED  BY <2>1
<1> QED  BY <1>4 DEF Walked

(* A walk through ranked nodes ends before it has made N steps.            *)
LEMMA WalkEnds ==
    ASSUME NEW N \in Nat, NEW next \in [1..N -> 0..N], NEW i, NEW w,
           Walked(N, next, i, w), Ranked(N, next)
    PROVE  w[N] = Nil
<1> SUFFICES ASSUME w[N] # Nil PROVE FALSE
  OBVIOUS
<1>1. PICK r \in [1..N -> Nat] : \A j \in 1..N : next[j] # Nil => r[j] < r[next[j]]
  BY DEF Ranked
<1>2. ASSUME NEW n \in 0..N-1, w[n+1] # Nil PROVE w[n] # Nil /\ w[n+1] = next[w[n]]
  BY <1>2 DEF Walked
<1> DEFINE S == {n \in 0..N : w[N - n] # Nil}
<1>3. ASSUME NEW n \in 0..N PROVE w[n] # Nil
  <2>1. 0 \in S
    OBVIOUS
  <2>2. ASSUME NEW m \in 0..N-1, m \in S PROVE m + 1 \in S
    <3>1. N - (m + 1) \in 0..N-1 /\ (N - (m + 1)) + 1 = N - m
      OBVIOUS
    <3> QED  BY <1>2, <2>2, <3>1
  <2>3. 0..N \subseteq S
    <3> HIDE DEF S
    <3> QED  BY <2>1, <2>2, UpTo
  <2>4. N - n \in 0..N /\ N - (N - n) = n
    OBVIOUS
  <2> QED  BY <2>3, <2>4
<1>4. ASSUME NEW n \in 0..N PROVE w[n] \in 1..N
  BY <1>3 DEF Walked
<1>5. ASSUME NEW n \in 0..N-1 PROVE r[w[n]] < r[w[n+1]]
  <2>1. w[n] \in 1..N /\ w[n+1] = next[w[n]] /\ w[n+1] # Nil
    <3>1. n \in 0..N /\ n + 1 \in 0..N
      OBVIOUS
    <3> QED  BY <1>2, <1>3, <1>4, <3>1
  <2> QED  BY <1>1, <2>1
<1>6. ASSUME NEW a \in 0..N PROVE \A b \in 0..N : a < b => r[w[a]] < r[w[b]]
  <2> DEFINE U == {b \in 0..N : a < b => r[w[a]] < r[w[b]]}
  <2>1. 0 \in U
    OBVIOUS
  <2>2. ASSUME NEW b \in 0..N-1, b \in U PROVE b + 1 \in U
    <3>2. r[w[b]] < r[w[b + 1]]
      BY <1>5
    <3>a. b \in 0..N /\ b + 1 \in 0..N
      OBVIOUS
    <3>b. w[a] \in 1..N /\ w[b] \in 1..N /\ w[b + 1] \in 1..N
      BY <1>4, <3>a
    <3>3. r[w[a]] \in Nat /\ r[w[b]] \in Nat /\ r[w[b + 1]] \in Nat
      BY <1>1, <3>b
    <3>4. CASE a = b
      BY <3>2, <3>4
    <3>5. CASE a < b
      <4>1. r[w[a]] < r[w[b]]
        BY <2>2, <3>5
      <4> DEFINE x == r[w[a]]
                 y == r[w[b]]
                 z == r[w[b + 1]]
      <4>a. x \in Nat /\ y \in Nat /\ z \in Nat /\ x < y /\ y < z
        BY <3>2, <3>3, <4>1
      <4>2. x < z
        <5> HIDE DEF x, y, z
        <5> QED  BY <4>a
      <4> QED  BY <3>a, <4>2
    <3>6. CASE ~(a = b) /\ ~(a < b)
      BY <3>a, <3>6
    <3> QED  BY <3>4, <3>5, <3>6
  <2> HIDE DEF U
  <2>3. 0..N \subseteq U
    BY <2>1, <2>2, UpTo
  <2> QED  BY <2>3 DEF U
<1>7. w \in [0..N -> 1..N]
  BY <1>4 DEF Walked
<1>8. /\ IsFiniteSet(0..N) /\ IsFiniteSet(1..N)
      /\ Cardinality(1..N) < Cardinality(0..N)
  <2>1. IsFiniteSet(0..N) /\ Cardinality(0..N) = N + 1
    BY FS_Interval
  <2>2. IsFiniteSet(1..N) /\ Cardinality(1..N) = N
    BY FS_Interval
  <2> QED  BY <2>1, <2>2
<1>9. PICK a \in 0..N, b \in 0..N : a # b /\ w[a] = w[b]
  BY <1>7, <1>8, FS_PigeonHole
<1>10. r[w[a]] \in Nat /\ (a < b \/ b < a)
  BY <1>1, <1>4, <1>9
<1>11. r[w[a]] < r[w[b]] \/ r[w[b]] < r[w[a]]
  BY <1>6, <1>9, <1>10
<1>12. r[w[a]] = r[w[b]]
  BY <1>9
<1> QED  BY <1>10, <1>11, <1>12

(* What is reached goes on to what is reached ...                          *)
LEMMA ReachedClosed ==
    ASSUME NEW N \in Nat, NEW next \in [1..N -> 0..N], NEW i \in 1..N, NEW w,
           Walked(N, next, i, w), Ranked(N, next)
    PROVE  i \in Reached(N, w)
           /\ \A j \in Reached(N, w) : next[j] # Nil => next[j] \in Reached(N, w)
<1>1. i \in Reached(N, w)
  BY DEF Walked, Reached
<1>2. ASSUME NEW j \in Reached(N, w), next[j] # Nil PROVE next[j] \in Reached(N, w)
  <2>1. PICK n \in 0..N : w[n] = j /\ j \in 1..N
    BY DEF Reached
  <2>2. n # N
    BY <2>1, WalkEnds
  <2>3. n + 1 \in 0..N /\ n \in 0..N-1
    BY <2>2
  <2>4. w[n + 1] = next[j]
    <3>1. w[n + 1] = IF w[n] = Nil THEN Nil ELSE next[w[n]]
      BY <2>3 DEF Walked
    <3> QED  BY <2>1, <3>1
  <2> QED  BY <1>2, <2>1, <2>3, <2>4 DEF Reached
<1> QED  BY <1>1, <1>2

(* ... and is in every set that has i and goes on.                         *)
LEMMA ReachedLeast ==
    ASSUME NEW N \in Nat, NEW next \in [1..N -> 0..N], NEW i \in 1..N, NEW w,
           Walked(N, next, i, w), NEW C, i \in C,
           \A j \in C \cap 1..N : next[j] # Nil => next[j] \in C
    PROVE  Reached(N, w) \subseteq C
<1> DEFINE S == {n \in 0..N : w[n] # Nil => w[n] \in C}
<1>1. 0 \in S
  BY DEF Walked
<1>2. ASSUME NEW n \in 0..N-1, n \in S PROVE n + 1 \in S
  <2>1. n + 1 \in 0..N /\ n \in 0..N
    OBVIOUS
  <2>2. /\ w[n + 1] = IF w[n] = Nil THEN Nil ELSE next[w[n]]
        /\ w[n] \in 0..N
    BY <2>1 DEF Walked
  <2>3. CASE w[n] = Nil
    BY <2>1, <2>2, <2>3
  <2>4. CASE w[n] # Nil
    <3>1. w[n] \in C \cap 1..N /\ w[n + 1] = next[w[n]]
      BY <1>2, <2>2, <2>4 DEF Nil
    <3> QED  BY <2>1, <3>1
  <2> QED  BY <2>3, <2>4
<1>3. 0..N \subseteq S
  <2> HIDE DEF S
  <2> QED  BY <1>1, <1>2, UpTo
<1> QED  BY <1>3 DEF Reached, Nil

-----------------------------------------------------------------------------
(* The chains of a table.                                                  *)

NodeType(n) == [key : Keys \cup {NoKey}, val : Values \cup {Null}, next : 0..n]

(* A table of the code, whatever is in its nodes.                          *)
Typed(T) ==
    /\ T \in [size : Nat, free : Nat, node : [1..T.size -> NodeType(T.size)]]
    /\ IsSize(T.size) /\ T.free \in 1..T.size

KeyOf(T) == [i \in 1..T.size |-> T.node[i].key]
NextOf(T) == [i \in 1..T.size |-> T.node[i].next]
MainOf(T) == [k \in Keys |-> MainKey(T, k)]

(* The keys, the chains and the main nodes of a table are what the lemmas  *)
(* on chains take.                                                         *)
LEMMA ViewsTyped ==
    ASSUME NEW T, Typed(T)
    PROVE  /\ T.size \in Nat /\ T.size >= 4 /\ T.free \in 1..T.size
           /\ T.node \in [1..T.size -> NodeType(T.size)]
           /\ KeyOf(T) \in [1..T.size -> Keys \cup {NoKey}]
           /\ NextOf(T) \in [1..T.size -> 0..T.size]
           /\ MainOf(T) \in [Keys -> 1..T.size]
<1>1. T.size \in Nat /\ T.size >= 4 /\ T.node \in [1..T.size -> NodeType(T.size)]
  BY SizeIs DEF Typed
<1>2. \A i \in 1..T.size : T.node[i].key \in Keys \cup {NoKey} /\ T.node[i].next \in 0..T.size
  BY <1>1 DEF NodeType
<1>3. ASSUME NEW k \in Keys PROVE MainKey(T, k) \in 1..T.size
  <2>1. Hash[k] \in Nat /\ T.size > 0
    BY <1>1, Sizes
  <2> DEFINE h == Hash[k]
             n == T.size
             m == h % n
  <2>2. h \in Nat /\ n \in Nat /\ n > 0
    BY <1>1, <2>1
  <2>3. m \in 0..n-1
    <3> HIDE DEF h, n
    <3> QED  BY <2>2
  <2>4. MainKey(T, k) = 1 + m
    BY DEF MainKey
  <2> HIDE DEF m, n
  <2>5. 1 + m \in 1..n
    BY <2>2, <2>3
  <2> QED  BY <2>4, <2>5 DEF n
<1> QED  BY <1>1, <1>2, <1>3 DEF KeyOf, NextOf, MainOf, Typed

(* The set that Chain makes is what a walk reaches.                        *)
LEMMA ChainIs ==
    ASSUME NEW T, Typed(T), NEW i \in 1..T.size, NEW w, Walked(T.size, NextOf(T), i, w)
    PROVE  Chain(T, i) = Reached(T.size, w)
<1> DEFINE N == T.size
           Before(n) == {x \in 1..N : \E m \in 0..n : w[m] = x}
           More(s) == (UNION {{j, T.node[j].next} : j \in s}) \ {Nil}
<1>1. N \in Nat /\ N > 0 /\ w \in [0..N -> 0..N] /\ w[0] = i
  BY ViewsTyped DEF Walked
<1>2. \A j \in 1..N : NextOf(T)[j] = T.node[j].next /\ T.node[j].next \in 0..N
  BY ViewsTyped DEF NextOf
<1>3. Before(0) = {i}
  BY <1>1
<1> DEFINE t(j) == T.node[j].next
<1>a. ASSUME NEW s, NEW x PROVE x \in More(s) <=> x # Nil /\ \E j \in s : x = j \/ x = t(j)
  <2> DEFINE U == {{j, t(j)} : j \in s}
  <2>1. More(s) = (UNION U) \ {Nil}
    OBVIOUS
  <2>2. x \in UNION U <=> \E j \in s : x \in {j, t(j)}
    <3> HIDE DEF t
    <3>1. ASSUME x \in UNION U PROVE \E j \in s : x \in {j, t(j)}
      <4>1. PICK y \in U : x \in y
        <5> HIDE DEF U
        <5> QED  BY <3>1
      <4>2. PICK j \in s : y = {j, t(j)}
        BY <4>1
      <4> QED  BY <4>1, <4>2
    <3>2. ASSUME NEW j \in s, x \in {j, t(j)} PROVE x \in UNION U
      <4>1. {j, t(j)} \in U
        OBVIOUS
      <4> HIDE DEF U
      <4> QED  BY <3>2, <4>1
    <3> QED  BY <3>1, <3>2
  <2> HIDE DEF More, U, t
  <2> QED  BY <2>1, <2>2
<1> HIDE DEF More
<1>4. ASSUME NEW n \in 0..N-1 PROVE Before(n + 1) = More(Before(n))
  <2>1. \A x : x \in More(Before(n)) <=>
            x # Nil /\ \E j \in Before(n) : x = j \/ x = T.node[j].next
    BY <1>a DEF t
  <2>2. \A m \in 0..n+1 : m \in 0..n \/ m = n + 1
    OBVIOUS
  <2>3. ASSUME NEW x \in Before(n + 1) PROVE x \in More(Before(n))
    <3>1. PICK m \in 0..n+1 : w[m] = x /\ x \in 1..N
      BY <2>3
    <3>2. CASE m \in 0..n
      <4>1. x \in Before(n) /\ x # Nil
        BY <3>1, <3>2
      <4> QED  BY <2>1, <4>1
    <3>3. CASE m = n + 1
      <4>a. w[n+1] = (IF w[n] = Nil THEN Nil ELSE NextOf(T)[w[n]]) /\ w[n] \in 0..N
        BY <1>1 DEF Walked
      <4>1. w[n] \in 1..N /\ x = NextOf(T)[w[n]]
        BY <1>1, <3>1, <3>3, <4>a
      <4>2. w[n] \in Before(n)
        BY <4>1
      <4>3. x = T.node[w[n]].next /\ x # Nil
        BY <1>2, <3>1, <4>1
      <4> HIDE DEF Before
      <4> QED  BY <2>1, <4>2, <4>3
    <3> QED  BY <2>2, <3>1, <3>2, <3>3
  <2>4. ASSUME NEW x \in More(Before(n)) PROVE x \in Before(n + 1)
    <3>1. PICK j \in Before(n) : x = j \/ x = T.node[j].next
      BY <2>1, <2>4
    <3>2. PICK m \in 0..n : w[m] = j /\ j \in 1..N
      BY <3>1
    <3>3. CASE x = j
      BY <3>2, <3>3
    <3>4. CASE x = T.node[j].next
      <4>1. x # Nil /\ x \in 1..N /\ x = NextOf(T)[w[m]] /\ w[m] # Nil
        <5>1. x # Nil
          BY <2>1, <2>4
        <5> QED  BY <1>2, <3>2, <3>4, <5>1
      <4>2. m \in 0..N-1 /\ m + 1 \in 0..n+1
        BY <1>1
      <4>3. w[m + 1] = x
        <5>1. w[m + 1] = IF w[m] = Nil THEN Nil ELSE NextOf(T)[w[m]]
          BY <4>2 DEF Walked
        <5> QED  BY <4>1, <5>1
      <4> QED  BY <4>1, <4>2, <4>3
    <3> QED  BY <3>1, <3>3, <3>4
  <2> QED  BY <2>3, <2>4
<1> HIDE DEF Before, More
<1> DEFINE Is(f) == f = [n \in 0..N |-> IF n = 0 THEN {i} ELSE More(f[n-1])]
           b == [n \in 0..N |-> Before(n)]
           c == CHOOSE f : Is(f)
<1>5. Is(b)
  <2>1. ASSUME NEW n \in 0..N PROVE b[n] = IF n = 0 THEN {i} ELSE More(b[n-1])
    <3>1. n # 0 => n - 1 \in 0..N-1 /\ n - 1 \in 0..N /\ (n - 1) + 1 = n
      BY <1>1
    <3>2. n # 0 => Before(n) = More(Before(n - 1))
      BY <1>4, <3>1
    <3> QED  BY <1>3, <3>1, <3>2
  <2> QED  BY <2>1
<1>6. Is(c)
  <2> HIDE DEF Is, b
  <2> QED  BY <1>5
<1>7. Chain(T, i) = c[N]
  BY DEF Chain, More
<1> HIDE DEF c
<1> DEFINE S == {n \in 0..N : c[n] = Before(n)}
<1>8. 0 \in S
  BY <1>1, <1>3, <1>6
<1>9. ASSUME NEW n \in 0..N-1, n \in S PROVE n + 1 \in S
  <2>1. n + 1 \in 0..N /\ n + 1 # 0 /\ (n + 1) - 1 = n
    BY <1>1
  <2>2. c[n + 1] = More(c[n])
    BY <1>6, <2>1
  <2> QED  BY <1>4, <1>9, <2>1, <2>2
<1>10. 0..N \subseteq S
  <2> HIDE DEF S
  <2> QED  BY <1>1, <1>8, <1>9, UpTo
<1>11. c[N] = Before(N)
  BY <1>1, <1>10
<1> QED  BY <1>7, <1>11 DEF Before, Reached

-----------------------------------------------------------------------------
(* What keeps the chains right.  A node leads to a node of the same main   *)
(* node, never to that one; a key that is not in its main node is led to,  *)
(* by one node; there is a key in its main node, one that belongs there;   *)
(* no key is there twice.                                                  *)
Has(i, key) == key[i] # NoKey
Links(N, key, next, main) ==
    \A i \in 1..N : next[i] # Nil =>
        /\ Has(i, key) /\ Has(next[i], key)
        /\ main[key[next[i]]] = main[key[i]] /\ next[i] # main[key[i]]
OneBefore(N, next) == \A i, j \in 1..N : next[i] # Nil /\ next[i] = next[j] => i = j
SomeBefore(N, key, next, main) ==
    \A j \in 1..N : Has(j, key) /\ main[key[j]] # j => \E i \in 1..N : next[i] = j
Headed(N, key, main) ==
    \A j \in 1..N : Has(j, key) =>
        /\ Has(main[key[j]], key) /\ main[key[main[key[j]]]] = main[key[j]]
Distinct(N, key) == \A i, j \in 1..N : Has(i, key) /\ key[i] = key[j] => i = j

Chained(N, key, next, main) ==
    /\ N \in Nat /\ key \in [1..N -> Keys \cup {NoKey}]
    /\ next \in [1..N -> 0..N] /\ main \in [Keys -> 1..N]
    /\ Links(N, key, next, main) /\ OneBefore(N, next) /\ SomeBefore(N, key, next, main)
    /\ Headed(N, key, main) /\ Distinct(N, key) /\ Ranked(N, next)

Blank(T) == \A i \in 1..T.size : T.node[i].key = NoKey => T.node[i] = FreeNode
Linked(T) ==
    /\ Typed(T) /\ Blank(T)
    /\ Chained(T.size, KeyOf(T), NextOf(T), MainOf(T))

KeysOf(T) == {k \in Keys : \E i \in 1..T.size : T.node[i].key = k}

(* The chain from a node: its nodes, where it goes on, and what is in it.  *)
LEMMA ChainHas ==
    ASSUME NEW T, Linked(T), NEW i \in 1..T.size
    PROVE  /\ i \in Chain(T, i) /\ Chain(T, i) \subseteq 1..T.size
           /\ \A j \in Chain(T, i) : NextOf(T)[j] # Nil => NextOf(T)[j] \in Chain(T, i)
           /\ \A C : i \in C /\ (\A j \in C \cap 1..T.size : NextOf(T)[j] # Nil => NextOf(T)[j] \in C)
                        => Chain(T, i) \subseteq C
<1> DEFINE N == T.size
           next == NextOf(T)
<1>1. N \in Nat /\ next \in [1..N -> 0..N] /\ Ranked(N, next) /\ i \in 1..N
  BY DEF Linked, Chained
<1> HIDE DEF N, next
<1>2. PICK w : Walked(N, next, i, w)
  BY <1>1, WalkExists
<1>3. Chain(T, i) = Reached(N, w)
  BY <1>2, ChainIs DEF N, next, Linked
<1>4. /\ i \in Reached(N, w)
      /\ \A j \in Reached(N, w) : next[j] # Nil => next[j] \in Reached(N, w)
  BY <1>1, <1>2, ReachedClosed
<1>5. ASSUME NEW C, i \in C, \A j \in C \cap 1..N : next[j] # Nil => next[j] \in C
      PROVE  Reached(N, w) \subseteq C
  BY <1>1, <1>2, <1>5, ReachedLeast
<1>6. Reached(N, w) \subseteq 1..N
  BY DEF Reached
<1> QED  BY <1>3, <1>4, <1>5, <1>6 DEF N, next

(* A node that has a key is in the chain of the key.                       *)
LEMMA InItsChain ==
    ASSUME NEW T, Linked(T), NEW j \in 1..T.size, T.node[j].key # NoKey
    PROVE  j \in Chain(T, MainKey(T, T.node[j].key))
<1> DEFINE N == T.size
           key == KeyOf(T)
           next == NextOf(T)
           main == MainOf(T)
           Lost == {i \in 1..N : Has(i, key) /\ i \notin Chain(T, main[key[i]])}
<1>1. Chained(N, key, next, main) /\ \A i \in 1..N : key[i] = T.node[i].key
  BY DEF Linked, KeyOf
<1>2. ASSUME NEW i \in 1..N, Has(i, key) PROVE key[i] \in Keys /\ main[key[i]] \in 1..N
  BY <1>1, <1>2 DEF Chained, Has
<1>3. main[key[j]] = MainKey(T, T.node[j].key) /\ Has(j, key)
  BY <1>1, <1>2 DEF MainOf, Has
<1>4. \A i \in 1..N : /\ i \in Chain(T, i)
                      /\ \A x \in Chain(T, i) : next[x] # Nil => next[x] \in Chain(T, i)
  BY ChainHas
<1> HIDE DEF key, next, main, N
<1>5. PICK r \in [1..N -> Nat] : \A i \in 1..N : next[i] # Nil => r[i] < r[next[i]]
  BY <1>1 DEF Chained, Ranked
<1>6. ASSUME Lost # {} PROVE FALSE
  <2> DEFINE R == {n \in Nat : \E i \in Lost : r[i] = n}
  <2>1. R \in SUBSET Nat /\ R # {}
    <3>1. PICK i \in Lost : TRUE
      BY <1>6
    <3>2. r[i] \in R
      BY <1>5
    <3> QED  BY <3>2
  <2>2. PICK n \in R : \A m \in R : n <= m
    <3> HIDE DEF R
    <3> QED  BY <2>1, LeastOne
  <2>3. PICK i \in Lost : r[i] = n
    OBVIOUS
  <2>4. i \in 1..N /\ Has(i, key) /\ i \notin Chain(T, main[key[i]])
    BY <2>3
  <2>5. main[key[i]] # i
    BY <1>4, <2>4
  <2>6. PICK b \in 1..N : next[b] = i
    BY <1>1, <2>4, <2>5 DEF Chained, SomeBefore
  <2>7. Has(b, key) /\ main[key[b]] = main[key[i]]
    <3>1. next[b] # Nil
      BY <1>1, <2>4, <2>6 DEF Chained
    <3> QED  BY <1>1, <2>6, <3>1 DEF Chained, Links
  <2>8. r[b] < r[i] /\ r[b] \in Nat /\ r[i] \in Nat
    BY <1>5, <2>4, <2>6
  <2>9. b \notin Lost
    <3>1. ASSUME b \in Lost PROVE FALSE
      <4>1. r[b] \in R
        BY <2>8, <3>1
      <4>2. n <= r[b]
        BY <2>2, <4>1
      <4> QED  BY <2>3, <2>8, <4>2
    <3> QED  BY <3>1
  <2>10. b \in Chain(T, main[key[i]])
    BY <2>7, <2>9
  <2>11. main[key[i]] \in 1..N
    BY <1>2, <2>4
  <2> QED  BY <1>4, <2>4, <2>6, <2>10, <2>11
<1> QED  BY <1>3, <1>6 DEF N

(* A chain holds the keys of one main node.                                *)
LEMMA ChainOf ==
    ASSUME NEW T, Linked(T), NEW i \in 1..T.size, T.node[i].key # NoKey,
           NEW j \in Chain(T, i)
    PROVE  /\ j \in 1..T.size /\ T.node[j].key # NoKey
           /\ MainKey(T, T.node[j].key) = MainKey(T, T.node[i].key)
<1> DEFINE N == T.size
           key == KeyOf(T)
           next == NextOf(T)
           main == MainOf(T)
           C == {x \in 1..N : Has(x, key) /\ main[key[x]] = main[key[i]]}
<1>1. Chained(N, key, next, main) /\ \A x \in 1..N : key[x] = T.node[x].key
  BY DEF Linked, KeyOf
<1>2. \A x \in 1..N : Has(x, key) => main[key[x]] = MainKey(T, T.node[x].key)
  <2>1. \A x \in 1..N : Has(x, key) => T.node[x].key \in Keys
    BY <1>1 DEF Chained, Has
  <2> QED  BY <1>1, <2>1 DEF MainOf
<1>3. Has(i, key) /\ i \in C
  BY <1>1 DEF Has
<1>4. \A D : i \in D /\ (\A x \in D \cap 1..N : next[x] # Nil => next[x] \in D)
               => Chain(T, i) \subseteq D
  BY ChainHas
<1> HIDE DEF key, next, main, N
<1>5. \A x \in C \cap 1..N : next[x] # Nil => next[x] \in C
  BY <1>1 DEF Chained, Links
<1>6. Chain(T, i) \subseteq C
  <2> HIDE DEF C
  <2> QED  BY <1>3, <1>4, <1>5
<1>7. j \in C
  BY <1>6
<1> QED  BY <1>1, <1>2, <1>3, <1>7 DEF N, Has

(* A lookup finds the node of a key, or that there is none.                *)
LEMMA NodeOfIs ==
    ASSUME NEW T, Linked(T), NEW k \in Keys
    PROVE  /\ \A i \in 1..T.size : T.node[i].key = k => NodeOf(T, k) = i
           /\ k \notin KeysOf(T) => NodeOf(T, k) = Nil
           /\ k \in KeysOf(T) => /\ NodeOf(T, k) \in 1..T.size
                                 /\ T.node[NodeOf(T, k)].key = k
<1> DEFINE here == {i \in Chain(T, MainKey(T, k)) : T.node[i].key = k}
<1>1. k # NoKey /\ Distinct(T.size, KeyOf(T)) /\ MainKey(T, k) \in 1..T.size
  BY Sizes, ViewsTyped DEF Linked, Chained, MainOf
<1>2. here \subseteq 1..T.size
  BY <1>1, ChainHas
<1>3. ASSUME NEW i \in 1..T.size, T.node[i].key = k PROVE here = {i}
  <2>1. i \in here
    BY <1>1, <1>3, InItsChain
  <2>2. ASSUME NEW j \in here PROVE j = i
    <3>1. j \in 1..T.size /\ T.node[j].key = k
      BY <1>2
    <3> QED  BY <1>1, <1>3, <3>1 DEF Distinct, Has, KeyOf
  <2> QED  BY <2>1, <2>2
<1>4. NodeOf(T, k) = IF here = {} THEN Nil ELSE CHOOSE i \in here : TRUE
  BY DEF NodeOf
<1> HIDE DEF here
<1>5. ASSUME NEW i \in 1..T.size, T.node[i].key = k PROVE NodeOf(T, k) = i
  BY <1>3, <1>4, <1>5
<1>6. ASSUME k \notin KeysOf(T) PROVE NodeOf(T, k) = Nil
  <2>1. here = {}
    BY <1>2, <1>6 DEF here, KeysOf
  <2> QED  BY <1>4, <2>1
<1>7. ASSUME k \in KeysOf(T)
      PROVE  NodeOf(T, k) \in 1..T.size /\ T.node[NodeOf(T, k)].key = k
  <2>1. PICK i \in 1..T.size : T.node[i].key = k
    BY <1>7 DEF KeysOf
  <2> QED  BY <1>5, <2>1
<1> QED  BY <1>5, <1>6, <1>7

-----------------------------------------------------------------------------
(* A key is put in a table: where it is put, its chain stays right, and so *)
(* do the others.                                                          *)

(* In its main node, when that is free.                                    *)
LEMMA PutMain ==
    ASSUME NEW N, NEW key, NEW next, NEW main, Chained(N, key, next, main),
           NEW k \in Keys, \A i \in 1..N : key[i] # k, key[main[k]] = NoKey
    PROVE  Chained(N, [key EXCEPT ![main[k]] = k], next, main)
<1> DEFINE mp == main[k]
           key2 == [key EXCEPT ![mp] = k]
<1>1. /\ N \in Nat /\ key \in [1..N -> Keys \cup {NoKey}] /\ next \in [1..N -> 0..N]
      /\ main \in [Keys -> 1..N] /\ mp \in 1..N /\ k # NoKey /\ key[mp] = NoKey
  BY Sizes DEF Chained
<1> HIDE DEF mp
<1>2. /\ key2 \in [1..N -> Keys \cup {NoKey}] /\ key2[mp] = k
      /\ \A i \in 1..N : i # mp => key2[i] = key[i]
  BY <1>1
<1> HIDE DEF key2
<1>3. \A i \in 1..N : Has(i, key) => i # mp
  BY <1>1 DEF Has
<1>4. Links(N, key2, next, main)
  <2>1. ASSUME NEW i \in 1..N, next[i] # Nil
        PROVE  /\ Has(i, key) /\ Has(next[i], key) /\ next[i] \in 1..N
               /\ main[key[next[i]]] = main[key[i]] /\ next[i] # main[key[i]]
    BY <1>1, <2>1 DEF Chained, Links
  <2> QED  BY <1>1, <1>2, <1>3, <2>1 DEF Links, Has
<1>5. OneBefore(N, next) /\ Ranked(N, next)
  BY DEF Chained
<1>6. SomeBefore(N, key2, next, main)
  <2>1. main[key2[mp]] = mp
    BY <1>2 DEF mp
  <2> QED  BY <1>2, <2>1 DEF Chained, SomeBefore, Has
<1>7. Headed(N, key2, main)
  <2>1. main[key2[mp]] = mp /\ Has(mp, key2)
    BY <1>1, <1>2 DEF mp, Has
  <2>2. ASSUME NEW j \in 1..N, j # mp, Has(j, key2)
        PROVE  Has(main[key2[j]], key2) /\ main[key2[main[key2[j]]]] = main[key2[j]]
    <3>1. Has(j, key) /\ key2[j] = key[j] /\ key[j] \in Keys
      BY <1>1, <1>2, <2>2 DEF Has
    <3>2. /\ main[key[j]] \in 1..N /\ Has(main[key[j]], key)
          /\ main[key[main[key[j]]]] = main[key[j]]
      BY <1>1, <3>1 DEF Chained, Headed
    <3> QED  BY <1>2, <1>3, <3>1, <3>2 DEF Has
  <2> QED  BY <2>1, <2>2 DEF Headed
<1>8. Distinct(N, key2)
  BY <1>2 DEF Chained, Distinct, Has
<1> QED  BY <1>1, <1>2, <1>4, <1>5, <1>6, <1>7, <1>8 DEF Chained, mp, key2

(* In the free node, after the key that is in its main node by right.      *)
LEMMA PutAfter ==
    ASSUME NEW N, NEW key, NEW next, NEW main, Chained(N, key, next, main),
           NEW k \in Keys, \A i \in 1..N : key[i] # k,
           NEW n \in 1..N, key[n] = NoKey, key[main[k]] # NoKey, main[key[main[k]]] = main[k]
    PROVE  Chained(N, [key EXCEPT ![n] = k],
                   [next EXCEPT ![n] = next[main[k]], ![main[k]] = n], main)
<1> DEFINE mp == main[k]
           key2 == [key EXCEPT ![n] = k]
           next2 == [next EXCEPT ![n] = next[mp], ![mp] = n]
<1>1. /\ N \in Nat /\ key \in [1..N -> Keys \cup {NoKey}] /\ next \in [1..N -> 0..N]
      /\ main \in [Keys -> 1..N] /\ mp \in 1..N /\ k # NoKey
      /\ key[mp] # NoKey /\ main[key[mp]] = mp /\ n # mp
  BY Sizes DEF Chained
<1> HIDE DEF mp
<1>2. /\ key2 \in [1..N -> Keys \cup {NoKey}] /\ key2[n] = k
      /\ \A i \in 1..N : i # n => key2[i] = key[i]
  BY <1>1
<1>3. /\ next2 \in [1..N -> 0..N] /\ next2[n] = next[mp] /\ next2[mp] = n
      /\ \A i \in 1..N : i # n /\ i # mp => next2[i] = next[i]
  BY <1>1
<1> HIDE DEF key2, next2
<1>4. \A i \in 1..N : Has(i, key) => i # n
  BY DEF Has
<1>5. ASSUME NEW i \in 1..N, next[i] # Nil
      PROVE  /\ Has(i, key) /\ Has(next[i], key) /\ next[i] \in 1..N /\ i # n /\ next[i] # n
             /\ main[key[next[i]]] = main[key[i]] /\ next[i] # main[key[i]]
  <2>1. Links(N, key, next, main)
    BY DEF Chained
  <2>2. /\ Has(i, key) /\ Has(next[i], key)
        /\ main[key[next[i]]] = main[key[i]] /\ next[i] # main[key[i]]
    BY <1>5, <2>1 DEF Links
  <2>3. next[i] \in 1..N
    BY <1>1, <1>5
  <2> QED  BY <1>4, <2>2, <2>3
<1>6. Links(N, key2, next2, main)
  <2>1. ASSUME NEW i \in 1..N, next2[i] # Nil
        PROVE  /\ Has(i, key2) /\ Has(next2[i], key2)
               /\ main[key2[next2[i]]] = main[key2[i]] /\ next2[i] # main[key2[i]]
    <3>1. CASE i = n
      <4>1. next[mp] # Nil /\ next2[i] = next[mp] /\ key2[i] = k
        BY <1>2, <1>3, <2>1, <3>1
      <4>2. key2[next[mp]] = key[next[mp]] /\ main[k] = mp
        BY <1>1, <1>2, <1>5, <4>1 DEF mp
      <4> QED  BY <1>1, <1>5, <4>1, <4>2 DEF Has
    <3>2. CASE i = mp
      <4>1. next2[i] = n /\ key2[i] = key[mp] /\ key2[n] = k /\ main[k] = mp
        BY <1>1, <1>2, <1>3, <3>2 DEF mp
      <4> QED  BY <1>1, <4>1 DEF Has
    <3>3. CASE i # n /\ i # mp
      <4>1. next2[i] = next[i] /\ key2[i] = key[i] /\ next[i] # Nil
        BY <1>2, <1>3, <2>1, <3>3
      <4>2. key2[next[i]] = key[next[i]]
        BY <1>2, <1>5, <4>1
      <4> QED  BY <1>5, <4>1, <4>2 DEF Has
    <3> QED  BY <3>1, <3>2, <3>3
  <2> QED  BY <2>1 DEF Links
<1>7. OneBefore(N, next2)
  <2>1. OneBefore(N, next)
    BY DEF Chained
  <2>2. \A i \in 1..N : next[i] # n
    BY <1>5
  <2>3. ASSUME NEW i \in 1..N, NEW j \in 1..N, next2[i] # Nil, next2[i] = next2[j] PROVE i = j
    <3>1. CASE i = mp \/ j = mp
      BY <1>1, <1>3, <2>2, <2>3, <3>1
    <3>2. CASE i # mp /\ j # mp
      <4> DEFINE p(x) == IF x = n THEN mp ELSE x
      <4>1. /\ p(i) \in 1..N /\ p(j) \in 1..N
            /\ next2[i] = next[p(i)] /\ next2[j] = next[p(j)]
        BY <1>1, <1>3, <3>2
      <4>2. p(i) = p(j)
        <5> HIDE DEF p
        <5> QED  BY <2>1, <2>3, <4>1 DEF OneBefore
      <4> QED  BY <3>2, <4>2
    <3> QED  BY <3>1, <3>2
  <2> QED  BY <2>3 DEF OneBefore
<1>8. SomeBefore(N, key2, next2, main)
  <2>1. ASSUME NEW j \in 1..N, Has(j, key2), main[key2[j]] # j PROVE \E i \in 1..N : next2[i] = j
    <3>1. CASE j = n
      BY <1>1, <1>3, <3>1
    <3>2. CASE j # n
      <4>1. Has(j, key) /\ main[key[j]] # j
        BY <1>2, <2>1, <3>2 DEF Has
      <4>2. PICK i \in 1..N : next[i] = j
        BY <4>1 DEF Chained, SomeBefore
      <4>3. i # n
        BY <1>5, <4>2
      <4>4. CASE i = mp
        BY <1>3, <4>2, <4>4
      <4>5. CASE i # mp
        BY <1>3, <4>2, <4>3, <4>5
      <4> QED  BY <4>4, <4>5
    <3> QED  BY <3>1, <3>2
  <2> QED  BY <2>1 DEF SomeBefore
<1>9. Headed(N, key2, main)
  <2>1. ASSUME NEW j \in 1..N, Has(j, key2)
        PROVE  Has(main[key2[j]], key2) /\ main[key2[main[key2[j]]]] = main[key2[j]]
    <3>1. CASE j = n
      <4>1. main[key2[j]] = mp /\ key2[mp] = key[mp]
        BY <1>1, <1>2, <3>1 DEF mp
      <4> QED  BY <1>1, <4>1 DEF Has
    <3>2. CASE j # n
      <4>1. Has(j, key) /\ key2[j] = key[j] /\ key[j] \in Keys
        BY <1>1, <1>2, <2>1, <3>2 DEF Has
      <4>2. /\ main[key[j]] \in 1..N /\ Has(main[key[j]], key)
            /\ main[key[main[key[j]]]] = main[key[j]]
        BY <1>1, <4>1 DEF Chained, Headed
      <4> QED  BY <1>2, <1>4, <4>1, <4>2 DEF Has
    <3> QED  BY <3>1, <3>2
  <2> QED  BY <2>1 DEF Headed
<1>10. Distinct(N, key2)
  BY <1>2 DEF Chained, Distinct, Has
<1>11. Ranked(N, next2)
  <2>1. PICK r \in [1..N -> Nat] : \A i \in 1..N : next[i] # Nil => r[i] < r[next[i]]
    BY DEF Chained, Ranked
  <2> DEFINE r2 == [i \in 1..N |-> IF i = n THEN 2 * r[mp] + 1 ELSE 2 * r[i]]
  <2>2. /\ r2 \in [1..N -> Nat] /\ r2[n] = 2 * r[mp] + 1
        /\ \A i \in 1..N : i # n => r2[i] = 2 * r[i] /\ r[i] \in Nat
    <3>1. \A i \in 1..N : r[i] \in Nat /\ 2 * r[i] \in Nat
      OBVIOUS
    <3>2. mp \in 1..N
      BY <1>1
    <3>3. r[mp] \in Nat
      BY <2>1, <3>2
    <3>4. 2 * r[mp] + 1 \in Nat
      BY <3>3
    <3> QED  BY <3>1, <3>4
  <2> HIDE DEF r2
  <2>3. ASSUME NEW i \in 1..N, next2[i] # Nil PROVE r2[i] < r2[next2[i]]
    <3>1. CASE i = n
      <4>1. next[mp] # Nil /\ next2[i] = next[mp] /\ next[mp] \in 1..N /\ next[mp] # n
        BY <1>1, <1>3, <1>5, <2>3, <3>1
      <4>2. r[mp] < r[next[mp]] /\ r[mp] \in Nat /\ r[next[mp]] \in Nat
        BY <1>1, <2>1, <4>1
      <4>3. r2[next[mp]] = 2 * r[next[mp]]
        BY <2>2, <4>1
      <4> QED  BY <2>2, <3>1, <4>1, <4>2, <4>3
    <3>2. CASE i = mp
      <4>1. next2[i] = n /\ r2[mp] = 2 * r[mp] /\ r[mp] \in Nat
        BY <1>1, <1>3, <2>2, <3>2
      <4> QED  BY <2>2, <3>2, <4>1
    <3>3. CASE i # n /\ i # mp
      <4>1. next2[i] = next[i] /\ next[i] # Nil
        BY <1>3, <2>3, <3>3
      <4>2. next[i] \in 1..N /\ next[i] # n
        BY <1>5, <4>1
      <4>3. r[i] < r[next[i]]
        BY <2>1, <4>1
      <4> QED  BY <2>2, <3>3, <4>1, <4>2, <4>3
    <3> QED  BY <3>1, <3>2, <3>3
  <2> QED  BY <2>2, <2>3 DEF Ranked
<1> QED  BY <1>1, <1>2, <1>3, <1>6, <1>7, <1>8, <1>9, <1>10, <1>11 DEF Chained, mp, key2, next2

(* In its main node, when the key that is in it belongs elsewhere: that    *)
(* one moves to the free node, and what led to it leads there.             *)
LEMMA PutInstead ==
    ASSUME NEW N, NEW key, NEW next, NEW main, Chained(N, key, next, main),
           NEW k \in Keys, \A i \in 1..N : key[i] # k,
           NEW n \in 1..N, key[n] = NoKey, key[main[k]] # NoKey,
           main[key[main[k]]] # main[k],
           NEW before \in 1..N, next[before] = main[k]
    PROVE  Chained(N, [key EXCEPT ![n] = key[main[k]], ![main[k]] = k],
                   [next EXCEPT ![before] = n, ![n] = next[main[k]], ![main[k]] = Nil], main)
<1> DEFINE mp == main[k]
           key2 == [key EXCEPT ![n] = key[mp], ![mp] = k]
           next2 == [next EXCEPT ![before] = n, ![n] = next[mp], ![mp] = Nil]
<1>1. /\ N \in Nat /\ key \in [1..N -> Keys \cup {NoKey}] /\ next \in [1..N -> 0..N]
      /\ main \in [Keys -> 1..N] /\ mp \in 1..N /\ k # NoKey
      /\ key[mp] # NoKey /\ main[key[mp]] # mp /\ n # mp
      /\ next[before] = mp /\ key[mp] \in Keys
  BY Sizes DEF Chained
<1> HIDE DEF mp
<1>4. \A i \in 1..N : Has(i, key) => i # n
  BY DEF Has
<1>5. ASSUME NEW i \in 1..N, next[i] # Nil
      PROVE  /\ Has(i, key) /\ Has(next[i], key) /\ next[i] \in 1..N /\ i # n /\ next[i] # n
             /\ main[key[next[i]]] = main[key[i]] /\ next[i] # main[key[i]]
  <2>1. /\ Has(i, key) /\ Has(next[i], key)
        /\ main[key[next[i]]] = main[key[i]] /\ next[i] # main[key[i]]
    <3>1. Links(N, key, next, main)
      BY DEF Chained
    <3> QED  BY <1>5, <3>1 DEF Links
  <2>2. next[i] \in 1..N
    BY <1>1, <1>5
  <2> QED  BY <1>4, <2>1, <2>2
<1>0. PICK r \in [1..N -> Nat] : \A i \in 1..N : next[i] # Nil => r[i] < r[next[i]]
  BY DEF Chained, Ranked
<1>a. ASSUME NEW i \in 1..N, next[i] # Nil PROVE next[i] # i
  <2>1. r[i] < r[next[i]] /\ r[i] \in Nat
    BY <1>0, <1>a
  <2> QED  BY <2>1
<1>b. before # mp /\ before # n /\ mp # Nil
  <2>1. mp # Nil /\ next[before] # Nil
    BY <1>1
  <2> QED  BY <1>1, <1>5, <1>a, <2>1
<1>2. /\ key2 \in [1..N -> Keys \cup {NoKey}] /\ key2[n] = key[mp] /\ key2[mp] = k
      /\ \A i \in 1..N : i # n /\ i # mp => key2[i] = key[i]
  BY <1>1
<1>3. /\ next2 \in [1..N -> 0..N]
      /\ next2[before] = n /\ next2[n] = next[mp] /\ next2[mp] = Nil
      /\ \A i \in 1..N : i # n /\ i # mp /\ i # before => next2[i] = next[i]
  <2> DEFINE f1 == [next EXCEPT ![before] = n]
             f2 == [f1 EXCEPT ![n] = next[mp]]
  <2>1. /\ f1 \in [1..N -> 0..N] /\ f1[before] = n
        /\ \A i \in 1..N : i # before => f1[i] = next[i]
    <3>1. N \in Nat /\ next \in [1..N -> 0..N]
      BY <1>1
    <3>2. n \in 0..N
      BY <3>1
    <3> QED  BY <3>1, <3>2
  <2>2. next2 = [f2 EXCEPT ![mp] = Nil]
    OBVIOUS
  <2> HIDE DEF f1, next2
  <2>3. next[mp] \in 0..N /\ Nil \in 0..N
    BY <1>1
  <2>4. /\ f2 \in [1..N -> 0..N] /\ f2[n] = next[mp]
        /\ \A i \in 1..N : i # n => f2[i] = f1[i]
    BY <2>1, <2>3
  <2> HIDE DEF f2
  <2>5. /\ next2 \in [1..N -> 0..N] /\ next2[mp] = Nil
        /\ \A i \in 1..N : i # mp => next2[i] = f2[i]
    BY <1>1, <2>2, <2>3, <2>4
  <2>6. next2[before] = n /\ next2[n] = next[mp]
    BY <1>1, <1>b, <2>1, <2>4, <2>5
  <2>7. ASSUME NEW i \in 1..N, i # n, i # mp, i # before PROVE next2[i] = next[i]
    BY <2>1, <2>4, <2>5, <2>7
  <2> QED  BY <2>5, <2>6, <2>7
<1> HIDE DEF key2, next2
<1>c. ASSUME NEW j \in 1..N, Has(j, key)
      PROVE  /\ main[key[j]] \in 1..N /\ main[key[j]] # n /\ main[key[j]] # mp
             /\ Has(main[key[j]], key) /\ main[key[main[key[j]]]] = main[key[j]]
  <2>1. key[j] \in Keys
    BY <1>1, <1>c DEF Has
  <2>2. /\ main[key[j]] \in 1..N /\ Has(main[key[j]], key)
        /\ main[key[main[key[j]]]] = main[key[j]]
    BY <1>1, <1>c, <2>1 DEF Chained, Headed
  <2> QED  BY <1>1, <1>4, <2>2
<1>d. OneBefore(N, next)
  BY DEF Chained
<1>6. Links(N, key2, next2, main)
  <2>1. ASSUME NEW i \in 1..N, next2[i] # Nil
        PROVE  /\ Has(i, key2) /\ Has(next2[i], key2)
               /\ main[key2[next2[i]]] = main[key2[i]] /\ next2[i] # main[key2[i]]
    <3>1. CASE i = n
      <4>1. next[mp] # Nil /\ next2[i] = next[mp] /\ key2[i] = key[mp]
        BY <1>2, <1>3, <2>1, <3>1
      <4>2. key2[next[mp]] = key[next[mp]]
        BY <1>1, <1>2, <1>5, <1>a, <4>1
      <4> QED  BY <1>1, <1>5, <4>1, <4>2 DEF Has
    <3>2. CASE i = before
      <4>1. next2[i] = n /\ key2[i] = key[before] /\ key2[n] = key[mp]
        BY <1>2, <1>3, <1>b, <3>2
      <4>2. Has(before, key) /\ main[key[mp]] = main[key[before]]
        BY <1>1, <1>5, <1>b
      <4>3. n # main[key[before]]
        BY <1>c, <4>2
      <4> QED  BY <1>1, <4>1, <4>2, <4>3 DEF Has
    <3>3. CASE i # n /\ i # before
      <4>1. i # mp /\ next2[i] = next[i] /\ key2[i] = key[i] /\ next[i] # Nil
        BY <1>2, <1>3, <2>1, <3>3
      <4>2. next[i] # mp
        BY <1>1, <1>b, <1>d, <3>3 DEF OneBefore
      <4>3. key2[next[i]] = key[next[i]]
        BY <1>2, <1>5, <4>1, <4>2
      <4> QED  BY <1>5, <4>1, <4>3 DEF Has
    <3> QED  BY <3>1, <3>2, <3>3
  <2> QED  BY <2>1 DEF Links
<1>7. OneBefore(N, next2)
  <2>1. \A i \in 1..N : next[i] # n
    BY <1>1, <1>5
  <2>2. ASSUME NEW i \in 1..N, NEW j \in 1..N, next2[i] # Nil, next2[i] = next2[j] PROVE i = j
    <3>1. i # mp /\ j # mp
      BY <1>3, <2>2
    <3>2. CASE i = before \/ j = before
      <4>1. \A x \in 1..N : x # mp /\ next2[x] = n => x = before
        BY <1>1, <1>3, <2>1
      <4>2. next2[i] = n /\ next2[j] = n
        BY <1>3, <2>2, <3>2
      <4> QED  BY <3>1, <4>1, <4>2
    <3>3. CASE i # before /\ j # before
      <4> DEFINE p(x) == IF x = n THEN mp ELSE x
      <4>1. /\ p(i) \in 1..N /\ p(j) \in 1..N
            /\ next2[i] = next[p(i)] /\ next2[j] = next[p(j)]
        BY <1>1, <1>3, <3>1, <3>3
      <4>2. p(i) = p(j)
        <5> HIDE DEF p
        <5> QED  BY <1>d, <2>2, <4>1 DEF OneBefore
      <4> QED  BY <3>1, <4>2
    <3> QED  BY <3>2, <3>3
  <2> QED  BY <2>2 DEF OneBefore
<1>8. SomeBefore(N, key2, next2, main)
  <2>1. ASSUME NEW j \in 1..N, Has(j, key2), main[key2[j]] # j PROVE \E i \in 1..N : next2[i] = j
    <3>1. CASE j = n
      BY <1>3, <3>1
    <3>2. CASE j # n
      <4>0. j # mp
        BY <1>2, <2>1 DEF mp
      <4>1. Has(j, key) /\ main[key[j]] # j
        BY <1>2, <2>1, <3>2, <4>0 DEF Has
      <4>2. PICK i \in 1..N : next[i] = j
        BY <4>1 DEF Chained, SomeBefore
      <4>a. next[i] # Nil
        BY <4>2
      <4>3. i # n /\ i # before
        BY <1>1, <1>5, <4>0, <4>2, <4>a
      <4>4. CASE i = mp
        BY <1>3, <4>2, <4>4
      <4>5. CASE i # mp
        BY <1>3, <4>2, <4>3, <4>5
      <4> QED  BY <4>4, <4>5
    <3> QED  BY <3>1, <3>2
  <2> QED  BY <2>1 DEF SomeBefore
<1>9. Headed(N, key2, main)
  <2>1. ASSUME NEW j \in 1..N, Has(j, key2)
        PROVE  Has(main[key2[j]], key2) /\ main[key2[main[key2[j]]]] = main[key2[j]]
    <3>1. CASE j = n
      <4>1. Has(mp, key) /\ key2[j] = key[mp]
        BY <1>1, <1>2, <3>1 DEF Has
      <4> DEFINE m == main[key[mp]]
      <4>2. m \in 1..N /\ m # n /\ m # mp /\ Has(m, key) /\ main[key[m]] = m
        BY <1>1, <1>c, <4>1
      <4> HIDE DEF m
      <4>3. key2[m] = key[m]
        BY <1>2, <4>2
      <4> QED  BY <4>1, <4>2, <4>3 DEF Has, m
    <3>2. CASE j = mp
      <4>1. key2[j] = k /\ main[k] = mp
        BY <1>2, <3>2 DEF mp
      <4> QED  BY <1>1, <1>2, <4>1 DEF Has
    <3>3. CASE j # n /\ j # mp
      <4>1. Has(j, key) /\ key2[j] = key[j]
        BY <1>2, <2>1, <3>3 DEF Has
      <4> QED  BY <1>2, <1>c, <4>1 DEF Has
    <3> QED  BY <3>1, <3>2, <3>3
  <2> QED  BY <2>1 DEF Headed
<1>10. Distinct(N, key2)
  <2>1. Distinct(N, key)
    BY DEF Chained
  <2> DEFINE p(x) == IF x = n THEN mp ELSE x
  <2>2. ASSUME NEW i \in 1..N, i # mp
        PROVE  p(i) \in 1..N /\ p(i) # n /\ key2[i] = key[p(i)] /\ key2[i] # k
    <3>1. p(i) \in 1..N /\ p(i) # n
      BY <1>1
    <3>2. key2[i] = key[p(i)]
      BY <1>2, <2>2
    <3> QED  BY <3>1, <3>2
  <2>3. \A i, j \in 1..N : i # mp /\ j # mp /\ p(i) = p(j) => i = j
    OBVIOUS
  <2> HIDE DEF p
  <2>4. ASSUME NEW i \in 1..N, NEW j \in 1..N, Has(i, key2), key2[i] = key2[j] PROVE i = j
    <3>1. CASE i = mp \/ j = mp
      BY <1>2, <2>2, <2>4, <3>1
    <3>2. CASE i # mp /\ j # mp
      <4>a. /\ p(i) \in 1..N /\ p(j) \in 1..N
            /\ Has(p(i), key) /\ key[p(i)] = key[p(j)]
        BY <2>2, <2>4, <3>2 DEF Has
      <4>1. p(i) = p(j)
        BY <2>1, <4>a DEF Distinct
      <4> QED  BY <2>3, <3>2, <4>1
    <3> QED  BY <3>1, <3>2
  <2> QED  BY <2>4 DEF Distinct
<1>11. Ranked(N, next2)
  <2> DEFINE r2 == [i \in 1..N |-> IF i = n THEN r[mp] ELSE r[i]]
  <2>2. /\ r2 \in [1..N -> Nat] /\ r2[n] = r[mp] /\ \A i \in 1..N : i # n => r2[i] = r[i]
    BY <1>0, <1>1
  <2> HIDE DEF r2
  <2>3. ASSUME NEW i \in 1..N, next2[i] # Nil PROVE r2[i] < r2[next2[i]]
    <3>1. CASE i = n
      <4>1. next[mp] # Nil /\ next2[i] = next[mp] /\ next[mp] \in 1..N /\ next[mp] # n
        BY <1>1, <1>3, <1>5, <2>3, <3>1
      <4>2. r[mp] < r[next[mp]] /\ r2[next[mp]] = r[next[mp]]
        BY <1>0, <1>1, <2>2, <4>1
      <4> QED  BY <2>2, <3>1, <4>1, <4>2
    <3>2. CASE i = before
      <4>1. next2[i] = n /\ r2[before] = r[before] /\ r[before] < r[mp]
        BY <1>0, <1>1, <1>3, <1>b, <2>2, <3>2
      <4> QED  BY <2>2, <3>2, <4>1
    <3>3. CASE i # n /\ i # before
      <4>1. next2[i] = next[i] /\ next[i] # Nil
        BY <1>3, <2>3, <3>3
      <4>2. next[i] \in 1..N /\ next[i] # n
        BY <1>5, <4>1
      <4> QED  BY <1>0, <2>2, <3>3, <4>1, <4>2
    <3> QED  BY <3>1, <3>2, <3>3
  <2> QED  BY <2>2, <2>3 DEF Ranked
<1> QED  BY <1>1, <1>2, <1>3, <1>6, <1>7, <1>8, <1>9, <1>10, <1>11 DEF Chained, mp, key2, next2

-----------------------------------------------------------------------------
(* What a table is like between its operations: every node above the free  *)
(* pointer has a key, a key below it is in its main node, and when there   *)
(* is a key at it no node is free.                                         *)
FreeLeft(T) ==
    /\ \A i \in 1..T.size : i > T.free => T.node[i].key # NoKey
    /\ \A i \in 1..T.size :
          i < T.free /\ T.node[i].key # NoKey => MainKey(T, T.node[i].key) = i
    /\ T.node[T.free].key # NoKey => \A i \in 1..T.size : T.node[i].key # NoKey
Sound(T) == Linked(T) /\ FreeLeft(T)

(* U has what T has, and k in node a.                                      *)
Takes(T, U, k, a) ==
    /\ U.size = T.size /\ a \in 1..T.size /\ U.node[a].key = k
    /\ \A i \in 1..T.size : T.node[i].key # NoKey =>
          \E j \in 1..T.size : /\ U.node[j].key = T.node[i].key
                               /\ U.node[j].val = T.node[i].val
    /\ \A j \in 1..T.size : U.node[j].key # NoKey =>
          \/ U.node[j].key = k
          \/ \E i \in 1..T.size : T.node[i].key = U.node[j].key

(* A table whose nodes are others.                                         *)
Renewed(T, f) == [T EXCEPT !.node = f]

(* It has the keys and the chains that they say.                           *)
LEMMA RenewedIs ==
    ASSUME NEW T, Typed(T), NEW f \in [1..T.size -> NodeType(T.size)]
    PROVE  LET U == Renewed(T, f)
           IN  /\ Typed(U) /\ U.size = T.size /\ U.free = T.free /\ U.node = f
               /\ MainOf(U) = MainOf(T) /\ \A k : MainKey(U, k) = MainKey(T, k)
               /\ KeyOf(U) = [i \in 1..T.size |-> f[i].key]
               /\ NextOf(U) = [i \in 1..T.size |-> f[i].next]
<1> DEFINE U == Renewed(T, f)
<1>1. U.size = T.size /\ U.free = T.free /\ U.node = f
  BY DEF Renewed, Typed
<1>2. U \in [size : Nat, free : Nat, node : [1..T.size -> NodeType(T.size)]]
  BY DEF Renewed, Typed
<1> HIDE DEF U
<1>3. Typed(U)
  BY <1>1, <1>2 DEF Typed
<1>4. \A k : MainKey(U, k) = MainKey(T, k)
  BY <1>1 DEF MainKey
<1>5. MainOf(U) = MainOf(T)
  BY <1>4 DEF MainOf
<1> QED  BY <1>1, <1>3, <1>4, <1>5 DEF U, KeyOf, NextOf

(* What Place leaves: the chains are right, the key is in its node, what   *)
(* the table had it has, and above and below the free pointer it is as     *)
(* before.                                                                 *)
Placed(T, k, f, a) ==
    LET U == Renewed(T, f)
    IN  /\ Linked(U) /\ Takes(T, U, k, a)
        /\ \A i \in 1..T.size : T.node[i].key # NoKey => f[i].key # NoKey
        /\ \A i \in 1..T.size :
              i < T.free /\ f[i].key # NoKey => MainKey(T, f[i].key) = i

(* In the free main node.                                                  *)
LEMMA PlaceMain ==
    ASSUME NEW T, Sound(T), NEW k \in Keys, k \notin KeysOf(T),
           T.node[MainKey(T, k)].key = NoKey
    PROVE  Placed(T, k, [T.node EXCEPT ![MainKey(T, k)].key = k], MainKey(T, k))
<1> DEFINE N == T.size
           mp == MainKey(T, k)
           f == [T.node EXCEPT ![mp].key = k]
           U == Renewed(T, f)
<1>1. /\ N \in Nat /\ mp \in 1..N /\ T.node \in [1..N -> NodeType(N)] /\ Typed(T)
      /\ MainOf(T)[k] = mp
  BY ViewsTyped DEF Sound, Linked, MainOf
<1>2. /\ Chained(N, KeyOf(T), NextOf(T), MainOf(T))
      /\ \A i \in 1..N : /\ T.node[i].key = NoKey => T.node[i] = FreeNode
                         /\ KeyOf(T)[i] = T.node[i].key /\ NextOf(T)[i] = T.node[i].next
                         /\ T.node[i].key # k
  BY DEF Sound, Linked, Blank, KeyOf, NextOf, KeysOf
<1>3. k # NoKey
  BY Sizes
<1> HIDE DEF mp, N
<1>4. /\ f \in [1..N -> NodeType(N)]
      /\ f[mp] = [T.node[mp] EXCEPT !.key = k]
      /\ \A i \in 1..N : i # mp => f[i] = T.node[i]
  BY <1>1 DEF NodeType
<1> HIDE DEF f
<1>5. f[mp].key = k /\ f[mp].next = T.node[mp].next /\ f[mp].val = T.node[mp].val
  BY <1>1, <1>4 DEF NodeType
<1>6. /\ Typed(U) /\ U.size = N /\ U.free = T.free /\ U.node = f
      /\ MainOf(U) = MainOf(T)
      /\ KeyOf(U) = [i \in 1..N |-> f[i].key] /\ NextOf(U) = [i \in 1..N |-> f[i].next]
  BY <1>1, <1>4, RenewedIs DEF N
<1> HIDE DEF U
<1>7. KeyOf(U) = [KeyOf(T) EXCEPT ![mp] = k]
  BY <1>2, <1>4, <1>5, <1>6 DEF KeyOf, N
<1>8. NextOf(U) = NextOf(T)
  BY <1>2, <1>4, <1>5, <1>6 DEF NextOf, N
<1>9. KeyOf(T)[mp] = NoKey /\ \A i \in 1..N : KeyOf(T)[i] # k
  BY <1>1, <1>2 DEF mp
<1>10. Chained(N, KeyOf(U), NextOf(U), MainOf(U))
  <2>1. Chained(N, [KeyOf(T) EXCEPT ![MainOf(T)[k]] = k], NextOf(T), MainOf(T))
    BY <1>1, <1>2, <1>9, PutMain
  <2> QED  BY <1>1, <1>6, <1>7, <1>8, <2>1
<1>11. Blank(U)
  <2>1. ASSUME NEW i \in 1..N, f[i].key = NoKey PROVE f[i] = FreeNode
    <3>1. i # mp
      BY <1>3, <1>5, <2>1
    <3> QED  BY <1>2, <1>4, <2>1, <3>1
  <2> QED  BY <1>6, <2>1 DEF Blank
<1>12. Linked(U)
  BY <1>6, <1>10, <1>11 DEF Linked
<1>13. Takes(T, U, k, mp)
  <2>1. ASSUME NEW i \in 1..N, T.node[i].key # NoKey
        PROVE  U.node[i].key = T.node[i].key /\ U.node[i].val = T.node[i].val
    BY <1>2, <1>4, <1>6, <1>9, <2>1
  <2>2. ASSUME NEW i \in 1..N, U.node[i].key # NoKey
        PROVE  U.node[i].key = k \/ U.node[i].key = T.node[i].key
    BY <1>4, <1>5, <1>6
  <2> QED  BY <1>1, <1>5, <1>6, <2>1, <2>2 DEF Takes, N
<1>14. \A i \in 1..N : T.node[i].key # NoKey => f[i].key # NoKey
  BY <1>3, <1>4, <1>5
<1>15. \A i \in 1..N : i < T.free /\ f[i].key # NoKey => MainKey(T, f[i].key) = i
  BY <1>4, <1>5 DEF Sound, FreeLeft, N, mp
<1> QED  BY <1>12, <1>13, <1>14, <1>15 DEF Placed, N, U, mp, f

(* In the free node, behind the key in its main node.                      *)
LEMMA PlaceAfter ==
    ASSUME NEW T, Sound(T), ~Full(T), NEW k \in Keys, k \notin KeysOf(T),
           T.node[MainKey(T, k)].key # NoKey,
           MainKey(T, T.node[MainKey(T, k)].key) = MainKey(T, k)
    PROVE  LET mp == MainKey(T, k)
           IN  Placed(T, k, [T.node EXCEPT ![T.free].next = T.node[mp].next,
                                           ![mp].next = T.free, ![T.free].key = k], T.free)
<1> DEFINE N == T.size
           n == T.free
           mp == MainKey(T, k)
           f == [T.node EXCEPT ![n].next = T.node[mp].next, ![mp].next = n, ![n].key = k]
           U == Renewed(T, f)
<1>1. /\ N \in Nat /\ n \in 1..N /\ mp \in 1..N /\ T.node \in [1..N -> NodeType(N)]
      /\ Typed(T) /\ MainOf(T)[k] = mp /\ \A j \in Keys : MainOf(T)[j] = MainKey(T, j)
  BY ViewsTyped DEF Sound, Linked, MainOf
<1>2. /\ Chained(N, KeyOf(T), NextOf(T), MainOf(T))
      /\ \A i \in 1..N : /\ T.node[i].key = NoKey => T.node[i] = FreeNode
                         /\ KeyOf(T)[i] = T.node[i].key /\ NextOf(T)[i] = T.node[i].next
                         /\ T.node[i].key # k
  BY DEF Sound, Linked, Blank, KeyOf, NextOf, KeysOf
<1>3. k # NoKey /\ T.node[n].key = NoKey /\ n # mp /\ T.node[mp].key # NoKey
  BY Sizes DEF Full
<1>4. T.node[mp].key \in Keys /\ MainOf(T)[T.node[mp].key] = mp
  BY <1>1, <1>3 DEF NodeType
<1> HIDE DEF mp, N, n
<1>5. /\ f \in [1..N -> NodeType(N)]
      /\ f[mp] = [T.node[mp] EXCEPT !.next = n]
      /\ f[n] = [T.node[n] EXCEPT !.next = T.node[mp].next, !.key = k]
      /\ \A i \in 1..N : i # mp /\ i # n => f[i] = T.node[i]
  <2>1. T.node[mp].next \in 0..N /\ n \in 0..N
    BY <1>1 DEF NodeType
  <2> DEFINE g == [T.node EXCEPT ![n].next = T.node[mp].next]
             h == [g EXCEPT ![mp].next = n]
  <2>2. /\ g \in [1..N -> NodeType(N)] /\ g[n] = [T.node[n] EXCEPT !.next = T.node[mp].next]
        /\ \A i \in 1..N : i # n => g[i] = T.node[i]
    BY <1>1, <2>1 DEF NodeType
  <2>3. f = [h EXCEPT ![n].key = k]
    OBVIOUS
  <2> HIDE DEF f, g
  <2>4. /\ h \in [1..N -> NodeType(N)] /\ h[mp] = [g[mp] EXCEPT !.next = n]
        /\ \A i \in 1..N : i # mp => h[i] = g[i]
    <3>1. g[mp] \in NodeType(N)
      BY <1>1, <2>2
    <3>2. [g[mp] EXCEPT !.next = n] \in NodeType(N)
      BY <2>1, <3>1 DEF NodeType
    <3> QED  BY <1>1, <2>2, <3>2
  <2> HIDE DEF h
  <2>5. /\ f \in [1..N -> NodeType(N)] /\ f[n] = [h[n] EXCEPT !.key = k]
        /\ \A i \in 1..N : i # n => f[i] = h[i]
    <3>1. h[n] \in NodeType(N)
      BY <1>1, <2>4
    <3>2. [h[n] EXCEPT !.key = k] \in NodeType(N)
      BY <3>1 DEF NodeType
    <3> QED  BY <1>1, <2>3, <2>4, <3>2
  <2>6. f[n] = [T.node[n] EXCEPT !.next = T.node[mp].next, !.key = k]
    BY <1>1, <1>3, <2>2, <2>4, <2>5
  <2>7. f[mp] = [T.node[mp] EXCEPT !.next = n]
    BY <1>1, <1>3, <2>2, <2>4, <2>5
  <2>8. \A i \in 1..N : i # mp /\ i # n => f[i] = T.node[i]
    BY <2>2, <2>4, <2>5
  <2> QED  BY <2>5, <2>6, <2>7, <2>8
<1> HIDE DEF f
<1>6. /\ f[n].key = k /\ f[n].next = T.node[mp].next /\ f[n].val = T.node[n].val
      /\ f[mp].key = T.node[mp].key /\ f[mp].next = n /\ f[mp].val = T.node[mp].val
  BY <1>1, <1>5 DEF NodeType
<1>7. /\ Typed(U) /\ U.size = N /\ U.free = n /\ U.node = f
      /\ MainOf(U) = MainOf(T)
      /\ KeyOf(U) = [i \in 1..N |-> f[i].key] /\ NextOf(U) = [i \in 1..N |-> f[i].next]
  BY <1>1, <1>5, RenewedIs DEF N, n
<1> HIDE DEF U
<1>8. KeyOf(U) = [KeyOf(T) EXCEPT ![n] = k]
  <2> DEFINE g == [KeyOf(T) EXCEPT ![n] = k]
  <2>1. DOMAIN KeyOf(T) = 1..N
    BY DEF KeyOf, N
  <2>2. g = [i \in 1..N |-> g[i]]
    BY <2>1
  <2>3. ASSUME NEW i \in 1..N PROVE g[i] = f[i].key
    <3>1. CASE i = n
      BY <1>6, <2>1, <3>1
    <3>2. CASE i # n
      <4>1. f[i].key = T.node[i].key
        BY <1>5, <1>6, <3>2
      <4> QED  BY <1>2, <2>1, <3>2, <4>1
    <3> QED  BY <3>1, <3>2
  <2> HIDE DEF g
  <2>4. g = [i \in 1..N |-> f[i].key]
    BY <2>2, <2>3
  <2> QED  BY <1>7, <2>4 DEF g
<1>9. NextOf(U) = [NextOf(T) EXCEPT ![n] = NextOf(T)[mp], ![mp] = n]
  <2> DEFINE g == [NextOf(T) EXCEPT ![n] = NextOf(T)[mp], ![mp] = n]
  <2>1. DOMAIN NextOf(T) = 1..N
    BY DEF NextOf, N
  <2>2. g = [i \in 1..N |-> g[i]]
    BY <2>1
  <2>3. ASSUME NEW i \in 1..N PROVE g[i] = f[i].next
    <3>1. CASE i = mp
      BY <1>1, <1>6, <2>1, <3>1
    <3>2. CASE i = n
      BY <1>1, <1>2, <1>3, <1>6, <2>1, <3>2
    <3>3. CASE i # n /\ i # mp
      BY <1>2, <1>5, <2>1, <3>3
    <3> QED  BY <3>1, <3>2, <3>3
  <2> HIDE DEF g
  <2>4. g = [i \in 1..N |-> f[i].next]
    BY <2>2, <2>3
  <2> QED  BY <1>7, <2>4 DEF g
<1>10. /\ KeyOf(T)[n] = NoKey /\ KeyOf(T)[mp] = T.node[mp].key
       /\ \A i \in 1..N : KeyOf(T)[i] # k
  BY <1>1, <1>2, <1>3
<1>11. Chained(N, KeyOf(U), NextOf(U), MainOf(U))
  <2> DEFINE key == KeyOf(T)
             next == NextOf(T)
             main == MainOf(T)
  <2>1. /\ Chained(N, key, next, main) /\ \A i \in 1..N : key[i] # k
        /\ n \in 1..N /\ key[n] = NoKey /\ main[k] = mp
        /\ key[mp] # NoKey /\ main[key[mp]] = mp
    BY <1>1, <1>2, <1>3, <1>4, <1>10
  <2> HIDE DEF key, next, main
  <2>2. Chained(N, [key EXCEPT ![n] = k], [next EXCEPT ![n] = next[main[k]], ![main[k]] = n], main)
    BY <2>1, PutAfter
  <2> QED  BY <1>7, <1>8, <1>9, <2>1, <2>2 DEF key, next, main
<1>12. Blank(U)
  <2>1. ASSUME NEW i \in 1..N, f[i].key = NoKey PROVE f[i] = FreeNode
    <3>1. i # n /\ i # mp
      BY <1>3, <1>6, <2>1
    <3> QED  BY <1>2, <1>5, <2>1, <3>1
  <2> QED  BY <1>7, <2>1 DEF Blank
<1>13. Linked(U)
  BY <1>7, <1>11, <1>12 DEF Linked
<1>14. Takes(T, U, k, n)
  <2>1. ASSUME NEW i \in 1..N, T.node[i].key # NoKey
        PROVE  U.node[i].key = T.node[i].key /\ U.node[i].val = T.node[i].val
    BY <1>3, <1>5, <1>6, <1>7, <2>1
  <2>2. ASSUME NEW i \in 1..N, U.node[i].key # NoKey
        PROVE  U.node[i].key = k \/ U.node[i].key = T.node[i].key
    BY <1>5, <1>6, <1>7
  <2> QED  BY <1>1, <1>6, <1>7, <2>1, <2>2 DEF Takes, N
<1>15. ASSUME NEW i \in 1..N, T.node[i].key # NoKey PROVE f[i].key # NoKey
  <2>1. CASE i = mp
    BY <1>6, <1>15, <2>1
  <2>2. CASE i # mp
    BY <1>3, <1>5, <1>15, <2>2
  <2> QED  BY <2>1, <2>2
<1>16. ASSUME NEW i \in 1..N, i < n, f[i].key # NoKey PROVE MainKey(T, f[i].key) = i
  <2>1. i # n
    BY <1>1, <1>16
  <2>2. f[i].key = T.node[i].key
    BY <1>5, <1>6, <2>1
  <2> QED  BY <1>16, <2>2 DEF Sound, FreeLeft, N, n
<1> QED  BY <1>13, <1>14, <1>15, <1>16 DEF Placed, N, U, n, mp, f

(* What leads to a node whose key is not in its main node is in the chain  *)
(* of that key.                                                            *)
LEMMA BeforeIs ==
    ASSUME NEW T, Linked(T), NEW m \in 1..T.size, T.node[m].key # NoKey,
           MainKey(T, T.node[m].key) # m
    PROVE  LET b == CHOOSE i \in Chain(T, MainKey(T, T.node[m].key)) : T.node[i].next = m
           IN  b \in 1..T.size /\ T.node[b].next = m /\ b # m
<1> DEFINE N == T.size
           key == KeyOf(T)
           next == NextOf(T)
           main == MainOf(T)
           C == Chain(T, MainKey(T, T.node[m].key))
<1>1. /\ Chained(N, key, next, main)
      /\ \A i \in 1..N : key[i] = T.node[i].key /\ next[i] = T.node[i].next
  BY DEF Linked, KeyOf, NextOf
<1>2. \A i \in 1..N : Has(i, key) =>
          key[i] \in Keys /\ main[key[i]] \in 1..N /\ main[key[i]] = MainKey(T, T.node[i].key)
  <2>1. \A i \in 1..N : Has(i, key) => key[i] \in Keys /\ main[key[i]] \in 1..N
    BY <1>1 DEF Chained, Has
  <2> QED  BY <1>1, <2>1 DEF MainOf
<1>3. Has(m, key) /\ main[key[m]] # m /\ main[key[m]] \in 1..N /\ C = Chain(T, main[key[m]])
  BY <1>1, <1>2 DEF Has
<1>4. \A i \in 1..N : T.node[i].key # NoKey => i \in Chain(T, MainKey(T, T.node[i].key))
  BY InItsChain
<1>5. C \subseteq 1..N
  BY <1>3, ChainHas
<1> HIDE DEF key, next, main, N, C
<1>6. PICK i \in 1..N : next[i] = m
  BY <1>1, <1>3 DEF Chained, SomeBefore, N
<1>7. next[i] # Nil
  BY <1>6 DEF N
<1>8. Has(i, key) /\ main[key[i]] = main[key[m]]
  <2>1. Links(N, key, next, main)
    BY <1>1 DEF Chained
  <2> QED  BY <1>6, <1>7, <2>1 DEF Links
<1>9. i \in C /\ T.node[i].next = m
  BY <1>1, <1>2, <1>3, <1>4, <1>6, <1>8 DEF Has
<1> DEFINE b == CHOOSE x \in C : T.node[x].next = m
<1>10. b \in C /\ T.node[b].next = m
  BY <1>9
<1> HIDE DEF b
<1>11. b \in 1..N /\ next[b] = m /\ m # Nil
  BY <1>1, <1>5, <1>10 DEF N
<1>12. b # m
  <2>1. PICK r \in [1..N -> Nat] : \A x \in 1..N : next[x] # Nil => r[x] < r[next[x]]
    BY <1>1 DEF Chained, Ranked
  <2>2. r[b] < r[m] /\ r[b] \in Nat
    BY <1>11, <2>1
  <2> QED  BY <2>2
<1> QED  BY <1>10, <1>11, <1>12 DEF b, C, N

(* In its main node: the key that is there by no right moves.              *)
LEMMA PlaceInstead ==
    ASSUME NEW T, Sound(T), ~Full(T), NEW k \in Keys, k \notin KeysOf(T),
           T.node[MainKey(T, k)].key # NoKey,
           MainKey(T, T.node[MainKey(T, k)].key) # MainKey(T, k),
           NEW before \in 1..T.size, before # MainKey(T, k),
           T.node[before].next = MainKey(T, k)
    PROVE  LET mp == MainKey(T, k)
           IN  Placed(T, k, [T.node EXCEPT ![before].next = T.free, ![T.free] = T.node[mp],
                                           ![mp].next = Nil, ![mp].key = k], mp)
<1> DEFINE N == T.size
           n == T.free
           mp == MainKey(T, k)
           f == [T.node EXCEPT ![before].next = n, ![n] = T.node[mp],
                               ![mp].next = Nil, ![mp].key = k]
           U == Renewed(T, f)
<1>1. /\ N \in Nat /\ n \in 1..N /\ mp \in 1..N /\ T.node \in [1..N -> NodeType(N)]
      /\ Typed(T) /\ MainOf(T)[k] = mp /\ \A j \in Keys : MainOf(T)[j] = MainKey(T, j)
  BY ViewsTyped DEF Sound, Linked, MainOf
<1>2. /\ Chained(N, KeyOf(T), NextOf(T), MainOf(T))
      /\ \A i \in 1..N : /\ T.node[i].key = NoKey => T.node[i] = FreeNode
                         /\ KeyOf(T)[i] = T.node[i].key /\ NextOf(T)[i] = T.node[i].next
                         /\ T.node[i].key # k
  BY DEF Sound, Linked, Blank, KeyOf, NextOf, KeysOf
<1>3. k # NoKey /\ T.node[n].key = NoKey /\ n # mp /\ T.node[mp].key # NoKey
  BY Sizes DEF Full
<1>4. T.node[mp].key \in Keys /\ MainOf(T)[T.node[mp].key] # mp
  BY <1>1, <1>3 DEF NodeType
<1>5. before \in 1..N /\ before # mp /\ T.node[before].next = mp
  OBVIOUS
<1>6. before # n
  BY <1>1, <1>2, <1>3, <1>5 DEF FreeNode
<1> HIDE DEF mp, N, n
<1>7. /\ f \in [1..N -> NodeType(N)]
      /\ f[before] = [T.node[before] EXCEPT !.next = n]
      /\ f[n] = T.node[mp]
      /\ f[mp] = [T.node[mp] EXCEPT !.next = Nil, !.key = k]
      /\ \A i \in 1..N : i # mp /\ i # n /\ i # before => f[i] = T.node[i]
  <2>1. Nil \in 0..N /\ n \in 0..N
    BY <1>1
  <2> DEFINE g == [T.node EXCEPT ![before].next = n]
             h == [g EXCEPT ![n] = T.node[mp]]
             l == [h EXCEPT ![mp].next = Nil]
  <2>2. /\ g \in [1..N -> NodeType(N)] /\ g[before] = [T.node[before] EXCEPT !.next = n]
        /\ \A i \in 1..N : i # before => g[i] = T.node[i]
    <3>1. [T.node[before] EXCEPT !.next = n] \in NodeType(N)
      BY <1>1, <1>5, <2>1 DEF NodeType
    <3> QED  BY <1>1, <1>5, <3>1
  <2>3. f = [l EXCEPT ![mp].key = k]
    OBVIOUS
  <2> HIDE DEF f, g
  <2>4. /\ h \in [1..N -> NodeType(N)] /\ h[n] = T.node[mp]
        /\ \A i \in 1..N : i # n => h[i] = g[i]
    BY <1>1, <2>2
  <2> HIDE DEF h
  <2>5. h[mp] = T.node[mp]
    BY <1>1, <1>3, <1>5, <2>2, <2>4
  <2>6. /\ l \in [1..N -> NodeType(N)] /\ l[mp] = [T.node[mp] EXCEPT !.next = Nil]
        /\ \A i \in 1..N : i # mp => l[i] = h[i]
    <3>1. [T.node[mp] EXCEPT !.next = Nil] \in NodeType(N)
      BY <1>1, <2>1 DEF NodeType
    <3> QED  BY <1>1, <2>4, <2>5, <3>1
  <2> HIDE DEF l
  <2>7. /\ f \in [1..N -> NodeType(N)] /\ f[mp] = [l[mp] EXCEPT !.key = k]
        /\ \A i \in 1..N : i # mp => f[i] = l[i]
    <3>1. l[mp] \in NodeType(N)
      BY <1>1, <2>6
    <3>2. [l[mp] EXCEPT !.key = k] \in NodeType(N)
      BY <3>1 DEF NodeType
    <3> QED  BY <1>1, <2>3, <2>6, <3>2
  <2>8. f[mp] = [T.node[mp] EXCEPT !.next = Nil, !.key = k]
    BY <2>6, <2>7
  <2>9. f[n] = T.node[mp]
    BY <1>1, <1>3, <2>4, <2>6, <2>7
  <2>10. f[before] = [T.node[before] EXCEPT !.next = n]
    BY <1>5, <1>6, <2>2, <2>4, <2>6, <2>7
  <2>11. ASSUME NEW i \in 1..N, i # mp, i # n, i # before PROVE f[i] = T.node[i]
    BY <2>2, <2>4, <2>6, <2>7, <2>11
  <2> QED  BY <2>7, <2>8, <2>9, <2>10, <2>11
<1> HIDE DEF f
<1>8. /\ f[n].key = T.node[mp].key /\ f[n].next = T.node[mp].next /\ f[n].val = T.node[mp].val
      /\ f[mp].key = k /\ f[mp].next = Nil
      /\ f[before].key = T.node[before].key /\ f[before].next = n
      /\ f[before].val = T.node[before].val
  BY <1>1, <1>5, <1>7 DEF NodeType
<1>9. /\ Typed(U) /\ U.size = N /\ U.free = n /\ U.node = f
      /\ MainOf(U) = MainOf(T)
      /\ KeyOf(U) = [i \in 1..N |-> f[i].key] /\ NextOf(U) = [i \in 1..N |-> f[i].next]
  BY <1>1, <1>7, RenewedIs DEF N, n
<1> HIDE DEF U
<1>10. KeyOf(U) = [KeyOf(T) EXCEPT ![n] = KeyOf(T)[mp], ![mp] = k]
  <2> DEFINE g == [KeyOf(T) EXCEPT ![n] = KeyOf(T)[mp], ![mp] = k]
  <2>1. DOMAIN KeyOf(T) = 1..N
    BY DEF KeyOf, N
  <2>2. g = [i \in 1..N |-> g[i]]
    BY <2>1
  <2>3. ASSUME NEW i \in 1..N PROVE g[i] = f[i].key
    <3>1. CASE i = mp
      BY <1>1, <1>8, <2>1, <3>1
    <3>2. CASE i = n
      BY <1>1, <1>2, <1>3, <1>8, <2>1, <3>2
    <3>3. CASE i # n /\ i # mp
      <4>1. f[i].key = T.node[i].key
        BY <1>7, <1>8, <3>3
      <4> QED  BY <1>2, <2>1, <3>3, <4>1
    <3> QED  BY <3>1, <3>2, <3>3
  <2> HIDE DEF g
  <2> QED  BY <1>9, <2>2, <2>3 DEF g
<1>11. NextOf(U) = [NextOf(T) EXCEPT ![before] = n, ![n] = NextOf(T)[mp], ![mp] = Nil]
  <2> DEFINE g == [NextOf(T) EXCEPT ![before] = n, ![n] = NextOf(T)[mp], ![mp] = Nil]
  <2>1. DOMAIN NextOf(T) = 1..N
    BY DEF NextOf, N
  <2>2. g = [i \in 1..N |-> g[i]]
    BY <2>1
  <2>3. ASSUME NEW i \in 1..N PROVE g[i] = f[i].next
    <3>1. CASE i = mp
      BY <1>1, <1>8, <2>1, <3>1
    <3>2. CASE i = n
      BY <1>1, <1>2, <1>3, <1>8, <2>1, <3>2
    <3>3. CASE i = before
      BY <1>5, <1>6, <1>8, <2>1, <3>3
    <3>4. CASE i # n /\ i # mp /\ i # before
      BY <1>2, <1>7, <2>1, <3>4
    <3> QED  BY <3>1, <3>2, <3>3, <3>4
  <2> HIDE DEF g
  <2>4. g = [i \in 1..N |-> f[i].next]
    BY <2>2, <2>3
  <2> QED  BY <1>9, <2>4 DEF g
<1>12. /\ KeyOf(T)[n] = NoKey /\ KeyOf(T)[mp] = T.node[mp].key /\ NextOf(T)[before] = mp
       /\ \A i \in 1..N : KeyOf(T)[i] # k
  BY <1>1, <1>2, <1>3, <1>5
<1>13. Chained(N, KeyOf(U), NextOf(U), MainOf(U))
  <2> DEFINE key == KeyOf(T)
             next == NextOf(T)
             main == MainOf(T)
  <2>1. /\ Chained(N, key, next, main) /\ \A i \in 1..N : key[i] # k
        /\ n \in 1..N /\ key[n] = NoKey /\ main[k] = mp
        /\ key[mp] # NoKey /\ main[key[mp]] # mp /\ before \in 1..N /\ next[before] = mp
    BY <1>1, <1>2, <1>3, <1>4, <1>5, <1>12
  <2> HIDE DEF key, next, main
  <2>2. Chained(N, [key EXCEPT ![n] = key[main[k]], ![main[k]] = k],
                [next EXCEPT ![before] = n, ![n] = next[main[k]], ![main[k]] = Nil], main)
    BY <2>1, PutInstead
  <2> QED  BY <1>9, <1>10, <1>11, <2>1, <2>2 DEF key, next, main
<1>14. Blank(U)
  <2>1. ASSUME NEW i \in 1..N, f[i].key = NoKey PROVE f[i] = FreeNode
    <3>1. i # n /\ i # mp
      BY <1>3, <1>8, <2>1
    <3>2. i # before
      BY <1>2, <1>5, <1>8, <2>1, <1>1 DEF FreeNode
    <3> QED  BY <1>2, <1>7, <2>1, <3>1, <3>2
  <2> QED  BY <1>9, <2>1 DEF Blank
<1>15. Linked(U)
  BY <1>9, <1>13, <1>14 DEF Linked
<1>16. ASSUME NEW i \in 1..N, i # mp, i # n
       PROVE  f[i].key = T.node[i].key /\ f[i].val = T.node[i].val
  BY <1>7, <1>8, <1>16
<1>17. Takes(T, U, k, mp)
  <2>1. ASSUME NEW i \in 1..N, T.node[i].key # NoKey
        PROVE  \E j \in 1..N : f[j].key = T.node[i].key /\ f[j].val = T.node[i].val
    <3>1. CASE i = mp
      BY <1>1, <1>8, <3>1
    <3>2. CASE i # mp
      BY <1>3, <1>16, <2>1, <3>2
    <3> QED  BY <3>1, <3>2
  <2>2. ASSUME NEW i \in 1..N, f[i].key # NoKey
        PROVE  f[i].key = k \/ \E j \in 1..N : T.node[j].key = f[i].key
    <3>1. CASE i = mp
      BY <1>8, <3>1
    <3>2. CASE i = n
      BY <1>1, <1>8, <3>2
    <3>3. CASE i # mp /\ i # n
      BY <1>16, <3>3
    <3> QED  BY <3>1, <3>2, <3>3
  <2> QED  BY <1>1, <1>8, <1>9, <2>1, <2>2 DEF Takes, N
<1>18. ASSUME NEW i \in 1..N, T.node[i].key # NoKey PROVE f[i].key # NoKey
  BY <1>3, <1>8, <1>16, <1>18
<1>19. ASSUME NEW i \in 1..N, i < n, f[i].key # NoKey PROVE MainKey(T, f[i].key) = i
  <2>1. i # n
    BY <1>1, <1>19
  <2>2. CASE i = mp
    BY <1>8, <2>2 DEF mp
  <2>3. CASE i # mp
    BY <1>16, <1>19, <2>1, <2>3 DEF Sound, FreeLeft, N, n
  <2> QED  BY <2>2, <2>3
<1> QED  BY <1>15, <1>17, <1>18, <1>19 DEF Placed, N, U, n, mp, f

(* Whatever Place does.                                                    *)
LEMMA PlaceIs ==
    ASSUME NEW T, Sound(T), ~Full(T), NEW k \in Keys, k \notin KeysOf(T)
    PROVE  Placed(T, k, Place(T, k).node, Place(T, k).at)
<1> DEFINE mp == MainKey(T, k)
           n == T.free
           other == MainKey(T, T.node[mp].key)
           before == CHOOSE i \in Chain(T, other) : T.node[i].next = mp
           p == Place(T, k)
<1>1. mp \in 1..T.size /\ n \in 1..T.size /\ T.size \in Nat
  BY ViewsTyped DEF Sound, Linked, MainOf
<1>2. CASE T.node[mp].key = NoKey
  <2>1. p.at = mp /\ p.node = [T.node EXCEPT ![mp].key = k]
    BY <1>2 DEF Place
  <2> QED  BY <1>2, <2>1, PlaceMain
<1>3. CASE T.node[mp].key # NoKey /\ mp > n /\ other # mp
  <2>1. p.at = mp /\ p.node = [T.node EXCEPT ![before].next = n, ![n] = T.node[mp],
                                             ![mp].next = Nil, ![mp].key = k]
    BY <1>3 DEF Place
  <2>2. before \in 1..T.size /\ T.node[before].next = mp /\ before # mp
    <3>1. Linked(T) /\ mp \in 1..T.size /\ T.node[mp].key # NoKey /\ other # mp
      BY <1>1, <1>3 DEF Sound
    <3> HIDE DEF mp
    <3>2. LET b == CHOOSE i \in Chain(T, MainKey(T, T.node[mp].key)) : T.node[i].next = mp
          IN  b \in 1..T.size /\ T.node[b].next = mp /\ b # mp
      BY <3>1, BeforeIs
    <3> QED  BY <3>2
  <2> HIDE DEF before
  <2>3. Placed(T, k, [T.node EXCEPT ![before].next = n, ![n] = T.node[mp],
                                    ![mp].next = Nil, ![mp].key = k], mp)
    BY <1>3, <2>2, PlaceInstead
  <2> QED  BY <2>1, <2>3
<1>4. CASE T.node[mp].key # NoKey /\ ~(mp > n /\ other # mp)
  <2>1. p.at = n /\ p.node = [T.node EXCEPT ![n].next = T.node[mp].next,
                                            ![mp].next = n, ![n].key = k]
    BY <1>4 DEF Place
  <2>2. other = mp
    <3>1. CASE mp < n
      BY <1>1, <1>4, <3>1 DEF Sound, FreeLeft
    <3>2. mp # n
      BY <1>4 DEF Full
    <3>3. mp < n \/ mp > n
      BY <1>1, <3>2
    <3> QED  BY <1>4, <3>1, <3>3
  <2>3. Placed(T, k, [T.node EXCEPT ![n].next = T.node[mp].next,
                                    ![mp].next = n, ![n].key = k], n)
    BY <1>4, <2>2, PlaceAfter
  <2> QED  BY <2>1, <2>3
<1> QED  BY <1>2, <1>3, <1>4

-----------------------------------------------------------------------------
(* What is looked up.                                                      *)

(* A lookup gives the value that is with the key.                          *)
LEMMA GetIs ==
    ASSUME NEW T, Linked(T), NEW k \in Keys
    PROVE  /\ \A i \in 1..T.size : T.node[i].key = k => Get(T, k) = T.node[i].val
           /\ k \notin KeysOf(T) => Get(T, k) = Null
<1>1. T.size \in Nat
  BY ViewsTyped DEF Linked
<1>2. ASSUME NEW i \in 1..T.size, T.node[i].key = k PROVE Get(T, k) = T.node[i].val
  <2>1. NodeOf(T, k) = i /\ i # Nil
    BY <1>1, <1>2, NodeOfIs
  <2> QED  BY <2>1 DEF Get
<1>3. ASSUME k \notin KeysOf(T) PROVE Get(T, k) = Null
  BY <1>3, NodeOfIs DEF Get
<1> QED  BY <1>2, <1>3

(* A node with a value has the key that the value is under.                *)
LEMMA HeldIs ==
    ASSUME NEW T, Linked(T), NEW i \in 1..T.size, T.node[i].val # Null
    PROVE  /\ T.node[i].key \in Keys /\ T.node[i].key \in KeysOf(T)
           /\ NodeOf(T, T.node[i].key) = i /\ Get(T, T.node[i].key) = T.node[i].val
<1>1. T.node \in [1..T.size -> NodeType(T.size)]
  BY ViewsTyped DEF Linked
<1>2. T.node[i].key # NoKey
  BY DEF Linked, Blank, FreeNode
<1>3. T.node[i].key \in Keys
  BY <1>1, <1>2 DEF NodeType
<1> QED  BY <1>3, NodeOfIs, GetIs DEF KeysOf

(* A key that has a value has a node with it.                              *)
LEMMA PresentIs ==
    ASSUME NEW T, Linked(T), NEW k \in Keys, Get(T, k) # Null
    PROVE  /\ k \in KeysOf(T) /\ NodeOf(T, k) \in 1..T.size /\ NodeOf(T, k) # Nil
           /\ T.node[NodeOf(T, k)].key = k /\ T.node[NodeOf(T, k)].val = Get(T, k)
<1>1. k \in KeysOf(T)
  BY GetIs
<1>2. NodeOf(T, k) \in 1..T.size /\ T.node[NodeOf(T, k)].key = k
  BY <1>1, NodeOfIs
<1> HIDE DEF Nil
<1>3. NodeOf(T, k) # Nil
  BY <1>2 DEF Nil
<1> QED  BY <1>1, <1>2, <1>3, GetIs

(* What is looked up in a table that has taken a key.                      *)
LEMMA TakesIs ==
    ASSUME NEW T, Linked(T), NEW k \in Keys, k \notin KeysOf(T),
           NEW U, Linked(U), NEW a, Takes(T, U, k, a)
    PROVE  /\ KeysOf(U) = KeysOf(T) \cup {k}
           /\ \A j \in Keys \ {k} : Get(U, j) = Get(T, j)
<1>1. ASSUME NEW j \in Keys, j \in KeysOf(T) PROVE j \in KeysOf(U) /\ Get(U, j) = Get(T, j)
  <2>1. PICK i \in 1..T.size : T.node[i].key = j
    BY <1>1 DEF KeysOf
  <2>2. T.node[i].key # NoKey
    BY <2>1, Sizes
  <2>3. PICK l \in 1..U.size : U.node[l].key = j /\ U.node[l].val = T.node[i].val
    BY <2>1, <2>2 DEF Takes
  <2>4. j \in KeysOf(U) /\ Get(U, j) = U.node[l].val /\ Get(T, j) = T.node[i].val
    BY <2>1, <2>3, GetIs DEF KeysOf
  <2> QED  BY <2>3, <2>4
<1>2. ASSUME NEW j \in Keys, j \in KeysOf(U), j # k PROVE j \in KeysOf(T)
  <2>1. PICK l \in 1..U.size : U.node[l].key = j
    BY <1>2 DEF KeysOf
  <2>2. U.node[l].key # NoKey
    BY <2>1, Sizes
  <2> QED  BY <1>2, <2>1, <2>2 DEF Takes, KeysOf
<1>3. k \in KeysOf(U)
  BY DEF Takes, KeysOf
<1>4. KeysOf(U) \subseteq Keys /\ KeysOf(T) \subseteq Keys
  BY DEF KeysOf
<1>5. ASSUME NEW j \in Keys \ {k} PROVE Get(U, j) = Get(T, j)
  <2>1. CASE j \in KeysOf(T)
    BY <1>1, <2>1
  <2>2. CASE j \notin KeysOf(T)
    <3>1. j \notin KeysOf(U)
      BY <1>2, <2>2
    <3> QED  BY <2>2, <3>1, GetIs
  <2> QED  BY <2>1, <2>2
<1> QED  BY <1>1, <1>2, <1>3, <1>4, <1>5

-----------------------------------------------------------------------------
(* The free pointer, the node of a key, and its value.                     *)

(* A table that differs in the free pointer has the same chains.           *)
LEMMA FreedIs ==
    ASSUME NEW T, Linked(T), NEW m \in 1..T.size
    PROVE  LET V == [T EXCEPT !.free = m]
           IN  /\ Linked(V) /\ V.size = T.size /\ V.node = T.node /\ V.free = m
               /\ KeysOf(V) = KeysOf(T) /\ \A k : MainKey(V, k) = MainKey(T, k)
               /\ \A k \in Keys : Get(V, k) = Get(T, k)
<1> DEFINE V == [T EXCEPT !.free = m]
<1>1. Typed(T) /\ T.size \in Nat
  BY ViewsTyped DEF Linked
<1>2. V.size = T.size /\ V.node = T.node /\ V.free = m
  BY <1>1 DEF Typed
<1>3. V \in [size : Nat, free : Nat, node : [1..T.size -> NodeType(T.size)]]
  <2>1. m \in Nat
    BY <1>1
  <2> QED  BY <1>1, <2>1 DEF Typed
<1> HIDE DEF V
<1>4. Typed(V)
  BY <1>1, <1>2, <1>3 DEF Typed
<1>5. \A k : MainKey(V, k) = MainKey(T, k)
  BY <1>2 DEF MainKey
<1>6. KeyOf(V) = KeyOf(T) /\ NextOf(V) = NextOf(T) /\ MainOf(V) = MainOf(T)
  BY <1>2, <1>5 DEF KeyOf, NextOf, MainOf
<1>7. Linked(V)
  BY <1>2, <1>4, <1>6 DEF Linked, Blank
<1>8. KeysOf(V) = KeysOf(T)
  BY <1>2 DEF KeysOf
<1>9. ASSUME NEW k \in Keys PROVE Get(V, k) = Get(T, k)
  <2>1. CASE k \in KeysOf(T)
    <3>1. PICK i \in 1..T.size : T.node[i].key = k
      BY <2>1 DEF KeysOf
    <3> QED  BY <1>2, <1>7, <3>1, GetIs
  <2>2. CASE k \notin KeysOf(T)
    BY <1>7, <1>8, <2>2, GetIs
  <2> QED  BY <2>1, <2>2
<1> QED  BY <1>2, <1>5, <1>7, <1>8, <1>9 DEF V

(* Lowered gives a table what it is like between operations.               *)
LEMMA LoweredIs ==
    ASSUME NEW U, Linked(U),
           \A i \in 1..U.size : i > U.free => U.node[i].key # NoKey,
           \A i \in 1..U.size :
               i < U.free /\ U.node[i].key # NoKey => MainKey(U, U.node[i].key) = i
    PROVE  LET V == Lowered(U)
           IN  /\ Sound(V) /\ V.size = U.size /\ V.node = U.node
               /\ KeysOf(V) = KeysOf(U) /\ \A k \in Keys : Get(V, k) = Get(U, k)
<1> DEFINE below == {i \in 1..U.free : U.node[i].key = NoKey}
           m == IF below = {} THEN 1 ELSE Max(below)
           V == Lowered(U)
<1>1. U.size \in Nat /\ U.free \in 1..U.size
  BY ViewsTyped DEF Linked
<1>2. below \in SUBSET (1..U.free) /\ U.free \in Nat
  BY <1>1
<1>3. V = [U EXCEPT !.free = m]
  BY DEF Lowered
<1>4. below # {} => m \in below /\ \A y \in below : y <= m
  <2> HIDE DEF below
  <2> QED  BY <1>2, MaxIs
<1>5. m \in 1..U.free /\ m \in 1..U.size
  <2>1. CASE below = {}
    BY <1>1, <2>1
  <2>2. CASE below # {}
    <3>1. m \in 1..U.free
      BY <1>2, <1>4, <2>2
    <3> QED  BY <1>1, <3>1
  <2> QED  BY <2>1, <2>2
<1> HIDE DEF V
<1>6. /\ Linked(V) /\ V.size = U.size /\ V.node = U.node /\ V.free = m
      /\ KeysOf(V) = KeysOf(U) /\ \A k : MainKey(V, k) = MainKey(U, k)
      /\ \A k \in Keys : Get(V, k) = Get(U, k)
  <2> HIDE DEF m
  <2> QED  BY <1>3, <1>5, FreedIs
<1>7. ASSUME NEW i \in 1..U.size, U.node[i].key = NoKey PROVE i \in below
  BY <1>1, <1>7
<1>8. ASSUME NEW i \in 1..U.size, i > m PROVE U.node[i].key # NoKey
  <2>1. ASSUME U.node[i].key = NoKey PROVE FALSE
    <3>1. i \in below
      BY <1>7, <2>1
    <3>2. i <= m
      <4> HIDE DEF below, m
      <4> QED  BY <1>4, <3>1
    <3> QED  BY <1>1, <1>5, <1>8, <3>2
  <2> QED  BY <2>1
<1>9. ASSUME NEW i \in 1..U.size, i < m, U.node[i].key # NoKey PROVE MainKey(U, U.node[i].key) = i
  <2>1. i < U.free
    BY <1>1, <1>5, <1>9
  <2> QED  BY <1>9, <2>1
<1>10. ASSUME U.node[m].key # NoKey, NEW i \in 1..U.size PROVE U.node[i].key # NoKey
  <2>1. m \notin below
    BY <1>10
  <2>2. below = {}
    BY <1>4, <2>1
  <2> QED  BY <1>7, <2>2
<1> HIDE DEF below, m
<1> QED  BY <1>6, <1>8, <1>9, <1>10 DEF V, Sound, FreeLeft

(* Slot leaves a sound table with the key in the node it says, and changes *)
(* the value of no other key.                                              *)
LEMMA SlotIs ==
    ASSUME NEW T, Sound(T), ~Full(T), NEW k \in Keys
    PROVE  LET s == Slot(T, k)
           IN  /\ Sound(s.unit) /\ s.unit.size = T.size
               /\ s.at \in 1..T.size /\ s.unit.node[s.at].key = k
               /\ KeysOf(s.unit) = KeysOf(T) \cup {k}
               /\ \A j \in Keys \ {k} : Get(s.unit, j) = Get(T, j)
               /\ k \in KeysOf(T) => s = [at |-> NodeOf(T, k), unit |-> T]
               /\ NodeOf(T, k) = Nil <=> k \notin KeysOf(T)
<1> DEFINE s == Slot(T, k)
           p == Place(T, k)
           U == [T EXCEPT !.node = p.node]
<1>1. Linked(T) /\ T.size \in Nat
  BY ViewsTyped DEF Sound, Linked
<1>2. NodeOf(T, k) = Nil <=> k \notin KeysOf(T)
  BY <1>1, NodeOfIs
<1>3. CASE k \in KeysOf(T)
  <2>1. s = [at |-> NodeOf(T, k), unit |-> T]
    BY <1>2, <1>3 DEF Slot
  <2>2. s.at = NodeOf(T, k) /\ s.unit = T
    BY <2>1
  <2>3. NodeOf(T, k) \in 1..T.size /\ T.node[NodeOf(T, k)].key = k
    BY <1>1, <1>3, NodeOfIs
  <2> HIDE DEF s
  <2> QED  BY <1>2, <1>3, <2>1, <2>2, <2>3 DEF s
<1>4. CASE k \notin KeysOf(T)
  <2>1. s.at = p.at /\ s.unit = Lowered(U)
    BY <1>2, <1>4 DEF Slot
  <2>2. Placed(T, k, p.node, p.at)
    BY <1>4, PlaceIs
  <2>3. Renewed(T, p.node) = U
    BY DEF Renewed
  <2> HIDE DEF U, p, s
  <2>4. Linked(U) /\ Takes(T, U, k, p.at)
    BY <2>2, <2>3 DEF Placed
  <2>5. U.free = T.free /\ U.size = T.size /\ U.node = p.node
    BY <1>1 DEF U, Linked, Typed
  <2>6. \A i \in 1..U.size : i > U.free => U.node[i].key # NoKey
    BY <2>2, <2>5 DEF Placed, Sound, FreeLeft
  <2>7. \A i \in 1..U.size :
            i < U.free /\ U.node[i].key # NoKey => MainKey(U, U.node[i].key) = i
    BY <2>2, <2>5 DEF Placed, MainKey
  <2>8. /\ Sound(s.unit) /\ s.unit.size = U.size /\ s.unit.node = U.node
        /\ KeysOf(s.unit) = KeysOf(U) /\ \A j \in Keys : Get(s.unit, j) = Get(U, j)
    BY <2>1, <2>4, <2>6, <2>7, LoweredIs
  <2>9. KeysOf(U) = KeysOf(T) \cup {k} /\ \A j \in Keys \ {k} : Get(U, j) = Get(T, j)
    BY <1>1, <1>4, <2>4, TakesIs
  <2>10. s.at \in 1..T.size /\ s.unit.node[s.at].key = k
    BY <2>1, <2>4, <2>8 DEF Takes
  <2> QED  BY <1>2, <1>4, <2>5, <2>8, <2>9, <2>10 DEF s
<1> QED  BY <1>3, <1>4

(* Storing a value changes the value of that key only, and no chain.       *)
LEMMA AssignedIs ==
    ASSUME NEW U, Sound(U), NEW a \in 1..U.size, NEW k \in Keys, U.node[a].key = k,
           NEW v \in Values \cup {Null}, NEW s, s.unit = U, s.at = a
    PROVE  LET W == Assigned(s, v)
           IN  /\ Sound(W) /\ W.size = U.size /\ (Full(W) <=> Full(U))
               /\ KeysOf(W) = KeysOf(U) /\ \A i \in 1..U.size : W.node[i].key = U.node[i].key
               /\ W.node[a].val = v /\ \A i \in 1..U.size : i # a => W.node[i] = U.node[i]
               /\ Get(W, k) = v /\ \A j \in Keys \ {k} : Get(W, j) = Get(U, j)
<1> DEFINE N == U.size
           f == [U.node EXCEPT ![a].val = v]
           W == Assigned(s, v)
<1>1. Linked(U) /\ Typed(U) /\ U.node \in [1..N -> NodeType(N)] /\ N \in Nat /\ k # NoKey
      /\ U.free \in 1..N
  BY ViewsTyped, Sizes DEF Sound, Linked
<1>2. W = Renewed(U, f)
  BY <1>1 DEF Assigned, Renewed, Typed
<1>3. a \in 1..N
  OBVIOUS
<1> HIDE DEF N, W
<1>4. /\ f \in [1..N -> NodeType(N)] /\ f[a] = [U.node[a] EXCEPT !.val = v]
      /\ \A i \in 1..N : i # a => f[i] = U.node[i]
  <2>1. U.node[a] \in NodeType(N)
    BY <1>1, <1>3
  <2>2. [U.node[a] EXCEPT !.val = v] \in NodeType(N)
    BY <2>1 DEF NodeType
  <2> QED  BY <1>1, <1>3, <2>2
<1> HIDE DEF f
<1>5. f[a].key = k /\ f[a].next = U.node[a].next /\ f[a].val = v
  BY <1>1, <1>3, <1>4 DEF NodeType
<1>6. /\ Typed(W) /\ W.size = N /\ W.free = U.free /\ W.node = f
      /\ MainOf(W) = MainOf(U) /\ \A j : MainKey(W, j) = MainKey(U, j)
      /\ KeyOf(W) = [i \in 1..N |-> f[i].key] /\ NextOf(W) = [i \in 1..N |-> f[i].next]
  BY <1>1, <1>2, <1>4, RenewedIs DEF N
<1>7. \A i \in 1..N : f[i].key = U.node[i].key /\ f[i].next = U.node[i].next
  BY <1>4, <1>5
<1>8. KeyOf(W) = KeyOf(U) /\ NextOf(W) = NextOf(U)
  BY <1>6, <1>7 DEF KeyOf, NextOf, N
<1>9. Blank(W)
  <2>1. ASSUME NEW i \in 1..N, f[i].key = NoKey PROVE f[i] = FreeNode
    <3>1. i # a
      BY <1>1, <1>5, <2>1
    <3> QED  BY <1>1, <1>4, <2>1, <3>1 DEF Linked, Blank, N
  <2> QED  BY <1>6, <2>1 DEF Blank
<1>10. Linked(W)
  BY <1>1, <1>6, <1>8, <1>9 DEF Linked, N
<1>11. FreeLeft(W)
  <2>1. \A i \in 1..N : W.node[i].key = U.node[i].key
    BY <1>6, <1>7
  <2>2. /\ \A i \in 1..N : i > U.free => U.node[i].key # NoKey
        /\ \A i \in 1..N :
              i < U.free /\ U.node[i].key # NoKey => MainKey(U, U.node[i].key) = i
        /\ U.node[U.free].key # NoKey => \A i \in 1..N : U.node[i].key # NoKey
    BY DEF Sound, FreeLeft, N
  <2>3. ASSUME NEW i \in 1..N, i < W.free, W.node[i].key # NoKey
        PROVE  MainKey(W, W.node[i].key) = i
    BY <1>6, <2>1, <2>2, <2>3
  <2>4. W.node[W.free].key = U.node[U.free].key
    BY <1>1, <1>6, <2>1
  <2> QED  BY <1>6, <2>1, <2>2, <2>3, <2>4 DEF FreeLeft
<1>12. KeysOf(W) = KeysOf(U)
  BY <1>6, <1>7 DEF KeysOf, N
<1>13. Full(W) <=> Full(U)
  BY <1>1, <1>6, <1>7 DEF Full
<1>14. Get(W, k) = v
  BY <1>3, <1>5, <1>6, <1>10, GetIs
<1>15. ASSUME NEW j \in Keys \ {k} PROVE Get(W, j) = Get(U, j)
  <2>1. CASE j \in KeysOf(U)
    <3>1. PICK i \in 1..N : U.node[i].key = j
      BY <2>1 DEF KeysOf, N
    <3>2. i # a
      BY <3>1
    <3>3. W.node[i].key = j /\ W.node[i].val = U.node[i].val
      BY <1>4, <1>6, <3>1, <3>2
    <3> QED  BY <1>1, <1>6, <1>10, <3>1, <3>3, GetIs DEF N
  <2>2. CASE j \notin KeysOf(U)
    BY <1>1, <1>10, <1>12, <2>2, GetIs
  <2> QED  BY <2>1, <2>2
<1>16. Sound(W) /\ W.size = N
  BY <1>6, <1>10, <1>11 DEF Sound
<1>17. W.node[a].val = v
  BY <1>5, <1>6
<1>18. \A i \in 1..N : W.node[i].key = U.node[i].key
  BY <1>6, <1>7
<1>19. \A i \in 1..N : i # a => W.node[i] = U.node[i]
  BY <1>4, <1>6
<1> QED  BY <1>12, <1>13, <1>14, <1>15, <1>16, <1>17, <1>18, <1>19 DEF W, N

-----------------------------------------------------------------------------
(* A rehash.                                                               *)

(* The new vector x after the key of node n, if that one has a value.      *)
MoveOf(T, x, n) ==
    IF T.node[n].val = Null THEN x ELSE Assigned(Slot(x, T.node[n].key), T.node[n].val)

(* Moved starts with an empty vector, and goes from node to node.          *)
LEMMA MovedIs ==
    ASSUME NEW T, T.size \in Nat
    PROVE  /\ Moved(T)[0] = Vector(NewSize(T))
           /\ \A n \in 0..T.size-1 : Moved(T)[n+1] = MoveOf(T, Moved(T)[n], n+1)
<1> DEFINE N == T.size
           W == Vector(NewSize(T))
           Move(x, n) == MoveOf(T, x, n)
           Is(m, g) == g = [n \in 0..m |-> IF n = 0 THEN W ELSE Move(g[n-1], n)]
           S == {m \in 0..N : \E g : Is(m, g)}
<1>1. N \in Nat
  OBVIOUS
<1> HIDE DEF N, W, Move
<1>2. 0 \in S
  <2>1. Is(0, [n \in 0..0 |-> W])
    OBVIOUS
  <2> HIDE DEF Is
  <2> QED  BY <1>1, <2>1
<1>3. ASSUME NEW m \in 0..N-1, m \in S PROVE m + 1 \in S
  <2>1. PICK f : Is(m, f)
    BY <1>3
  <2> DEFINE g == [n \in 0..m+1 |-> IF n = m + 1 THEN Move(f[m], m + 1) ELSE f[n]]
  <2>2. ASSUME NEW n \in 0..m+1 PROVE g[n] = IF n = 0 THEN W ELSE Move(g[n-1], n)
    <3>1. CASE n = m + 1
      <4>1. n # 0 /\ n - 1 = m /\ m \in 0..m+1 /\ m # m + 1
        BY <3>1
      <4>2. g[m] = f[m]
        BY <4>1
      <4> QED  BY <3>1, <4>1, <4>2
    <3>2. CASE n # m + 1
      <4>1. n \in 0..m /\ (n # 0 => n - 1 \in 0..m+1 /\ n - 1 # m + 1)
        BY <3>2
      <4>2. f[n] = IF n = 0 THEN W ELSE Move(f[n-1], n)
        BY <2>1, <4>1
      <4> QED  BY <3>2, <4>1, <4>2
    <3> QED  BY <3>1, <3>2
  <2>3. Is(m + 1, g)
    BY <2>2
  <2>4. m + 1 \in 0..N
    BY <1>1
  <2> HIDE DEF Is, g
  <2> QED  BY <2>3, <2>4
<1>4. N \in S
  <2> HIDE DEF S
  <2>1. 0..N \subseteq S
    BY <1>1, <1>2, <1>3, UpTo
  <2> QED  BY <1>1, <2>1
<1> DEFINE c == CHOOSE g : Is(N, g)
<1>5. Is(N, c)
  <2>1. \E g : Is(N, g)
    BY <1>4
  <2> HIDE DEF Is
  <2> QED  BY <2>1
<1>6. Moved(T) = c
  BY DEF Moved, MoveOf, Move, W, N
<1> HIDE DEF c
<1>7. c[0] = W
  BY <1>1, <1>5
<1>8. ASSUME NEW n \in 0..N-1 PROVE c[n+1] = Move(c[n], n+1)
  <2>1. n + 1 \in 0..N /\ n + 1 # 0 /\ (n + 1) - 1 = n
    BY <1>1
  <2> QED  BY <1>5, <2>1
<1> QED  BY <1>6, <1>7, <1>8 DEF Move, W, N

(* The nodes that have a value, and their number.                          *)
HeldNodes(T) == {i \in 1..T.size : T.node[i].val # Null}

(* The new vector has more nodes than there are nodes with a value in the  *)
(* old one, and one key more.                                              *)
LEMMA HeldCount ==
    ASSUME NEW T, Typed(T)
    PROVE  /\ IsFiniteSet(HeldNodes(T)) /\ Cardinality(HeldNodes(T)) \in 0..T.size
           /\ IsSize(NewSize(T)) /\ NewSize(T) \in Nat
           /\ Cardinality(HeldNodes(T)) + 1 < NewSize(T)
<1> DEFINE used == Cardinality(HeldNodes(T))
           N == T.size
           h == N \div 2
           q == N \div 4
<1>1. N \in Nat /\ N >= 4 /\ IsSize(N) /\ MinSize = 4
  BY ViewsTyped, Sizes DEF Typed
<1>2. IsFiniteSet(1..N) /\ Cardinality(1..N) = N
  BY <1>1, FS_Interval
<1>3. HeldNodes(T) \subseteq 1..N
  BY DEF HeldNodes
<1>4. IsFiniteSet(HeldNodes(T)) /\ used \in Nat /\ used <= N
  BY <1>2, <1>3, FS_Subset, FS_CardinalityType
<1>5. NewSize(T) = IF used >= N - q THEN 2 * N
                   ELSE IF used <= q /\ N > 4 THEN h ELSE N
  BY <1>1 DEF NewSize, HeldNodes
<1>6. q \in Nat /\ q >= 1 /\ 4 * q <= N
  BY <1>1
<1>7. IsSize(2 * N) /\ (N > 4 => IsSize(h) /\ N = 2 * h /\ h \in Nat /\ h >= 4)
  <2>1. IsSize(2 * N) /\ (N > 4 => N >= 8 /\ IsSize(h) /\ N = 2 * h)
    BY <1>1, SizeIs
  <2>2. h \in Nat
    BY <1>1
  <2> HIDE DEF h
  <2> QED  BY <1>1, <2>1, <2>2
<1> HIDE DEF used, N, q, h
<1>8. CASE used >= N - q
  BY <1>1, <1>4, <1>5, <1>7, <1>8 DEF used, N
<1>9. CASE ~(used >= N - q) /\ used <= q /\ N > 4
  <2>1. NewSize(T) = h
    BY <1>5, <1>9
  <2>2. used + 1 < h
    BY <1>4, <1>6, <1>7, <1>9
  <2> QED  BY <1>1, <1>4, <1>7, <1>9, <2>1, <2>2 DEF used, N
<1>10. CASE ~(used >= N - q) /\ ~(used <= q /\ N > 4)
  <2>1. NewSize(T) = N
    BY <1>5, <1>10
  <2>2. used + 1 < N
    BY <1>1, <1>4, <1>6, <1>10
  <2> QED  BY <1>1, <1>4, <2>1, <2>2 DEF used, N
<1> QED  BY <1>8, <1>9, <1>10

(* A table that has fewer keys than nodes is not full.                     *)
LEMMA Room ==
    ASSUME NEW T, Sound(T), IsFiniteSet(KeysOf(T)), Cardinality(KeysOf(T)) < T.size
    PROVE  ~Full(T)
<1> SUFFICES ASSUME Full(T) PROVE FALSE
  OBVIOUS
<1> DEFINE N == T.size
           key == KeyOf(T)
<1>1. N \in Nat /\ key \in [1..N -> Keys \cup {NoKey}] /\ Distinct(N, key)
  BY DEF Sound, Linked, Chained
<1>2. \A i \in 1..N : T.node[i].key # NoKey /\ key[i] = T.node[i].key
  BY DEF Full, Sound, FreeLeft, KeyOf
<1>3. key \in [1..N -> KeysOf(T)]
  BY <1>1, <1>2 DEF KeysOf
<1>4. IsFiniteSet(1..N) /\ Cardinality(1..N) = N
  BY <1>1, FS_Interval
<1> HIDE DEF key
<1>5. IsFiniteSet(KeysOf(T)) /\ Cardinality(KeysOf(T)) < Cardinality(1..N)
  BY <1>4
<1> HIDE DEF N
<1>6. PICK i \in 1..N, j \in 1..N : i # j /\ key[i] = key[j]
  BY <1>3, <1>4, <1>5, FS_PigeonHole
<1> QED  BY <1>1, <1>2, <1>6 DEF Distinct, Has, N

(* An empty vector.                                                        *)
LEMMA VectorIs ==
    ASSUME NEW m, IsSize(m)
    PROVE  Sound(Vector(m)) /\ Vector(m).size = m /\ KeysOf(Vector(m)) = {}
           /\ ~Full(Vector(m)) /\ \A k \in Keys : Get(Vector(m), k) = Null
<1> DEFINE V == Vector(m)
<1>1. V.size = m /\ V.free = m /\ V.node = [i \in 1..m |-> FreeNode]
  BY DEF Vector
<1>2. m \in Nat /\ m >= 4
  BY SizeIs
<1>3. FreeNode \in NodeType(m)
  BY <1>2 DEF FreeNode, NodeType
<1>4. V \in [size : Nat, free : Nat, node : [1..m -> NodeType(m)]]
  BY <1>2, <1>3 DEF Vector
<1>5. \A i \in 1..m : /\ V.node[i].key = NoKey /\ V.node[i] = FreeNode
                      /\ KeyOf(V)[i] = NoKey /\ NextOf(V)[i] = Nil
  BY <1>1 DEF FreeNode, KeyOf, NextOf
<1> HIDE DEF V
<1>6. Typed(V)
  BY <1>1, <1>2, <1>4 DEF Typed
<1>7. /\ KeyOf(V) \in [1..m -> Keys \cup {NoKey}] /\ NextOf(V) \in [1..m -> 0..m]
      /\ MainOf(V) \in [Keys -> 1..m]
  BY <1>1, <1>6, ViewsTyped
<1>8. Ranked(m, NextOf(V))
  <2>1. [i \in 1..m |-> 0] \in [1..m -> Nat]
    OBVIOUS
  <2> QED  BY <1>5, <2>1 DEF Ranked
<1>9. Chained(m, KeyOf(V), NextOf(V), MainOf(V))
  BY <1>2, <1>5, <1>7, <1>8 DEF Chained, Links, OneBefore, SomeBefore, Headed, Distinct, Has
<1>10. Linked(V)
  BY <1>1, <1>5, <1>6, <1>9 DEF Linked, Blank
<1>11. FreeLeft(V) /\ ~Full(V)
  BY <1>1, <1>2, <1>5 DEF FreeLeft, Full
<1>12. KeysOf(V) = {}
  BY <1>1, <1>5, Sizes DEF KeysOf
<1> QED  BY <1>1, <1>10, <1>11, <1>12, GetIs DEF V, Sound

(* The new vector after n nodes of the old one: it has the keys of those   *)
(* that have a value, with their values, and there is room in it.          *)
HeldKeys(T, n) == {k \in Keys : \E i \in 1..n : T.node[i].key = k /\ T.node[i].val # Null}

Stage(T, n) ==
    LET V == Moved(T)[n]
    IN  /\ Sound(V) /\ V.size = NewSize(T) /\ KeysOf(V) = HeldKeys(T, n)
        /\ \A k \in HeldKeys(T, n) : Get(V, k) = Get(T, k)

(* There are no more such keys than nodes with a value ...                 *)
LEMMA HeldKeysCount ==
    ASSUME NEW T, Linked(T), NEW n \in 0..T.size
    PROVE  /\ IsFiniteSet(HeldKeys(T, n))
           /\ Cardinality(HeldKeys(T, n)) <= Cardinality(HeldNodes(T))
<1> DEFINE f == [k \in HeldKeys(T, n) |-> NodeOf(T, k)]
<1>1. T.size \in Nat /\ IsFiniteSet(HeldNodes(T))
  BY HeldCount, ViewsTyped DEF Linked
<1>2. ASSUME NEW k \in HeldKeys(T, n) PROVE NodeOf(T, k) \in HeldNodes(T)
                                            /\ T.node[NodeOf(T, k)].key = k
  <2>1. PICK i \in 1..n : T.node[i].key = k /\ T.node[i].val # Null
    BY DEF HeldKeys
  <2>2. i \in 1..T.size /\ k \in Keys
    BY <1>1 DEF HeldKeys
  <2>3. NodeOf(T, k) = i
    BY <2>1, <2>2, NodeOfIs
  <2> QED  BY <2>1, <2>2, <2>3 DEF HeldNodes
<1>3. f \in Injection(HeldKeys(T, n), HeldNodes(T))
  BY <1>2 DEF Injection, IsInjective
<1> QED  BY <1>1, <1>3, FS_Injection

(* ... so that the new vector is not full, nor with any one key more.      *)
LEMMA StageRoom ==
    ASSUME NEW T, Linked(T), NEW n \in 0..T.size, Stage(T, n)
    PROVE  /\ ~Full(Moved(T)[n]) /\ \A k \in Keys : ~Full(Slot(Moved(T)[n], k).unit)
<1> DEFINE V == Moved(T)[n]
           c == Cardinality(HeldKeys(T, n))
<1>1. /\ Sound(V) /\ V.size = NewSize(T) /\ KeysOf(V) = HeldKeys(T, n)
      /\ IsFiniteSet(HeldKeys(T, n)) /\ c \in Nat
      /\ NewSize(T) \in Nat /\ c + 1 < NewSize(T)
  <2>1. IsFiniteSet(HeldKeys(T, n)) /\ c <= Cardinality(HeldNodes(T))
    BY HeldKeysCount
  <2>2. /\ Cardinality(HeldNodes(T)) \in Nat /\ NewSize(T) \in Nat
        /\ Cardinality(HeldNodes(T)) + 1 < NewSize(T)
    <3>1. T.size \in Nat
      BY ViewsTyped DEF Linked
    <3> QED  BY <3>1, HeldCount DEF Linked
  <2>3. c \in Nat
    BY <2>1, FS_CardinalityType
  <2>4. c + 1 < NewSize(T)
    <3> HIDE DEF c
    <3> QED  BY <2>1, <2>2, <2>3
  <2> QED  BY <2>1, <2>2, <2>3, <2>4 DEF Stage
<1> HIDE DEF V, c
<1>2. ~Full(V)
  BY <1>1, Room DEF c
<1>3. ASSUME NEW k \in Keys PROVE ~Full(Slot(V, k).unit)
  <2> DEFINE U == Slot(V, k).unit
  <2>1. Sound(U) /\ U.size = V.size /\ KeysOf(U) = KeysOf(V) \cup {k}
    BY <1>1, <1>2, SlotIs
  <2> HIDE DEF U
  <2>2. IsFiniteSet(KeysOf(U)) /\ Cardinality(KeysOf(U)) <= c + 1
    <3>1. CASE k \in KeysOf(V)
      <4>1. KeysOf(U) = HeldKeys(T, n)
        BY <1>1, <2>1, <3>1
      <4> QED  BY <1>1, <4>1 DEF c
    <3>2. CASE k \notin KeysOf(V)
      <4>1. KeysOf(U) = HeldKeys(T, n) \cup {k} /\ k \notin HeldKeys(T, n)
        BY <1>1, <2>1, <3>2
      <4>2. IsFiniteSet(KeysOf(U)) /\ Cardinality(KeysOf(U)) = c + 1
        BY <1>1, <4>1, FS_AddElement DEF c
      <4> QED  BY <1>1, <4>2
    <3> QED  BY <3>1, <3>2
  <2>3. Cardinality(KeysOf(U)) \in Nat
    BY <2>2, FS_CardinalityType
  <2>4. Cardinality(KeysOf(U)) < U.size
    BY <1>1, <2>1, <2>2, <2>3
  <2>5. ~Full(U)
    BY <2>1, <2>2, <2>4, Room
  <2> QED  BY <2>5 DEF U
<1> QED  BY <1>2, <1>3 DEF V

(* Every stage is so.                                                      *)
LEMMA Stages ==
    ASSUME NEW T, Linked(T)
    PROVE  \A n \in 0..T.size : Stage(T, n)
<1> DEFINE S == {n \in 0..T.size : Stage(T, n)}
<1>1. T.size \in Nat /\ T.node \in [1..T.size -> NodeType(T.size)]
  BY ViewsTyped DEF Linked
<1>2. 0 \in S
  <2>1. Moved(T)[0] = Vector(NewSize(T)) /\ IsSize(NewSize(T))
    BY <1>1, MovedIs, HeldCount DEF Linked
  <2>2. HeldKeys(T, 0) = {}
    BY DEF HeldKeys
  <2>3. Stage(T, 0)
    BY <2>1, <2>2, VectorIs DEF Stage
  <2> QED  BY <1>1, <2>3
<1>3. ASSUME NEW n \in 0..T.size-1, n \in S PROVE n + 1 \in S
  <2> DEFINE V == Moved(T)[n]
             m == n + 1
             k == T.node[m].key
             v == T.node[m].val
  <2>1. n \in 0..T.size /\ m \in 1..T.size /\ m \in 0..T.size /\ n \in Nat
    BY <1>1
  <2>2. /\ Sound(V) /\ V.size = NewSize(T) /\ KeysOf(V) = HeldKeys(T, n) /\ ~Full(V)
        /\ \A j \in HeldKeys(T, n) : Get(V, j) = Get(T, j)
    <3>1. Stage(T, n)
      BY <1>3
    <3> QED  BY <2>1, <3>1, StageRoom DEF Stage
  <2>3. Moved(T)[m] = MoveOf(T, V, m)
    BY <1>1, MovedIs
  <2>4. \A i \in 1..m : i \in 1..n \/ i = m
    BY <2>1
  <2>5. \A i \in 1..n : i \in 1..m
    BY <2>1
  <2>6. CASE v = Null
    <3>1. Moved(T)[m] = V
      BY <2>3, <2>6 DEF MoveOf
    <3>2. HeldKeys(T, m) = HeldKeys(T, n)
      BY <2>4, <2>5, <2>6 DEF HeldKeys
    <3> HIDE DEF V, m
    <3>3. Stage(T, m)
      BY <2>2, <3>1, <3>2 DEF Stage
    <3> QED  BY <2>1, <3>3 DEF m
  <2>7. CASE v # Null
    <3> DEFINE s == Slot(V, k)
               W == Assigned(s, v)
    <3>1. Moved(T)[m] = W
      BY <2>3, <2>7 DEF MoveOf
    <3>2. k \in Keys /\ Get(T, k) = v
      BY <2>1, <2>7, HeldIs
    <3>3. v \in Values \cup {Null}
      BY <1>1, <2>1 DEF NodeType
    <3> HIDE DEF V, k, v
    <3>4. /\ Sound(s.unit) /\ s.unit.size = V.size
          /\ s.at \in 1..V.size /\ s.unit.node[s.at].key = k
          /\ KeysOf(s.unit) = KeysOf(V) \cup {k}
          /\ \A j \in Keys \ {k} : Get(s.unit, j) = Get(V, j)
      BY <2>2, <3>2, SlotIs
    <3> HIDE DEF s
    <3>5. /\ Sound(W) /\ W.size = s.unit.size /\ KeysOf(W) = KeysOf(s.unit)
          /\ Get(W, k) = v /\ \A j \in Keys \ {k} : Get(W, j) = Get(s.unit, j)
      BY <3>2, <3>3, <3>4, AssignedIs
    <3> HIDE DEF W
    <3>6. HeldKeys(T, m) = HeldKeys(T, n) \cup {k}
      BY <2>1, <2>4, <2>5, <2>7, <3>2 DEF HeldKeys, k, v
    <3>7. ASSUME NEW j \in HeldKeys(T, m) PROVE Get(W, j) = Get(T, j)
      <4>1. CASE j = k
        BY <3>2, <3>5, <4>1
      <4>2. CASE j # k
        <5>1. j \in HeldKeys(T, n) /\ j \in Keys \ {k}
          BY <3>6, <4>2 DEF HeldKeys
        <5> QED  BY <2>2, <3>4, <3>5, <5>1
      <4> QED  BY <4>1, <4>2
    <3>8. Stage(T, m)
      BY <2>2, <3>1, <3>4, <3>5, <3>6, <3>7 DEF Stage
    <3> QED  BY <2>1, <3>8
  <2> QED  BY <2>6, <2>7
<1>4. 0..T.size \subseteq S
  <2> HIDE DEF S
  <2> QED  BY <1>1, <1>2, <1>3, UpTo
<1> QED  BY <1>4

(* So a rehash keeps what has a value, and has room for one key more.      *)
LEMMA RehashIs ==
    ASSUME NEW T, Linked(T)
    PROVE  /\ Sound(Rehash(T)) /\ ~Full(Rehash(T))
           /\ \A k \in Keys : Get(Rehash(T), k) = Get(T, k)
           /\ \A k \in Keys : ~Full(Slot(Rehash(T), k).unit)
<1>1. T.size \in Nat /\ T.size \in 0..T.size
  BY ViewsTyped DEF Linked
<1>2. Stage(T, T.size)
  BY <1>1, Stages
<1> DEFINE V == Moved(T)[T.size]
           H == HeldKeys(T, T.size)
<1>3. ~Full(V) /\ \A k \in Keys : ~Full(Slot(V, k).unit)
  BY <1>1, <1>2, StageRoom
<1>4. Sound(V) /\ KeysOf(V) = H /\ \A k \in H : Get(V, k) = Get(T, k)
  BY <1>2 DEF Stage
<1> HIDE DEF V
<1>5. ASSUME NEW k \in Keys PROVE Get(V, k) = Get(T, k)
  <2>1. CASE k \in H
    BY <1>4, <2>1
  <2>2. CASE k \notin H
    <3>1. Get(V, k) = Null
      BY <1>4, <2>2, GetIs DEF Sound
    <3>2. Get(T, k) = Null
      <4>1. ASSUME Get(T, k) # Null PROVE k \in H
        BY <4>1, PresentIs DEF HeldKeys
      <4> QED  BY <2>2, <4>1
    <3> QED  BY <3>1, <3>2
  <2> QED  BY <2>1, <2>2
<1> QED  BY <1>3, <1>4, <1>5 DEF V, Rehash

-----------------------------------------------------------------------------
(* Set.                                                                    *)

(* A table is sound and not full, and so is the one after a key is set;    *)
(* what is looked up changes for that key alone, and when the key is there *)
(* no node changes but for its value.                                      *)
LEMMA SetSlotIs ==
    ASSUME NEW T, Sound(T), ~Full(T), NEW k \in Keys, NEW v \in Values \cup {Null}
    PROVE  LET W == Assigned(SetSlot(T, k), v)
           IN  /\ Sound(W) /\ ~Full(W)
               /\ Get(W, k) = v /\ \A j \in Keys \ {k} : Get(W, j) = Get(T, j)
               /\ k \in KeysOf(T) =>
                     /\ W.size = T.size
                     /\ \A i \in 1..T.size : W.node[i].key = T.node[i].key
                     /\ W.node[NodeOf(T, k)].val = v
                     /\ \A i \in 1..T.size : i # NodeOf(T, k) => W.node[i] = T.node[i]
<1> DEFINE s0 == Slot(T, k)
           s == SetSlot(T, k)
           R == Rehash(s0.unit)
           W == Assigned(s, v)
<1>1. /\ Sound(s0.unit) /\ s0.unit.size = T.size
      /\ s0.at \in 1..T.size /\ s0.unit.node[s0.at].key = k
      /\ \A j \in Keys \ {k} : Get(s0.unit, j) = Get(T, j)
      /\ k \in KeysOf(T) => s0 = [at |-> NodeOf(T, k), unit |-> T]
      /\ NodeOf(T, k) = Nil <=> k \notin KeysOf(T)
  BY SlotIs
<1>2. s = IF Full(s0.unit) /\ k \notin KeysOf(T) THEN Slot(R, k) ELSE s0
  BY <1>1 DEF SetSlot
<1>3. /\ Sound(s.unit) /\ ~Full(s.unit)
      /\ s.at \in 1..s.unit.size /\ s.unit.node[s.at].key = k
      /\ \A j \in Keys \ {k} : Get(s.unit, j) = Get(T, j)
  <2>1. CASE Full(s0.unit) /\ k \notin KeysOf(T)
    <3>1. /\ Sound(R) /\ ~Full(R) /\ \A j \in Keys : Get(R, j) = Get(s0.unit, j)
          /\ ~Full(Slot(R, k).unit)
      BY <1>1, RehashIs DEF Sound
    <3>2. s = Slot(R, k)
      BY <1>2, <2>1
    <3> HIDE DEF s0, R, s
    <3>3. /\ Sound(s.unit) /\ s.unit.size = R.size
          /\ s.at \in 1..R.size /\ s.unit.node[s.at].key = k
          /\ \A j \in Keys \ {k} : Get(s.unit, j) = Get(R, j)
      BY <3>1, <3>2, SlotIs
    <3> QED  BY <1>1, <3>1, <3>2, <3>3
  <2>2. CASE ~Full(s0.unit)
    <3>1. s = s0
      BY <1>2, <2>2
    <3> HIDE DEF s0, s
    <3> QED  BY <1>1, <2>2, <3>1
  <2>3. CASE k \in KeysOf(T)
    <3>1. s = s0 /\ s0.unit = T
      BY <1>1, <1>2, <2>3
    <3> HIDE DEF s0, s
    <3> QED  BY <1>1, <3>1
  <2> QED  BY <2>1, <2>2, <2>3
<1> HIDE DEF s
<1>4. /\ Sound(W) /\ W.size = s.unit.size /\ (Full(W) <=> Full(s.unit))
      /\ \A i \in 1..s.unit.size : W.node[i].key = s.unit.node[i].key
      /\ W.node[s.at].val = v
      /\ \A i \in 1..s.unit.size : i # s.at => W.node[i] = s.unit.node[i]
      /\ Get(W, k) = v /\ \A j \in Keys \ {k} : Get(W, j) = Get(s.unit, j)
  <2> DEFINE U == s.unit
             a == s.at
  <2>1. Sound(U) /\ a \in 1..U.size /\ U.node[a].key = k /\ s.unit = U /\ s.at = a
    BY <1>3
  <2> HIDE DEF U, a
  <2>2. LET X == Assigned(s, v)
        IN  /\ Sound(X) /\ X.size = U.size /\ (Full(X) <=> Full(U))
            /\ \A i \in 1..U.size : X.node[i].key = U.node[i].key
            /\ X.node[a].val = v
            /\ \A i \in 1..U.size : i # a => X.node[i] = U.node[i]
            /\ Get(X, k) = v /\ \A j \in Keys \ {k} : Get(X, j) = Get(U, j)
    BY <2>1, AssignedIs
  <2> QED  BY <2>2 DEF U, a
<1> HIDE DEF W
<1>5. k \in KeysOf(T) => s.at = NodeOf(T, k) /\ s.unit = T
  BY <1>1, <1>2
<1> QED  BY <1>3, <1>4, <1>5 DEF W, s

(* The first node from i on that has a value.                              *)
LEMMA NextFromIs ==
    ASSUME NEW T, T.size \in Nat, NEW i \in Nat
    PROVE  LET r == NextFrom(T, i)
           IN  /\ r = Nil \/ (r \in i..T.size /\ T.node[r].val # Null)
               /\ \A j \in i..T.size : T.node[j].val # Null /\ i # Nil => r # Nil /\ r <= j
<1> DEFINE rest == {j \in i..T.size : T.node[j].val # Null}
           r == NextFrom(T, i)
<1>1. rest \in SUBSET Nat
  OBVIOUS
<1>2. r = IF rest = {} THEN Nil ELSE Min(rest)
  BY DEF NextFrom
<1> HIDE DEF r
<1>3. CASE rest = {}
  BY <1>2, <1>3 DEF r
<1>4. CASE rest # {}
  <2>1. r \in rest /\ \A y \in rest : r <= y
    <3> HIDE DEF rest
    <3> QED  BY <1>1, <1>2, <1>4, MinIs
  <2>2. i # Nil => r # Nil
    BY <2>1
  <2> QED  BY <2>1, <2>2 DEF r
<1> QED  BY <1>3, <1>4

-----------------------------------------------------------------------------
(* What holds in every state: the table is sound and not full; and of the  *)
(* loop, while its body keeps to the rules: the key it is at has a value,  *)
(* it has visited every key with a value up to the node of that one, and   *)
(* none that is further on.                                                *)
LoopAt(T, k, visited) ==
    /\ Get(T, k) # Null
    /\ \A i \in 1..NodeOf(T, k) : T.node[i].val # Null => T.node[i].key \in visited
    /\ \A x \in visited : \E i \in 1..NodeOf(T, k) : T.node[i].key = x

UnitInv == Sound(unit) /\ ~Full(unit)

LoopInv ==
    /\ at \in Keys \cup {NoKey} /\ seen \subseteq Keys /\ strict \in BOOLEAN
    /\ at = NoKey => strict /\ seen = {}
    /\ ~strict => seen = {}
    /\ strict /\ at # NoKey => LoopAt(unit, at, seen)

(* The table is sound at first ...                                         *)
LEMMA UnitInitial == Init => UnitInv
<1> SUFFICES ASSUME Init PROVE UnitInv
  OBVIOUS
<1>1. PICK m \in {MinSize, 2 * MinSize} : unit = Vector(m)
  BY DEF Init
<1>2. IsSize(MinSize) /\ IsSize(2 * MinSize)
  <2>1. IsSize(4)
    <3>1. 0 \in 0..4 /\ Doubled[0] = 4
      BY DoubledIs
    <3> QED  BY <3>1 DEF IsSize
  <2> QED  BY <2>1, SizeIs, Sizes
<1>3. IsSize(m)
  BY <1>2
<1> QED  BY <1>1, <1>3, VectorIs DEF UnitInv

(* ... and every step leaves it so.                                        *)
LEMMA UnitStep == UnitInv /\ [Next]_vars => UnitInv'
<1> SUFFICES ASSUME UnitInv, [Next]_vars PROVE UnitInv'
  OBVIOUS
<1>1. ASSUME NEW k \in Keys, NEW v \in Values \cup {Null}, Set(k, v) PROVE UnitInv'
  <2>1. unit' = Assigned(SetSlot(unit, k), v)
    BY <1>1 DEF Set
  <2>2. Sound(unit') /\ ~Full(unit')
    BY <2>1, SetSlotIs DEF UnitInv
  <2> QED  BY <2>2 DEF UnitInv
<1>2. ASSUME unit' = unit PROVE UnitInv'
  <2>1. Sound(unit') /\ ~Full(unit')
    BY <1>2 DEF UnitInv
  <2> QED  BY <2>1 DEF UnitInv
<1>3. ForInPrep \/ ForInNext => unit' = unit
  BY DEF ForInPrep, ForInNext, Arrive
<1> QED  BY <1>1, <1>2, <1>3 DEF Next, vars

(* A loop starts, or goes on, at a key that has a value and that it has    *)
(* not visited.                                                            *)
LEMMA ArriveStep ==
    ASSUME UnitInv, LoopInv,
           NEW i \in 1..unit.size, unit.node[i].val # Null, Arrive(i),
           NEW low \in 0..unit.size, low < i,
           \A j \in 1..unit.size : j > low /\ unit.node[j].val # Null => i <= j,
           strict => /\ \A j \in 1..low : unit.node[j].val # Null => unit.node[j].key \in seen
                     /\ \A x \in seen : \E j \in 1..low : unit.node[j].key = x
    PROVE  /\ LoopInv' /\ at' \in Keys /\ Get(unit, at') # Null /\ at' \notin seen
           /\ seen' = IF strict THEN seen \cup {at'} ELSE {}
           /\ UNCHANGED <<unit, strict>>
<1>1. /\ at' = unit.node[i].key /\ seen' = IF strict THEN seen \cup {at'} ELSE {}
      /\ unit' = unit /\ strict' = strict
  BY DEF Arrive
<1>2. /\ at' \in Keys /\ NodeOf(unit, at') = i /\ Get(unit, at') # Null
      /\ unit.size \in Nat /\ at' # NoKey /\ Linked(unit)
  BY <1>1, HeldIs, ViewsTyped, Sizes DEF UnitInv, Sound, Linked
<1>3. at' \notin seen
  <2>1. ASSUME at' \in seen PROVE FALSE
    <3>1. strict
      BY <2>1 DEF LoopInv
    <3>2. PICK j \in 1..low : unit.node[j].key = at'
      BY <2>1, <3>1
    <3>3. j \in 1..unit.size /\ j # i
      BY <1>2
    <3>4. NodeOf(unit, at') = j
      BY <1>2, <3>2, <3>3, NodeOfIs
    <3> QED  BY <1>2, <3>3, <3>4
  <2> QED  BY <2>1
<1>4. ASSUME strict PROVE LoopAt(unit, at', seen')
  <2>1. seen' = seen \cup {at'}
    BY <1>1, <1>4
  <2>2. ASSUME NEW j \in 1..i, unit.node[j].val # Null PROVE unit.node[j].key \in seen'
    <3>1. CASE j \in 1..low
      BY <1>4, <2>1, <2>2, <3>1
    <3>2. CASE j \notin 1..low
      <4>1. j \in 1..unit.size /\ j > low
        BY <1>2, <3>2
      <4>2. j = i
        BY <2>2, <4>1
      <4> QED  BY <1>1, <2>1, <4>2
    <3> QED  BY <3>1, <3>2
  <2>3. ASSUME NEW x \in seen' PROVE \E j \in 1..i : unit.node[j].key = x
    <3>1. CASE x \in seen
      <4>1. PICK j \in 1..low : unit.node[j].key = x
        BY <1>4, <3>1
      <4>2. j \in 1..i
        BY <1>2
      <4> QED  BY <4>1, <4>2
    <3>2. CASE x = at'
      BY <1>1, <3>2
    <3> QED  BY <2>1, <3>1, <3>2
  <2> QED  BY <1>2, <2>2, <2>3 DEF LoopAt
<1>5. LoopInv'
  <2>1. strict' /\ at' # NoKey => LoopAt(unit', at', seen')
    BY <1>1, <1>4
  <2>2. seen' \subseteq Keys
    BY <1>1, <1>2 DEF LoopInv
  <2> QED  BY <1>1, <1>2, <2>1, <2>2 DEF LoopInv
<1> QED  BY <1>1, <1>2, <1>3, <1>5

(* The start of a loop.                                                    *)
LEMMA PrepStep ==
    ASSUME UnitInv, LoopInv, ForInPrep
    PROVE  /\ LoopInv' /\ at' \in Keys /\ Get(unit, at') # Null /\ at' \notin seen
           /\ seen' = IF strict THEN seen \cup {at'} ELSE {}
           /\ UNCHANGED <<unit, strict>>
<1> DEFINE i == NextFrom(unit, 1)
<1>1. at = NoKey /\ i # Nil /\ Arrive(i) /\ strict /\ seen = {}
  BY DEF ForInPrep, LoopInv
<1>2. unit.size \in Nat /\ unit.size >= 4
  BY ViewsTyped DEF UnitInv, Sound, Linked
<1>3. /\ i = Nil \/ (i \in 1..unit.size /\ unit.node[i].val # Null)
      /\ \A j \in 1..unit.size : unit.node[j].val # Null => i <= j
  BY <1>2, NextFromIs
<1> HIDE DEF i
<1>4. 0 \in 0..unit.size /\ 0 < i
  BY <1>1, <1>2, <1>3
<1>5. i \in 1..unit.size /\ unit.node[i].val # Null
  BY <1>1, <1>3
<1>6. \A j \in 1..unit.size : j > 0 /\ unit.node[j].val # Null => i <= j
  BY <1>3
<1>7. /\ \A j \in 1..0 : unit.node[j].val # Null => unit.node[j].key \in seen
      /\ \A x \in seen : \E j \in 1..0 : unit.node[j].key = x
  BY <1>1
<1> QED  BY <1>1, <1>4, <1>5, <1>6, <1>7, ArriveStep

(* The next node of a loop, or its end: then all that has a value has been *)
(* visited, if its body has kept to the rules.                             *)
LEMMA NextStep ==
    ASSUME UnitInv, LoopInv, ForInNext
    PROVE  /\ LoopInv' /\ unit' = unit
           /\ \/ /\ at' \in Keys /\ Get(unit, at') # Null /\ at' \notin seen
                 /\ seen' = IF strict THEN seen \cup {at'} ELSE {}
                 /\ strict' = strict
              \/ /\ at # NoKey /\ at' = NoKey /\ strict' = TRUE /\ seen' = {}
                 /\ strict => \A k \in Keys : Get(unit, k) # Null => k \in seen
<1> DEFINE i == Following(unit, at)
           low == NodeOf(unit, at)
           r == NextFrom(unit, low + 1)
<1>1. at # NoKey /\ at \in Keys
  BY DEF ForInNext, LoopInv
<1>2. unit.size \in Nat /\ Linked(unit)
  BY ViewsTyped DEF UnitInv, Sound, Linked
<1>3. i = IF Get(unit, at) = Null THEN Nil ELSE r
  BY DEF Following
<1>4. Get(unit, at) # Null => low \in 1..unit.size /\ low # Nil
  BY <1>1, <1>2, PresentIs
<1>5. ASSUME Get(unit, at) # Null
      PROVE  /\ r = Nil \/ (r \in low+1..unit.size /\ unit.node[r].val # Null)
             /\ \A j \in low+1..unit.size : unit.node[j].val # Null => r # Nil /\ r <= j
  <2>1. low + 1 \in Nat /\ low + 1 # Nil
    BY <1>2, <1>4, <1>5
  <2> HIDE DEF low
  <2> QED  BY <1>2, <2>1, NextFromIs
<1>6. strict => LoopAt(unit, at, seen)
  BY <1>1 DEF LoopInv
<1>7. CASE i # Nil
  <2>1. Arrive(i) /\ Get(unit, at) # Null /\ i = r
    BY <1>3, <1>7 DEF ForInNext
  <2> HIDE DEF i, r, low
  <2>2. /\ i \in 1..unit.size /\ unit.node[i].val # Null /\ low \in 0..unit.size /\ low < i
    BY <1>2, <1>4, <1>5, <1>7, <2>1
  <2>3. ASSUME NEW j \in 1..unit.size, j > low, unit.node[j].val # Null PROVE i <= j
    <3>1. j \in low+1..unit.size
      BY <1>2, <1>4, <2>1, <2>3
    <3> QED  BY <1>5, <2>1, <2>3, <3>1
  <2>4. strict => /\ \A j \in 1..low : unit.node[j].val # Null => unit.node[j].key \in seen
                  /\ \A x \in seen : \E j \in 1..low : unit.node[j].key = x
    BY <1>6 DEF LoopAt, low
  <2> QED  BY <2>1, <2>2, <2>3, <2>4, ArriveStep
<1>8. CASE i = Nil
  <2>1. at' = NoKey /\ strict' = TRUE /\ seen' = {} /\ unit' = unit
    BY <1>1, <1>8 DEF ForInNext
  <2>2. LoopInv'
    BY <2>1 DEF LoopInv
  <2>3. ASSUME strict, NEW k \in Keys, Get(unit, k) # Null PROVE k \in seen
    <3> DEFINE n == NodeOf(unit, k)
    <3>1. Get(unit, at) # Null
      BY <1>6, <2>3 DEF LoopAt
    <3>2. r = Nil
      BY <1>3, <1>8, <3>1
    <3>3. n \in 1..unit.size /\ unit.node[n].key = k /\ unit.node[n].val # Null
      BY <1>2, <2>3, PresentIs
    <3> HIDE DEF n, r
    <3>4. n \in 1..low
      <4> HIDE DEF low
      <4>1. ~(n \in low+1..unit.size)
        BY <1>5, <3>1, <3>2, <3>3
      <4> QED  BY <1>2, <1>4, <3>1, <3>3, <4>1
    <3> QED  BY <1>6, <2>3, <3>3, <3>4 DEF LoopAt
  <2> QED  BY <1>1, <2>1, <2>2, <2>3
<1> QED  BY <1>7, <1>8

(* Set keeps what a loop relies on, when it counts as keeping to the rules.*)
LEMMA SetStep ==
    ASSUME UnitInv, LoopInv, NEW k \in Keys, NEW v \in Values \cup {Null}, Set(k, v)
    PROVE  LoopInv'
<1> DEFINE W == Assigned(SetSlot(unit, k), v)
           n == NodeOf(unit, at)
<1>1. /\ unit' = W /\ at' = at /\ strict \in BOOLEAN
      /\ strict' = (strict /\ (at # NoKey => Get(unit, k) # Null /\ (v = Null => k # at)))
      /\ seen' = IF strict' THEN seen ELSE {}
  BY DEF Set, LoopInv
<1>2. strict' \in BOOLEAN /\ (strict' => strict)
  BY <1>1
<1>3. /\ Linked(W) /\ Get(W, k) = v /\ \A j \in Keys \ {k} : Get(W, j) = Get(unit, j)
      /\ k \in KeysOf(unit) =>
            /\ W.size = unit.size
            /\ \A i \in 1..unit.size : W.node[i].key = unit.node[i].key
            /\ W.node[NodeOf(unit, k)].val = v
            /\ \A i \in 1..unit.size : i # NodeOf(unit, k) => W.node[i] = unit.node[i]
  BY SetSlotIs DEF UnitInv, Sound
<1>4. Linked(unit) /\ unit.size \in Nat
  BY ViewsTyped DEF UnitInv, Sound, Linked
<1> HIDE DEF W
<1>5. ASSUME strict', at # NoKey PROVE LoopAt(W, at, seen)
  <2>1. /\ strict /\ Get(unit, k) # Null /\ (v = Null => k # at)
        /\ LoopAt(unit, at, seen) /\ at \in Keys
    BY <1>1, <1>5 DEF LoopInv
  <2>2. /\ k \in KeysOf(unit) /\ NodeOf(unit, k) \in 1..unit.size
        /\ unit.node[NodeOf(unit, k)].val # Null
    BY <1>4, <2>1, PresentIs
  <2>3. /\ Get(unit, at) # Null
        /\ \A i \in 1..n : unit.node[i].val # Null => unit.node[i].key \in seen
        /\ \A x \in seen : \E i \in 1..n : unit.node[i].key = x
    BY <2>1 DEF LoopAt
  <2>4. n \in 1..unit.size /\ unit.node[n].key = at
    BY <1>4, <2>1, <2>3, PresentIs
  <2> HIDE DEF n
  <2>5. W.node[n].key = at /\ n \in 1..W.size
    BY <1>3, <2>2, <2>4
  <2>6. NodeOf(W, at) = n
    BY <1>3, <2>1, <2>5, NodeOfIs
  <2>7. Get(W, at) # Null
    <3>1. CASE at = k
      BY <1>3, <2>1, <3>1
    <3>2. CASE at # k
      BY <1>3, <2>1, <2>3, <3>2
    <3> QED  BY <3>1, <3>2
  <2>8. \A i \in 1..n : i \in 1..unit.size
    BY <1>4, <2>4
  <2>9. ASSUME NEW i \in 1..n, W.node[i].val # Null PROVE W.node[i].key \in seen
    <3>1. unit.node[i].val # Null
      <4>1. CASE i = NodeOf(unit, k)
        BY <2>2, <4>1
      <4>2. CASE i # NodeOf(unit, k)
        BY <1>3, <2>2, <2>8, <2>9, <4>2
      <4> QED  BY <4>1, <4>2
    <3> QED  BY <1>3, <2>2, <2>3, <2>8, <3>1
  <2>10. ASSUME NEW x \in seen PROVE \E i \in 1..n : W.node[i].key = x
    <3>1. PICK i \in 1..n : unit.node[i].key = x
      BY <2>3
    <3> QED  BY <1>3, <2>2, <2>8, <3>1
  <2> QED  BY <2>6, <2>7, <2>9, <2>10 DEF LoopAt
<1>6. at = NoKey => strict' /\ seen' = {}
  BY <1>1 DEF LoopInv
<1>7. strict' /\ at' # NoKey => LoopAt(unit', at', seen')
  BY <1>1, <1>5
<1>8. ~strict' => seen' = {}
  BY <1>1
<1>9. seen' \subseteq Keys /\ at' \in Keys \cup {NoKey}
  BY <1>1 DEF LoopInv
<1> QED  BY <1>1, <1>2, <1>6, <1>7, <1>8, <1>9 DEF LoopInv

(* So does every step.                                                     *)
LEMMA LoopStep == UnitInv /\ LoopInv /\ [Next]_vars => LoopInv'
<1> SUFFICES ASSUME UnitInv, LoopInv, [Next]_vars PROVE LoopInv'
  OBVIOUS
<1>1. ASSUME NEW k \in Keys, NEW v \in Values \cup {Null}, Set(k, v) PROVE LoopInv'
  BY <1>1, SetStep
<1>2. CASE ForInPrep
  BY <1>2, PrepStep
<1>3. CASE ForInNext
  BY <1>3, NextStep
<1>4. CASE UNCHANGED vars
  BY <1>4 DEF LoopInv, vars
<1> QED  BY <1>1, <1>2, <1>3, <1>4 DEF Next

(* Both hold in every state.                                               *)
LEMMA Invariants == Spec => [](UnitInv /\ LoopInv)
<1>1. Init => LoopInv
  BY DEF Init, LoopInv
<1> QED  BY <1>1, UnitInitial, UnitStep, LoopStep, PTL DEF Spec

-----------------------------------------------------------------------------
(* TypeOK: the free pointer is at a free node between the operations, and  *)
(* there is none above it.                                                 *)
THEOREM FreePointerHolds == Spec => []TypeOK
<1>1. UnitInv /\ LoopInv => TypeOK
  <2> SUFFICES ASSUME UnitInv, LoopInv PROVE TypeOK
    OBVIOUS
  <2>1. /\ Typed(unit) /\ unit.size \in Nat /\ unit.free \in 1..unit.size
        /\ unit.node \in [1..unit.size -> NodeType(unit.size)]
    BY ViewsTyped DEF UnitInv, Sound, Linked
  <2>2. IsSize(unit.size)
    BY <2>1 DEF Typed
  <2>3. Used(unit) = {i \in 1..unit.size : unit.node[i].key # NoKey}
    BY <2>1 DEF Used
  <2>4. unit.free \notin Used(unit)
    BY <2>3 DEF UnitInv, Full
  <2>5. unit.free+1..unit.size \subseteq Used(unit)
    <3>1. ASSUME NEW i \in unit.free+1..unit.size PROVE i \in Used(unit)
      <4>1. i \in 1..unit.size /\ i > unit.free
        BY <2>1
      <4>2. unit.node[i].key # NoKey
        BY <4>1 DEF UnitInv, Sound, FreeLeft
      <4> QED  BY <2>3, <4>1, <4>2
    <3> QED  BY <3>1
  <2> QED  BY <2>1, <2>2, <2>4, <2>5 DEF TypeOK, LoopInv, NodeType
<1> QED  BY <1>1, Invariants, PTL

(* ChainsSound: a lookup ends and finds the key, whatever has been moved.  *)
THEOREM ChainsHold == Spec => []ChainsSound
<1>1. UnitInv => ChainsSound
  <2> SUFFICES ASSUME UnitInv PROVE ChainsSound
    OBVIOUS
  <2>1. /\ Linked(unit) /\ unit.size \in Nat
        /\ unit.node \in [1..unit.size -> NodeType(unit.size)]
    BY ViewsTyped DEF UnitInv, Sound, Linked
  <2>2. DOMAIN unit.node = 1..unit.size
    BY <2>1
  <2>3. ASSUME NEW i \in Used(unit) PROVE NodeOf(unit, unit.node[i].key) = i
    <3>1. i \in 1..unit.size /\ unit.node[i].key # NoKey
      BY <2>2 DEF Used
    <3>2. unit.node[i].key \in Keys
      BY <2>1, <3>1 DEF NodeType
    <3> QED  BY <2>1, <3>1, <3>2, NodeOfIs
  <2>4. ASSUME NEW i \in 1..unit.size, unit.node[i].next # Nil
        PROVE  i \notin Chain(unit, unit.node[i].next)
    <3> DEFINE N == unit.size
               next == NextOf(unit)
               j == unit.node[i].next
    <3>1. /\ next \in [1..N -> 0..N] /\ Ranked(N, next)
          /\ \A x \in 1..N : next[x] = unit.node[x].next
      BY <2>1 DEF Linked, Chained, NextOf
    <3>2. j \in 1..N /\ next[i] = j /\ next[i] # Nil
      BY <2>1, <2>4, <3>1
    <3>3. /\ j \in Chain(unit, j)
          /\ \A C : j \in C /\ (\A x \in C \cap 1..N : next[x] # Nil => next[x] \in C)
                      => Chain(unit, j) \subseteq C
      BY <2>1, <3>2, ChainHas
    <3> HIDE DEF next, N, j
    <3>4. PICK r \in [1..N -> Nat] : \A x \in 1..N : next[x] # Nil => r[x] < r[next[x]]
      BY <3>1 DEF Ranked
    <3> DEFINE C == {x \in 1..N : r[i] < r[x]}
    <3>5. i \in 1..N
      BY <2>4 DEF N
    <3>6. j \in C
      BY <3>2, <3>4, <3>5
    <3>7. ASSUME NEW x \in C \cap 1..N, next[x] # Nil PROVE next[x] \in C
      <4>1. next[x] \in 1..N /\ r[x] < r[next[x]] /\ r[i] < r[x]
        BY <2>1, <3>1, <3>4, <3>7 DEF N
      <4>2. r[i] \in Nat /\ r[x] \in Nat /\ r[next[x]] \in Nat
        BY <3>4, <3>5, <4>1
      <4> QED  BY <4>1, <4>2
    <3>8. i \notin C
      BY <3>4, <3>5
    <3>9. Chain(unit, j) \subseteq C
      <4> HIDE DEF C
      <4> QED  BY <3>3, <3>6, <3>7
    <3> QED  BY <3>8, <3>9 DEF j
  <2>5. ASSUME NEW i \in DOMAIN unit.node \ Used(unit) PROVE unit.node[i] = FreeNode
    BY <2>1, <2>2 DEF Linked, Blank, Used
  <2> QED  BY <2>2, <2>3, <2>4, <2>5 DEF ChainsSound
<1> QED  BY <1>1, Invariants, PTL

(* RehashFits: losu_objunit_set calls itself once at most.                 *)
THEOREM RehashFitsHolds == Spec => []RehashFits
<1>1. UnitInv => RehashFits
  <2> SUFFICES ASSUME UnitInv, NEW k \in Keys,
                      NEW n \in 0..Slot(unit, k).unit.size
               PROVE  LET T == Moved(Slot(unit, k).unit)[n]
                      IN  ~Full(T) /\ ~Full(Slot(T, k).unit)
    BY DEF RehashFits
  <2> DEFINE U == Slot(unit, k).unit
  <2>1. Linked(U)
    BY SlotIs DEF UnitInv, Sound
  <2>2. n \in 0..U.size
    OBVIOUS
  <2> HIDE DEF U
  <2>3. Stage(U, n)
    BY <2>1, <2>2, Stages
  <2>4. ~Full(Moved(U)[n]) /\ ~Full(Slot(Moved(U)[n], k).unit)
    BY <2>1, <2>2, <2>3, StageRoom
  <2> QED  BY <2>4 DEF U
<1> QED  BY <1>1, Invariants, PTL

(* What a table maps keys to after one is set.                             *)
LEMMA SetIs ==
    ASSUME UnitInv, NEW k \in Keys, NEW v \in Values \cup {Null}, Set(k, v)
    PROVE  Contents(unit') = [Contents(unit) EXCEPT ![k] = v]
<1>1. unit' = Assigned(SetSlot(unit, k), v)
  BY DEF Set
<1>2. Get(unit', k) = v /\ \A j \in Keys \ {k} : Get(unit', j) = Get(unit, j)
  BY <1>1, SetSlotIs DEF UnitInv
<1> QED  BY <1>2 DEF Contents

(* SetExact: assigning to one key changes the value of no other.           *)
THEOREM SetExactHolds == Spec => SetExact
<1> DEFINE Exact == \A k \in Keys, v \in Values \cup {Null} :
                        Set(k, v) => Contents(unit') = [Contents(unit) EXCEPT ![k] = v]
<1>1. UnitInv /\ [Next]_vars => [Exact]_vars
  BY SetIs
<1>2. SetExact <=> [][Exact]_vars
  BY DEF SetExact
<1> HIDE DEF Exact
<1> QED  BY <1>1, <1>2, Invariants, PTL DEF Spec

(* Implements: a table is a map from keys to values, and a loop visits     *)
(* each of its keys once, whenever and wherever the nodes are moved.       *)
THEOREM TableIsMap == Spec => Implements
<1>1. Init => Map!Init
  <2> SUFFICES ASSUME Init PROVE Map!Init
    OBVIOUS
  <2>1. PICK m \in {MinSize, 2 * MinSize} : unit = Vector(m)
    BY DEF Init
  <2>2. IsSize(m)
    <3>1. UnitInv
      BY UnitInitial
    <3>2. Typed(unit) /\ unit.size = m
      BY <2>1, <3>1 DEF UnitInv, Sound, Linked, Vector
    <3> QED  BY <3>2 DEF Typed
  <2>3. \A k \in Keys : Get(unit, k) = Null
    BY <2>1, <2>2, VectorIs
  <2> QED  BY <2>3 DEF Init, Map!Init, Contents
<1>2. UnitInv /\ LoopInv /\ [Next]_vars => [Map!Next]_(Map!vars)
  <2> SUFFICES ASSUME UnitInv, LoopInv, [Next]_vars PROVE [Map!Next]_(Map!vars)
    OBVIOUS
  <2>1. \A k \in Keys : Contents(unit)[k] = Get(unit, k)
    BY DEF Contents
  <2>2. Map!Present = {k \in Keys : Get(unit, k) # Null}
    BY <2>1 DEF Map!Present
  <2>3. ASSUME NEW k \in Keys, NEW v \in Values \cup {Null}, Set(k, v) PROVE Map!Next
    <3>1. Contents(unit') = [Contents(unit) EXCEPT ![k] = v]
      BY <2>3, SetIs
    <3>2. Map!Set(k, v)
      BY <2>2, <2>3, <3>1 DEF Map!Set, Set
    <3> QED  BY <3>2 DEF Map!Next
  <2>4. ASSUME at' \in Keys, Get(unit, at') # Null, at' \notin seen, unit' = unit,
               strict' = strict, seen' = IF strict THEN seen \cup {at'} ELSE {}
        PROVE  Map!Next
    <3>1. \E k \in Keys : Map!Visit(k)
      BY <2>2, <2>4 DEF Map!Visit
    <3> QED  BY <3>1 DEF Map!Next
  <2>5. CASE ForInPrep
    BY <2>4, <2>5, PrepStep
  <2>6. CASE ForInNext
    <3>1. CASE /\ at # NoKey /\ at' = NoKey /\ strict' = TRUE /\ seen' = {} /\ unit' = unit
               /\ strict => \A k \in Keys : Get(unit, k) # Null => k \in seen
      <4>1. Map!Stop
        BY <2>2, <3>1 DEF Map!Stop
      <4> QED  BY <4>1 DEF Map!Next
    <3> QED  BY <2>4, <2>6, <3>1, NextStep
  <2>7. CASE UNCHANGED vars
    BY <2>7 DEF vars, Map!vars
  <2> QED  BY <2>3, <2>5, <2>6, <2>7 DEF Next
<1> QED  BY <1>1, <1>2, Invariants, PTL DEF Spec, Implements, Map!Spec

=============================================================================

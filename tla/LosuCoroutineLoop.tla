------------------------ MODULE LosuCoroutineLoop -------------------------
(***************************************************************************)
(* The host's loop over the pool of coroutines while it changes: it holds  *)
(* none that was freed, forgets none and is fair, whatever their number.   *)
(***************************************************************************)
EXTENDS LosuCoroutine, SequenceTheorems, FiniteSetTheorems, WellFoundedInduction, TLAPS

-----------------------------------------------------------------------------
(* Numbers in order.                                                       *)

(* A set of numbers has a least one.                                       *)
LEMMA LeastOne == ASSUME NEW S \in SUBSET Nat, S # {}
                  PROVE  \E x \in S : \A y \in S : x <= y
<1> DEFINE R == OpToRel(<, Nat)
<1>1. \A x, y \in Nat : <<y, x>> \in R <=> y < x
  BY DEF OpToRel
<1>2. IsWellFoundedOn(R, Nat)
  BY NatLessThanWellFounded
<1> HIDE DEF R
<1>3. PICK x \in S : \A y \in S : ~(<<y, x>> \in R)
  BY <1>2, WFMin
<1>4. ASSUME NEW y \in S PROVE x <= y
  <2>1. x \in Nat /\ y \in Nat  OBVIOUS
  <2>2. ~(y < x)  BY <1>1, <1>3, <2>1
  <2> QED  BY <2>1, <2>2
<1> QED  BY <1>4

(* A sequence of numbers that grows, with the elements of S.               *)
Ordered(q, S) ==
    /\ q \in Seq(S)
    /\ \A i, j \in 1..Len(q) : i < j => q[i] < q[j]
    /\ \A x \in S : \E i \in 1..Len(q) : q[i] = x

LEMMA OrderExists == ASSUME NEW n \in Nat, NEW S \in SUBSET (1..n)
                     PROVE  \E q : Ordered(q, S)
<1> DEFINE Bad == {k \in Nat : \E T \in SUBSET (1..k) : \A q : ~Ordered(q, T)}
<1> SUFFICES Bad = {}
  OBVIOUS
<1> SUFFICES ASSUME Bad # {} PROVE FALSE
  OBVIOUS
<1>1. PICK k \in Bad : \A j \in Bad : k <= j
  <2>1. Bad \in SUBSET Nat
    OBVIOUS
  <2> HIDE DEF Bad
  <2> QED  BY <2>1, LeastOne
<1>2. PICK T \in SUBSET (1..k) : \A q : ~Ordered(q, T)
  BY <1>1
<1>3. k \in Nat /\ k # 0
  <2>1. k = 0 => T = {}
    BY <1>1
  <2>2. Ordered(<<>>, {})
    BY DEF Ordered
  <2> QED  BY <1>1, <1>2, <2>1, <2>2
<1>4. k - 1 \in Nat /\ k - 1 \notin Bad
  <2> HIDE DEF Bad
  <2> QED  BY <1>1, <1>3
<1>5. T \ {k} \in SUBSET (1..(k - 1))
  BY <1>3
<1>6. PICK q : Ordered(q, T \ {k})
  BY <1>4, <1>5
<1>7. k \in T
  <2> SUFFICES ASSUME k \notin T PROVE FALSE
    OBVIOUS
  <2>1. T \ {k} = T
    OBVIOUS
  <2> QED  BY <1>2, <1>6, <2>1
<1> DEFINE r == Append(q, k)
<1>8. q \in Seq(T) /\ Len(q) \in Nat
  <2>1. q \in Seq(T \ {k})
    BY <1>6 DEF Ordered
  <2> QED  BY <2>1, SeqMonotonic
<1>9. /\ r \in Seq(T) /\ Len(r) = Len(q) + 1 /\ r[Len(q) + 1] = k
      /\ \A i \in 1..Len(q) : r[i] = q[i]
  BY <1>7, <1>8, AppendProperties
<1>10. \A i \in 1..Len(q) : q[i] \in T \ {k} /\ q[i] < k
  <2>1. \A i \in 1..Len(q) : q[i] \in T \ {k}
    BY <1>6, ElementOfSeq DEF Ordered
  <2>2. \A x \in T \ {k} : x < k
    BY <1>3, <1>5
  <2> QED  BY <2>1, <2>2
<1> HIDE DEF r
<1>11. \A i, j \in 1..Len(r) : i < j => r[i] < r[j]
  <2> SUFFICES ASSUME NEW i \in 1..Len(r), NEW j \in 1..Len(r), i < j PROVE r[i] < r[j]
    OBVIOUS
  <2>1. i \in 1..Len(q)
    BY <1>8, <1>9
  <2>2. CASE j = Len(q) + 1
    BY <1>9, <1>10, <2>1, <2>2
  <2>3. CASE j # Len(q) + 1
    <3>1. j \in 1..Len(q)
      BY <1>8, <1>9, <2>3
    <3> QED  BY <1>6, <1>9, <2>1, <3>1 DEF Ordered
  <2> QED  BY <2>2, <2>3
<1>12. \A x \in T : \E i \in 1..Len(r) : r[i] = x
  <2> SUFFICES ASSUME NEW x \in T PROVE \E i \in 1..Len(r) : r[i] = x
    OBVIOUS
  <2>1. CASE x = k
    BY <1>8, <1>9, <2>1
  <2>2. CASE x # k
    <3>1. PICK i \in 1..Len(q) : q[i] = x
      BY <1>6, <2>2 DEF Ordered
    <3>2. i \in 1..Len(r)
      BY <1>8, <1>9
    <3> QED  BY <1>9, <3>1, <3>2
  <2> QED  BY <2>1, <2>2
<1>13. Ordered(r, T)
  BY <1>9, <1>11, <1>12 DEF Ordered
<1> QED  BY <1>2, <1>13

(* There is one such sequence, as long as the set is large.                *)
LEMMA OrderLength ==
    ASSUME NEW n \in Nat, NEW S \in SUBSET (1..n), NEW q, Ordered(q, S)
    PROVE  IsFiniteSet(S) /\ Len(q) = Cardinality(S)
<1>1. q \in [1..Len(q) -> S] /\ Len(q) \in Nat
  BY LenProperties DEF Ordered
<1>2. q \in Surjection(1..Len(q), S)
  BY <1>1 DEF Ordered, Surjection
<1>3. ASSUME NEW i \in 1..Len(q), NEW j \in 1..Len(q), q[i] = q[j] PROVE i = j
  <2>1. q[i] \in S /\ i \in Int /\ j \in Int /\ \A x \in S : x \in Int
    BY <1>1
  <2>2. q[i] \in Int
    BY <2>1
  <2>3. ~(q[i] < q[j])
    BY <1>3, <2>2
  <2>4. ~(q[j] < q[i])
    BY <1>3, <2>2
  <2> QED  BY <2>1, <2>3, <2>4 DEF Ordered
<1>4. q \in Injection(1..Len(q), S)
  BY <1>1, <1>3 DEF Injection, IsInjective
<1>5. ExistsBijection(1..Len(q), S)
  BY <1>2, <1>4 DEF ExistsBijection, Bijection
<1> QED  BY <1>1, <1>5, FS_CountingElements, FS_NatBijection

LEMMA OrderUnique ==
    ASSUME NEW n \in Nat, NEW S \in SUBSET (1..n), NEW q, NEW r, Ordered(q, S), Ordered(r, S)
    PROVE  q = r
<1>1. /\ q \in Seq(S) /\ r \in Seq(S) /\ Len(q) = Len(r) /\ Len(q) \in Nat
      /\ \A i \in 1..Len(q) : q[i] \in S /\ r[i] \in S /\ q[i] \in Int /\ r[i] \in Int
  <2>1. q \in Seq(S) /\ r \in Seq(S) /\ \A x \in S : x \in Int
    BY DEF Ordered
  <2>2. Len(q) = Len(r)
    BY OrderLength
  <2> QED  BY <2>1, <2>2, ElementOfSeq, LenProperties
<1> DEFINE Bad == {i \in 1..Len(q) : q[i] # r[i]}
<1> SUFFICES ASSUME Bad # {} PROVE FALSE
  BY <1>1, SeqEqual
<1>2. PICK k \in Bad : \A j \in Bad : k <= j
  <2>1. Bad \in SUBSET Nat
    BY <1>1
  <2> HIDE DEF Bad
  <2> QED  BY <2>1, LeastOne
<1>3. k \in 1..Len(q) /\ q[k] # r[k] /\ \A j \in 1..Len(q) : j < k => q[j] = r[j]
  BY <1>1, <1>2
<1> HIDE DEF Bad
<1>4. PICK i \in 1..Len(q) : q[i] = r[k]
  BY <1>1, <1>3 DEF Ordered
<1>5. PICK j \in 1..Len(q) : r[j] = q[k]
  BY <1>1, <1>3 DEF Ordered
<1>6. i > k /\ j > k
  <2>1. i \in Int /\ j \in Int /\ k \in Int /\ i # k /\ j # k
    BY <1>1, <1>3, <1>4, <1>5
  <2>2. i < k => r[i] < r[k] /\ q[i] = r[i] /\ r[k] \in Int
    BY <1>1, <1>3 DEF Ordered
  <2>3. j < k => q[j] < q[k] /\ q[j] = r[j] /\ q[k] \in Int
    BY <1>1, <1>3 DEF Ordered
  <2> QED  BY <1>4, <1>5, <2>1, <2>2, <2>3
<1>7. q[k] < q[i] /\ r[k] < r[j]
  BY <1>1, <1>3, <1>6 DEF Ordered
<1>8. q[k] \in Int /\ r[k] \in Int
  BY <1>1, <1>3
<1> QED  BY <1>4, <1>5, <1>7, <1>8

LEMMA InOrderIs ==
    ASSUME NEW n \in Nat, NEW S \in SUBSET (1..n)
    PROVE  /\ Ordered(InOrder(S), S)
           /\ \A q : Ordered(q, S) => q = InOrder(S)
<1>1. PICK q : Ordered(q, S)
  BY OrderExists
<1>2. Len(q) = Cardinality(S) /\ IsFiniteSet(S) /\ q \in [1..Len(q) -> S] /\ Len(q) \in Nat
  BY <1>1, OrderLength, LenProperties DEF Ordered
<1> DEFINE Fits(r) == r \in [1..Cardinality(S) -> S] /\ \A i, j \in DOMAIN r : i < j => r[i] < r[j]
           r == InOrder(S)
<1>3. Fits(q)
  BY <1>1, <1>2 DEF Ordered
<1>4. r = CHOOSE x \in [1..Cardinality(S) -> S] : \A i, j \in DOMAIN x : i < j => x[i] < x[j]
  BY DEF InOrder
<1>5. Fits(r)
  BY <1>3, <1>4
<1> HIDE DEF r
<1>6. Cardinality(S) \in Nat /\ \A i \in 1..Cardinality(S) : r[i] \in S
  BY <1>2, <1>5
<1>7. r \in Seq(S) /\ Len(r) = Cardinality(S)
  BY <1>5, <1>6
<1>8. ASSUME NEW i \in 1..Len(r), NEW j \in 1..Len(r), r[i] = r[j] PROVE i = j
  <2>1. r[i] \in S /\ i \in Int /\ j \in Int /\ \A x \in S : x \in Int
    BY <1>6, <1>7
  <2>2. r[i] \in Int
    BY <2>1
  <2>3. ~(r[i] < r[j])
    BY <1>8, <2>2
  <2>4. ~(r[j] < r[i])
    BY <1>8, <2>2
  <2> QED  BY <1>5, <1>7, <2>1, <2>3, <2>4
<1>9. r \in Injection(1..Len(r), S)
  BY <1>5, <1>7, <1>8 DEF Injection, IsInjective
<1>10. Cardinality(1..Len(r)) = Cardinality(S)
  BY <1>6, <1>7, FS_Interval
<1>11. r \in Surjection(1..Len(r), S)
  BY <1>2, <1>9, <1>10, FS_Injection
<1>12. Ordered(r, S)
  BY <1>5, <1>7, <1>11 DEF Ordered, Surjection
<1> QED  BY <1>12, OrderUnique DEF r

-----------------------------------------------------------------------------
(* The pool.                                                               *)

Before(p, c, d) == \E i, j \in 1..Len(p) : i < j /\ p[i] = c /\ p[j] = d

Pooled(p, s) ==
    /\ s \in [Coros -> CoroStates] /\ p \in Seq(Coros)
    /\ \A i, j \in 1..Len(p) : p[i] = p[j] => i = j
    /\ \A c \in Coros : s[c] # "none" <=> \E i \in 1..Len(p) : p[i] = c

(* A new coroutine comes before all others.                                *)
LEMMA PoolGrows ==
    ASSUME Pooled(pool, sta), NEW c \in Coros, sta[c] = "none",
           NEW p, p = <<c>> \o pool, NEW s, s = [sta EXCEPT ![c] = "READY"]
    PROVE  /\ Pooled(p, s)
           /\ \A d, e \in Coros : d # c => (Before(p, d, e) <=> Before(pool, d, e))
<1>1. /\ pool \in Seq(Coros) /\ Len(pool) \in Nat /\ sta \in [Coros -> CoroStates]
      /\ \A i \in 1..Len(pool) : pool[i] \in Coros
  BY ElementOfSeq, LenProperties DEF Pooled
<1>2. /\ p \in Seq(Coros) /\ Len(p) = Len(pool) + 1 /\ p[1] = c
      /\ \A i \in 1..Len(pool) : p[i + 1] = pool[i]
  BY <1>1
<1>3. \A i \in 2..Len(p) : i - 1 \in 1..Len(pool) /\ p[i] = pool[i - 1]
  <2> SUFFICES ASSUME NEW i \in 2..Len(p) PROVE i - 1 \in 1..Len(pool) /\ p[i] = pool[i - 1]
    OBVIOUS
  <2>1. i - 1 \in 1..Len(pool) /\ (i - 1) + 1 = i
    BY <1>1, <1>2
  <2> QED  BY <1>2, <2>1
<1>4. \A i \in 1..Len(pool) : pool[i] # c
  BY DEF Pooled
<1> DEFINE Alive(d) == \E i \in 1..Len(pool) : pool[i] = d
<1>5. \A d \in Coros : (\E i \in 1..Len(p) : p[i] = d) <=> d = c \/ Alive(d)
  <2> SUFFICES ASSUME NEW d \in Coros
               PROVE  (\E i \in 1..Len(p) : p[i] = d) <=> d = c \/ Alive(d)
    OBVIOUS
  <2>1. ASSUME NEW i \in 1..Len(p), p[i] = d, d # c PROVE Alive(d)
    <3>1. i \in 2..Len(p)
      BY <1>1, <1>2, <2>1
    <3> QED  BY <1>3, <2>1, <3>1
  <2>2. ASSUME NEW i \in 1..Len(pool), pool[i] = d PROVE \E j \in 1..Len(p) : p[j] = d
    <3>1. i + 1 \in 1..Len(p)
      BY <1>1, <1>2
    <3> QED  BY <1>2, <2>2, <3>1
  <2>3. 1 \in 1..Len(p)
    BY <1>1, <1>2
  <2> QED  BY <1>2, <2>1, <2>2, <2>3
<1>6. \A i, j \in 1..Len(p) : p[i] = p[j] => i = j
  <2> SUFFICES ASSUME NEW i \in 1..Len(p), NEW j \in 1..Len(p), p[i] = p[j] PROVE i = j
    OBVIOUS
  <2>1. i = 1 \/ i \in 2..Len(p)
    BY <1>1, <1>2
  <2>2. j = 1 \/ j \in 2..Len(p)
    BY <1>1, <1>2
  <2>3. CASE i = 1 \/ j = 1
    BY <1>2, <1>3, <1>4, <2>1, <2>2, <2>3
  <2>4. CASE i \in 2..Len(p) /\ j \in 2..Len(p)
    <3>1. i - 1 = j - 1
      BY <1>3, <2>4 DEF Pooled
    <3> QED  BY <1>1, <1>2, <3>1
  <2> QED  BY <2>1, <2>2, <2>3, <2>4
<1>7. s \in [Coros -> CoroStates] /\ \A d \in Coros : s[d] # "none" <=> d = c \/ Alive(d)
  BY <1>1 DEF Pooled, CoroStates
<1>8. ASSUME NEW d \in Coros, NEW e \in Coros, d # c
      PROVE  Before(p, d, e) <=> Before(pool, d, e)
  <2>1. ASSUME NEW i \in 1..Len(p), NEW j \in 1..Len(p), i < j, p[i] = d, p[j] = e
        PROVE  Before(pool, d, e)
    <3>1. i \in 2..Len(p) /\ j \in 2..Len(p)
      BY <1>1, <1>2, <1>8, <2>1
    <3>2. i - 1 < j - 1
      BY <1>1, <1>2, <2>1
    <3> QED  BY <1>3, <2>1, <3>1, <3>2 DEF Before
  <2>2. ASSUME NEW i \in 1..Len(pool), NEW j \in 1..Len(pool), i < j,
               pool[i] = d, pool[j] = e
        PROVE  Before(p, d, e)
    <3>1. i + 1 \in 1..Len(p) /\ j + 1 \in 1..Len(p) /\ i + 1 < j + 1
      BY <1>1, <1>2, <2>2
    <3> QED  BY <1>2, <2>2, <3>1 DEF Before
  <2> QED  BY <2>1, <2>2 DEF Before
<1> HIDE DEF Alive
<1>9. Pooled(p, s)
  BY <1>2, <1>5, <1>6, <1>7 DEF Pooled
<1> QED  BY <1>8, <1>9

(* Those a collection leaves keep their order.                             *)
LEMMA PoolShrinks ==
    ASSUME Pooled(pool, sta), NEW over \in SUBSET Coros, Freed(over)
    PROVE  /\ Pooled(pool', sta')
           /\ \A c, d \in Coros \ over : Before(pool', c, d) <=> Before(pool, c, d)
<1>1. /\ pool \in Seq(Coros) /\ Len(pool) \in Nat /\ sta \in [Coros -> CoroStates]
      /\ DOMAIN pool = 1..Len(pool) /\ \A i \in 1..Len(pool) : pool[i] \in Coros
  BY ElementOfSeq, LenProperties DEF Pooled
<1> DEFINE S == {i \in 1..Len(pool) : pool[i] \notin over}
           kept == InOrder(S)
<1>2. Ordered(kept, S)
  <2>1. S \in SUBSET (1..Len(pool))
    OBVIOUS
  <2> HIDE DEF S
  <2> QED  BY <1>1, <2>1, InOrderIs
<1>3. /\ pool' = [k \in DOMAIN kept |-> pool[kept[k]]]
      /\ sta' = [c \in Coros |-> IF c \in over THEN "none" ELSE sta[c]]
  BY <1>1 DEF Freed
<1> HIDE DEF kept
<1>4. /\ kept \in Seq(S) /\ Len(kept) \in Nat /\ DOMAIN kept = 1..Len(kept)
      /\ \A k \in 1..Len(kept) : kept[k] \in S
  <2>1. kept \in Seq(S)
    BY <1>2 DEF Ordered
  <2> HIDE DEF S
  <2> QED  BY <2>1, ElementOfSeq, LenProperties
<1>5. \A k \in 1..Len(kept) : kept[k] \in 1..Len(pool) /\ pool[kept[k]] \in Coros \ over
  BY <1>1, <1>4
<1>6. /\ pool' \in Seq(Coros) /\ Len(pool') = Len(kept)
      /\ \A k \in 1..Len(kept) : pool'[k] = pool[kept[k]]
  BY <1>3, <1>4, <1>5
<1>7. \A k, l \in 1..Len(kept) : k < l => kept[k] < kept[l]
  BY <1>2 DEF Ordered
<1>8. \A i \in 1..Len(pool) : pool[i] \notin over => \E k \in 1..Len(kept) : kept[k] = i
  BY <1>2 DEF Ordered
<1> HIDE DEF S
<1>9. \A k, l \in 1..Len(kept) : kept[k] < kept[l] => k < l
  <2> SUFFICES ASSUME NEW k \in 1..Len(kept), NEW l \in 1..Len(kept), kept[k] < kept[l], ~(k < l)
               PROVE  FALSE
    OBVIOUS
  <2>1. k \in Int /\ l \in Int /\ kept[k] \in Int /\ kept[l] \in Int
    BY <1>1, <1>4, <1>5
  <2>2. l < k \/ l = k
    BY <2>1
  <2>3. CASE l < k
    <3>1. kept[l] < kept[k]
      BY <1>7, <2>3
    <3> QED  BY <2>1, <3>1
  <2>4. CASE l = k
    BY <2>1, <2>4
  <2> QED  BY <2>2, <2>3, <2>4
<1>10. \A k, l \in 1..Len(pool') : pool'[k] = pool'[l] => k = l
  <2> SUFFICES ASSUME NEW k \in 1..Len(kept), NEW l \in 1..Len(kept), kept[k] = kept[l]
               PROVE  k = l
    BY <1>5, <1>6 DEF Pooled
  <2>1. k \in Int /\ l \in Int /\ kept[k] \in Int
    BY <1>1, <1>4, <1>5
  <2>2. ~(kept[k] < kept[l]) /\ ~(kept[l] < kept[k])
    <3> DEFINE a == kept[k]
    <3>1. a \in Int /\ kept[l] = a
      BY <2>1
    <3> HIDE DEF a
    <3>2. ~(a < a)
      BY <3>1
    <3> QED  BY <3>1, <3>2 DEF a
  <2> QED  BY <1>7, <2>1, <2>2
<1>11. \A c \in Coros : sta'[c] # "none" <=> \E k \in 1..Len(pool') : pool'[k] = c
  <2> SUFFICES ASSUME NEW c \in Coros
               PROVE  sta'[c] # "none" <=> \E k \in 1..Len(kept) : pool[kept[k]] = c
    BY <1>6
  <2>1. CASE c \in over
    BY <1>3, <1>5, <2>1
  <2>2. CASE c \notin over
    <3>1. sta'[c] = sta[c]
      BY <1>3, <2>2
    <3>2. ASSUME NEW i \in 1..Len(pool), pool[i] = c
          PROVE  \E k \in 1..Len(kept) : pool[kept[k]] = c
      BY <1>8, <2>2, <3>2
    <3> QED  BY <1>5, <3>1, <3>2 DEF Pooled
  <2> QED  BY <2>1, <2>2
<1>12. sta' \in [Coros -> CoroStates]
  BY <1>1, <1>3 DEF CoroStates
<1>13. ASSUME NEW c \in Coros \ over, NEW d \in Coros \ over
       PROVE  Before(pool', c, d) <=> Before(pool, c, d)
  <2>1. ASSUME NEW k \in 1..Len(kept), NEW l \in 1..Len(kept), k < l,
               pool[kept[k]] = c, pool[kept[l]] = d
        PROVE  Before(pool, c, d)
    BY <1>5, <1>7, <2>1 DEF Before
  <2>2. ASSUME NEW i \in 1..Len(pool), NEW j \in 1..Len(pool), i < j,
               pool[i] = c, pool[j] = d
        PROVE  Before(pool', c, d)
    <3>1. PICK k \in 1..Len(kept) : kept[k] = i
      BY <1>8, <2>2
    <3>2. PICK l \in 1..Len(kept) : kept[l] = j
      BY <1>8, <2>2
    <3>3. k < l
      BY <1>9, <2>2, <3>1, <3>2
    <3> QED  BY <1>6, <2>2, <3>1, <3>2, <3>3 DEF Before
  <2> QED  BY <1>6, <2>1, <2>2 DEF Before
<1> QED  BY <1>6, <1>10, <1>11, <1>12, <1>13 DEF Pooled

(* The first one, and the next one.                                        *)
LEMMA HeadIs ==
    ASSUME Pooled(pool, sta), pool # <<>>
    PROVE  /\ Head(pool) \in Coros /\ sta[Head(pool)] # "none"
           /\ \A c : ~Before(pool, c, Head(pool))
<1>1. pool \in Seq(Coros) /\ Len(pool) \in Nat /\ Len(pool) # 0
  BY EmptySeq, LenProperties DEF Pooled
<1>2. Head(pool) = pool[1] /\ 1 \in 1..Len(pool) /\ pool[1] \in Coros
  BY <1>1, ElementOfSeq
<1>3. ASSUME NEW i \in 1..Len(pool), NEW j \in 1..Len(pool), i < j PROVE pool[j] # pool[1]
  <2>1. j # 1
    BY <1>1, <1>3
  <2> QED  BY <1>2, <2>1 DEF Pooled
<1> QED  BY <1>2, <1>3 DEF Pooled, Before

LEMMA AfterIs ==
    ASSUME Pooled(pool, sta), NEW c \in Coros, sta[c] # "none"
    PROVE  /\ ~Before(pool, c, c)
           /\ After(c) = NoCoro => \A d \in Coros : sta[d] # "none" => d = c \/ Before(pool, d, c)
           /\ After(c) # NoCoro =>
                 /\ After(c) \in Coros /\ sta[After(c)] # "none"
                 /\ \A d \in Coros : Before(pool, d, After(c)) <=> d = c \/ Before(pool, d, c)
<1>1. pool \in Seq(Coros) /\ Len(pool) \in Nat /\ DOMAIN pool = 1..Len(pool)
  BY LenProperties DEF Pooled
<1> DEFINE i == CHOOSE j \in 1..Len(pool) : pool[j] = c
<1>2. i \in 1..Len(pool) /\ pool[i] = c
  BY DEF Pooled
<1>3. After(c) = IF i = Len(pool) THEN NoCoro ELSE pool[i + 1]
  BY <1>1 DEF After
<1> HIDE DEF i
<1>4. \A j \in 1..Len(pool) : pool[j] = c => j = i
  BY <1>2 DEF Pooled
<1>5. \A d : Before(pool, d, c) <=> \E j \in 1..Len(pool) : j < i /\ pool[j] = d
  BY <1>2, <1>4 DEF Before
<1>6. ~Before(pool, c, c)
  BY <1>1, <1>2, <1>4, <1>5
<1>7. CASE i = Len(pool)
  <2>1. After(c) = NoCoro
    BY <1>3, <1>7
  <2>2. ASSUME NEW d \in Coros, sta[d] # "none" PROVE d = c \/ Before(pool, d, c)
    <3>1. PICK j \in 1..Len(pool) : pool[j] = d
      BY <2>2 DEF Pooled
    <3>2. j = i \/ j < i
      <4>1. j \in Int /\ j <= i
        BY <1>1, <1>7
      <4>2. i \in Int
        BY <1>2
      <4> QED  BY <4>1, <4>2
    <3> QED  BY <1>2, <1>5, <3>1, <3>2
  <2> QED  BY <1>6, <2>1, <2>2
<1>8. CASE i # Len(pool)
  <2>1. i + 1 \in 1..Len(pool) /\ After(c) = pool[i + 1] /\ pool[i + 1] \in Coros
    <3>1. i + 1 \in 1..Len(pool)
      <4> DEFINE n == Len(pool)
      <4>1. i \in 1..n /\ n \in Nat /\ i # n
        BY <1>1, <1>2, <1>8
      <4> HIDE DEF n
      <4>2. i + 1 \in 1..n
        BY <4>1
      <4> QED  BY <4>2 DEF n
    <3> QED  BY <1>1, <1>3, <1>8, <3>1, ElementOfSeq
  <2>2. After(c) # NoCoro /\ sta[After(c)] # "none"
    BY <2>1, Sizes DEF Pooled
  <2>3. \A j \in 1..Len(pool) : pool[j] = pool[i + 1] => j = i + 1
    BY <2>1 DEF Pooled
  <2>4. \A d : Before(pool, d, After(c)) <=> \E j \in 1..Len(pool) : j < i + 1 /\ pool[j] = d
    BY <2>1, <2>3 DEF Before
  <2>5. \A j \in 1..Len(pool) : j < i + 1 <=> j = i \/ j < i
    BY <1>1, <1>2
  <2>6. \A d \in Coros : Before(pool, d, After(c)) <=> d = c \/ Before(pool, d, c)
    BY <1>2, <1>5, <2>4, <2>5
  <2> QED  BY <1>6, <2>1, <2>2, <2>6
<1> QED  BY <1>7, <1>8

-----------------------------------------------------------------------------
(* The loop of the host.                                                   *)

LoopTypes ==
    /\ cur \in Coros \cup {NoCoro} /\ cursor \in Coros \cup {NoCoro}
    /\ host \in {"exec", "loop", "done"} /\ again \in BOOLEAN
    /\ since \in [Coros -> SUBSET Coros]

AtCursor ==
    /\ cursor # NoCoro => host = "loop" /\ sta[cursor] # "none"
    /\ cur # NoCoro => cursor = cur /\ sta[cur] = "RUN"
    /\ \A c \in Coros : sta[c] = "RUN" => c = cur

(* The pass has been at c, or c was created behind it.                     *)
Gone(c) == cursor = NoCoro \/ Before(pool, c, cursor) \/ (cur # NoCoro /\ c = cursor)

(* A pass that has found nothing to run leaves nothing to run behind it.   *)
PassOver ==
    /\ host = "loop" /\ cur = NoCoro /\ ~again =>
          \A c \in Coros : Gone(c) => ~Suspended(c)
    /\ host = "done" => \A c \in Coros : ~Suspended(c)

(* What was awaited since d ran lies between d and the cursor, in the      *)
(* order of the pool, which the pass takes as a ring.                      *)
Turns ==
    /\ \A c \in Coros : ~Suspended(c) \/ host = "exec" => since[c] = {}
    /\ \A d \in Coros : Suspended(d) => \A e \in since[d] : sta[e] # "none" =>
          /\ Before(pool, d, e) \/ Gone(e)
          /\ Gone(d) => Before(pool, d, e) /\ Gone(e)

LoopInv == Pooled(pool, sta) /\ LoopTypes /\ AtCursor /\ PassOver /\ Turns

loopVars == <<pool, sta, cur, host, cursor, again, since>>

LEMMA LoopInit == Init => LoopInv
<1> SUFFICES ASSUME Init PROVE LoopInv
  OBVIOUS
<1>1. pool \in Seq(Coros) /\ 1..Len(pool) = {}
  BY DEF Init
<1>2. Pooled(pool, sta)
  BY <1>1 DEF Init, Pooled, CoroStates
<1>3. LoopTypes /\ AtCursor
  BY DEF Init, LoopTypes, AtCursor
<1>4. PassOver /\ Turns
  BY DEF Init, PassOver, Turns, Suspended
<1> QED  BY <1>2, <1>3, <1>4 DEF LoopInv

LEMMA LoopQuiet == LoopInv /\ UNCHANGED loopVars => LoopInv'
  BY DEF LoopInv, loopVars, LoopTypes, AtCursor, PassOver, Turns, Gone, Suspended, Awaits

(* The cursor moves on from c.                                             *)
LEMMA Advance ==
    ASSUME LoopInv, NEW c \in Coros, cursor = c, cursor' = After(c), cur' = NoCoro,
           pool' = pool, NEW to \in CoroStates \ {"none", "RUN"}, sta' = [sta EXCEPT ![c] = to],
           host = "loop", host' = host
    PROVE  /\ Pooled(pool', sta') /\ AtCursor' /\ cursor' \in Coros \cup {NoCoro}
           /\ \A d \in Coros : sta[d] # "none" => (Gone(d)' <=> Gone(d) \/ d = c)
<1>1. cursor # NoCoro /\ sta[c] # "none" /\ sta \in [Coros -> CoroStates]
  BY Sizes DEF LoopInv, AtCursor, Pooled
<1>2. \A d \in Coros :
          /\ sta'[d] # "none" <=> sta[d] # "none"
          /\ d # c => sta'[d] = sta[d]
  BY <1>1
<1>3. sta' \in [Coros -> CoroStates] /\ sta'[c] = to
  BY <1>1
<1>4. Pooled(pool', sta')
  BY <1>2, <1>3 DEF LoopInv, Pooled
<1>5. /\ After(c) = NoCoro => \A d \in Coros : sta[d] # "none" => d = c \/ Before(pool, d, c)
      /\ After(c) # NoCoro =>
            /\ After(c) \in Coros /\ sta[After(c)] # "none"
            /\ \A d \in Coros : Before(pool, d, After(c)) <=> d = c \/ Before(pool, d, c)
  BY <1>1, AfterIs DEF LoopInv
<1>6. AtCursor'
  <2>1. cursor' # NoCoro => host' = "loop" /\ sta'[cursor'] # "none"
    BY <1>2, <1>5
  <2>2. \A d \in Coros : sta'[d] # "RUN"
    BY <1>1, <1>2, <1>3, Sizes DEF LoopInv, AtCursor
  <2> QED  BY <2>1, <2>2 DEF AtCursor
<1>7. \A d \in Coros : sta[d] # "none" => (Gone(d)' <=> Gone(d) \/ d = c)
  BY <1>1, <1>5 DEF Gone
<1> QED  BY <1>4, <1>5, <1>6, <1>7

LEMMA LoopLeave ==
    ASSUME LoopInv, Running, NEW to \in {"YIELD", "END"}, Leave(to)
    PROVE  LoopInv'
<1>1. cur \in Coros /\ cursor = cur /\ cur # NoCoro /\ host = "loop" /\ sta \in [Coros -> CoroStates]
  BY DEF LoopInv, LoopTypes, AtCursor, Running, Pooled
<1>2. /\ sta' = [sta EXCEPT ![cur] = to] /\ cur' = NoCoro /\ again' = TRUE
      /\ cursor' = After(cur) /\ pool' = pool /\ host' = host /\ since' = since
  BY DEF Leave
<1>3. /\ Pooled(pool', sta') /\ AtCursor' /\ cursor' \in Coros \cup {NoCoro}
      /\ \A d \in Coros : sta[d] # "none" => (Gone(d)' <=> Gone(d) \/ d = cur)
  <2>1. to \in CoroStates \ {"none", "RUN"}
    BY DEF CoroStates
  <2> QED  BY <1>1, <1>2, <2>1, Advance
<1>4. LoopTypes' /\ PassOver'
  BY <1>1, <1>2, <1>3 DEF LoopInv, LoopTypes, PassOver
<1>5. sta[cur] = "RUN" /\ Gone(cur) /\ since[cur] = {}
  BY <1>1 DEF LoopInv, AtCursor, Turns, Suspended, Gone
<1>6. \A d \in Coros : d # cur => sta'[d] = sta[d]
  BY <1>1, <1>2
<1>7. \A c \in Coros : ~Suspended(c)' \/ host' = "exec" => since'[c] = {}
  BY <1>1, <1>2, <1>5, <1>6 DEF LoopInv, Turns, Suspended
<1>8. ASSUME NEW d \in Coros, Suspended(d)', NEW e \in since'[d], sta'[e] # "none"
      PROVE  /\ Before(pool', d, e) \/ Gone(e)'
             /\ Gone(d)' => Before(pool', d, e) /\ Gone(e)'
  <2>1. d # cur /\ e \in since[d] /\ e \in Coros
    BY <1>2, <1>5, <1>8 DEF LoopInv, LoopTypes
  <2>2. Suspended(d) /\ sta[e] # "none" /\ sta[d] # "none"
    BY <1>5, <1>6, <1>8, <2>1 DEF Suspended
  <2>3. (Gone(e)' <=> Gone(e)) /\ (Gone(d)' <=> Gone(d))
    BY <1>3, <1>5, <2>1, <2>2
  <2> QED  BY <1>2, <2>1, <2>2, <2>3 DEF LoopInv, Turns
<1>9. Turns'
  BY <1>7, <1>8 DEF Turns
<1> QED  BY <1>3, <1>4, <1>9 DEF LoopInv

LEMMA LoopEnded ==
    ASSUME LoopInv, NEW c \in Coros, AwaitEnd(c)
    PROVE  LoopInv'
<1>1. /\ cursor = c /\ cur = NoCoro /\ host = "loop" /\ sta[c] = "END" /\ cursor' = After(c)
      /\ pool' = pool /\ sta' = sta /\ cur' = cur /\ host' = host /\ again' = again
      /\ since' = since
  BY DEF AwaitEnd, Awaits, runVars
<1>2. /\ Pooled(pool', sta') /\ AtCursor' /\ cursor' \in Coros \cup {NoCoro}
      /\ \A d \in Coros : sta[d] # "none" => (Gone(d)' <=> Gone(d) \/ d = c)
  <2>1. sta' = [sta EXCEPT ![c] = "END"] /\ "END" \in CoroStates \ {"none", "RUN"}
    BY <1>1 DEF LoopInv, Pooled, CoroStates
  <2> QED  BY <1>1, <2>1, Advance
<1>3. ~Suspended(c)
  BY <1>1 DEF Suspended
<1>4. LoopTypes'
  BY <1>1, <1>2 DEF LoopInv, LoopTypes
<1>5. PassOver'
  BY <1>1, <1>2, <1>3 DEF LoopInv, PassOver, Suspended
<1>6. \A d \in Coros : ~Suspended(d)' \/ host' = "exec" => since'[d] = {}
  BY <1>1 DEF LoopInv, Turns, Suspended
<1>7. ASSUME NEW d \in Coros, Suspended(d)', NEW e \in since'[d], sta'[e] # "none"
      PROVE  /\ Before(pool', d, e) \/ Gone(e)'
             /\ Gone(d)' => Before(pool', d, e) /\ Gone(e)'
  <2>1. Suspended(d) /\ sta[d] # "none" /\ d # c /\ e \in since[d] /\ e \in Coros /\ sta[e] # "none"
    BY <1>1, <1>7 DEF Suspended, LoopInv, LoopTypes
  <2>2. (Gone(e) => Gone(e)') /\ (Gone(d)' <=> Gone(d))
    BY <1>2, <2>1
  <2> QED  BY <1>1, <2>1, <2>2 DEF LoopInv, Turns
<1>8. Turns'
  BY <1>6, <1>7 DEF Turns
<1> QED  BY <1>2, <1>4, <1>5, <1>8 DEF LoopInv

(* c is awaited: it runs, or it cannot be called.                          *)
LEMMA LoopFails ==
    ASSUME LoopInv, NEW c \in Coros, NEW x, AwaitFails(c, x)
    PROVE  LoopInv'
<1>1. /\ cursor = c /\ cur = NoCoro /\ host = "loop" /\ sta[c] = "READY" /\ cursor' = After(c)
      /\ pool' = pool /\ sta' = [sta EXCEPT ![c] = "END"] /\ cur' = cur /\ host' = host
      /\ again' = TRUE /\ since' = Awaited(c) /\ sta \in [Coros -> CoroStates]
  BY DEF AwaitFails, Awaits, runVars, LoopInv, Pooled
<1>2. /\ Pooled(pool', sta') /\ AtCursor' /\ cursor' \in Coros \cup {NoCoro}
      /\ \A d \in Coros : sta[d] # "none" => (Gone(d)' <=> Gone(d) \/ d = c)
  <2>1. "END" \in CoroStates \ {"none", "RUN"}
    BY DEF CoroStates
  <2> QED  BY <1>1, <2>1, Advance
<1>3. LoopTypes' /\ PassOver'
  BY <1>1, <1>2 DEF LoopInv, LoopTypes, PassOver, Awaited
<1>4. \A d \in Coros : ~Suspended(d)' => since'[d] = {}
  BY <1>1 DEF Awaited, Suspended
<1>5. ASSUME NEW d \in Coros, Suspended(d)', NEW e \in since'[d], sta'[e] # "none"
      PROVE  /\ Before(pool', d, e) \/ Gone(e)'
             /\ Gone(d)' => Before(pool', d, e) /\ Gone(e)'
  <2>1. Suspended(d) /\ sta[d] # "none" /\ d # c /\ (e = c \/ e \in since[d]) /\ e \in Coros
    BY <1>1, <1>5 DEF Suspended, Awaited, LoopInv, LoopTypes
  <2>2. sta[e] # "none"
    BY <1>1, <1>5, <2>1
  <2>3. (Gone(e)' <=> Gone(e) \/ e = c) /\ (Gone(d)' <=> Gone(d))
    BY <1>2, <2>1, <2>2
  <2>4. CASE e = c
    <3>1. Gone(d) => Before(pool, d, c)
      BY <1>1, Sizes DEF Gone
    <3> QED  BY <1>1, <2>3, <2>4, <3>1
  <2>5. CASE e # c
    BY <1>1, <2>1, <2>2, <2>3, <2>5 DEF LoopInv, Turns
  <2> QED  BY <2>4, <2>5
<1>6. Turns'
  BY <1>1, <1>4, <1>5 DEF Turns
<1> QED  BY <1>2, <1>3, <1>6 DEF LoopInv

LEMMA LoopRuns ==
    ASSUME LoopInv, NEW c \in Coros, Awaits(c), sta[c] \in {"READY", "YIELD"}, RunsNow(c)
    PROVE  LoopInv'
<1>1. /\ cursor = c /\ cur = NoCoro /\ host = "loop" /\ cursor' = c /\ cur' = c
      /\ pool' = pool /\ sta' = [sta EXCEPT ![c] = "RUN"] /\ host' = host /\ again' = again
      /\ since' = Awaited(c) /\ sta \in [Coros -> CoroStates] /\ c # NoCoro
  BY Sizes DEF Awaits, RunsNow, hostVars, LoopInv, Pooled
<1>2. \A d \in Coros : d # c => sta'[d] = sta[d]
  BY <1>1
<1>3. sta'[c] = "RUN" /\ sta' \in [Coros -> CoroStates]
  BY <1>1 DEF CoroStates
<1>4. Pooled(pool', sta')
  BY <1>1, <1>2, <1>3 DEF LoopInv, Pooled
<1>5. LoopTypes' /\ PassOver'
  BY <1>1 DEF LoopInv, LoopTypes, PassOver, Awaited
<1>6. AtCursor'
  BY <1>1, <1>2, <1>3, Sizes DEF LoopInv, AtCursor
<1>7. \A d \in Coros : ~Suspended(d)' => since'[d] = {}
  BY <1>1 DEF Awaited, Suspended
<1>8. ASSUME NEW d \in Coros, Suspended(d)', NEW e \in since'[d], sta'[e] # "none"
      PROVE  /\ Before(pool', d, e) \/ Gone(e)'
             /\ Gone(d)' => Before(pool', d, e) /\ Gone(e)'
  <2>1. Suspended(d) /\ d # c /\ (e = c \/ e \in since[d]) /\ e \in Coros
    BY <1>1, <1>3, <1>8 DEF Suspended, Awaited, LoopInv, LoopTypes
  <2>2. (Gone(e)' <=> Gone(e) \/ e = c) /\ (Gone(d)' <=> Gone(d))
    BY <1>1, <2>1 DEF Gone
  <2>3. CASE e = c
    <3>1. Gone(d) => Before(pool, d, c)
      BY <1>1 DEF Gone
    <3> QED  BY <1>1, <2>2, <2>3, <3>1
  <2>4. CASE e # c
    BY <1>1, <1>2, <1>8, <2>1, <2>2, <2>4 DEF LoopInv, Turns
  <2> QED  BY <2>3, <2>4
<1>9. Turns'
  BY <1>1, <1>7, <1>8 DEF Turns
<1> QED  BY <1>4, <1>5, <1>6, <1>9 DEF LoopInv

(* A pass begins.                                                          *)
LEMMA LoopBegins ==
    ASSUME LoopInv, pool' = pool, sta' = sta, cur = NoCoro, cur' = NoCoro, cursor = NoCoro,
           since' = since, host \in {"exec", "loop"}, host' = "loop", again' = FALSE,
           cursor' = IF pool = <<>> THEN NoCoro ELSE Head(pool)
    PROVE  LoopInv'
<1>1. CASE pool = <<>>
  <2>1. \A c \in Coros : sta[c] = "none"
    BY <1>1 DEF LoopInv, Pooled
  <2>2. cursor' = NoCoro
    BY <1>1
  <2>3. \A c \in Coros : since[c] = {}
    BY <2>1 DEF LoopInv, Turns, Suspended
  <2>4. Pooled(pool', sta') /\ LoopTypes' /\ AtCursor' /\ PassOver' /\ Turns'
    BY <2>1, <2>2, <2>3 DEF LoopInv, LoopTypes, AtCursor, PassOver, Turns, Suspended
  <2> QED  BY <2>4 DEF LoopInv
<1>2. CASE pool # <<>>
  <2>1. cursor' \in Coros /\ sta[cursor'] # "none" /\ \A c : ~Before(pool, c, cursor')
    BY <1>2, HeadIs DEF LoopInv
  <2>2. \A c \in Coros : ~Gone(c)'
    BY <2>1, Sizes DEF Gone
  <2>3. \A c \in Coros : Gone(c)
    BY DEF Gone
  <2>4. Pooled(pool', sta') /\ LoopTypes' /\ AtCursor'
    BY <2>1 DEF LoopInv, LoopTypes, AtCursor
  <2>5. PassOver'
    BY <2>2 DEF PassOver
  <2>6. \A c \in Coros : ~Suspended(c)' => since'[c] = {}
    BY DEF LoopInv, Turns, Suspended
  <2>7. ASSUME NEW d \in Coros, Suspended(d)', NEW e \in since'[d], sta'[e] # "none"
        PROVE  Before(pool', d, e)
    BY <2>3, <2>7 DEF LoopInv, Turns, Suspended
  <2>8. Turns'
    BY <2>2, <2>6, <2>7 DEF Turns
  <2> QED  BY <2>4, <2>5, <2>8 DEF LoopInv
<1> QED  BY <1>1, <1>2

LEMMA LoopPass == LoopInv /\ Pass => LoopInv'
<1> SUFFICES ASSUME LoopInv, Pass PROVE LoopInv'
  OBVIOUS
<1>1. /\ host = "loop" /\ cur = NoCoro /\ cursor = NoCoro /\ pool' = pool /\ sta' = sta
      /\ cur' = NoCoro /\ since' = since
  BY DEF Pass, runVars
<1>2. CASE again
  BY <1>1, <1>2, LoopBegins DEF Pass
<1>3. CASE ~again
  <2>1. host' = "done" /\ cursor' = NoCoro /\ again' = again
    BY <1>1, <1>3 DEF Pass
  <2>2. \A c \in Coros : ~Suspended(c) /\ Gone(c)
    BY <1>1, <1>3 DEF LoopInv, PassOver, Gone
  <2>3. Pooled(pool', sta') /\ LoopTypes' /\ AtCursor'
    BY <1>1, <2>1 DEF LoopInv, LoopTypes, AtCursor
  <2>4. PassOver' /\ Turns'
    BY <1>1, <2>1, <2>2 DEF LoopInv, PassOver, Turns, Suspended
  <2> QED  BY <2>3, <2>4 DEF LoopInv
<1> QED  BY <1>2, <1>3

LEMMA LoopCollect == LoopInv /\ Collect => LoopInv'
<1> SUFFICES ASSUME LoopInv, Collect PROVE LoopInv'
  OBVIOUS
<1> DEFINE over == {c \in Coros : sta[c] = "END"}
<1>1. /\ Running /\ Freed(over) /\ cur' = cur /\ host' = host /\ cursor' = cursor
      /\ again' = again /\ since' = since
  BY DEF Collect, runVars, hostVars
<1>2. \A c \in Coros : sta'[c] = IF sta[c] = "END" THEN "none" ELSE sta[c]
  BY <1>1 DEF Freed
<1>3. /\ Pooled(pool', sta')
      /\ \A c, d \in Coros \ over : Before(pool', c, d) <=> Before(pool, c, d)
  <2>1. over \in SUBSET Coros
    OBVIOUS
  <2> HIDE DEF over
  <2> QED  BY <1>1, <2>1, PoolShrinks DEF LoopInv
<1>4. cur \in Coros /\ cur # NoCoro /\ cursor = cur /\ sta[cur] = "RUN" /\ host = "loop"
  BY <1>1 DEF Running, LoopInv, LoopTypes, AtCursor
<1>5. \A c, d \in Coros : sta[c] # "END" /\ sta[d] # "END" =>
          (Before(pool', c, d) <=> Before(pool, c, d))
  BY <1>3
<1> HIDE DEF over
<1>6. \A c \in Coros : sta[c] # "END" => (Gone(c)' <=> Gone(c))
  BY <1>1, <1>4, <1>5 DEF Gone
<1>7. LoopTypes' /\ AtCursor' /\ PassOver'
  BY <1>1, <1>2, <1>4 DEF LoopInv, LoopTypes, AtCursor, PassOver
<1>8. \A c \in Coros : Suspended(c)' <=> Suspended(c)
  BY <1>2 DEF Suspended
<1>9. ASSUME NEW d \in Coros, Suspended(d)', NEW e \in since'[d], sta'[e] # "none"
      PROVE  /\ Before(pool', d, e) \/ Gone(e)'
             /\ Gone(d)' => Before(pool', d, e) /\ Gone(e)'
  <2>1. Suspended(d) /\ sta[d] # "END" /\ e \in since[d] /\ e \in Coros
    BY <1>1, <1>8, <1>9 DEF Suspended, LoopInv, LoopTypes
  <2>2. sta[e] # "END" /\ sta[e] # "none"
    BY <1>2, <1>9, <2>1
  <2> QED  BY <1>5, <1>6, <2>1, <2>2 DEF LoopInv, Turns
<1>10. \A c \in Coros : ~Suspended(c)' \/ host' = "exec" => since'[c] = {}
  BY <1>1, <1>8 DEF LoopInv, Turns
<1>11. Turns'
  BY <1>9, <1>10 DEF Turns
<1> QED  BY <1>3, <1>7, <1>11 DEF LoopInv

LEMMA LoopAsync ==
    ASSUME LoopInv, NEW c \in Coros, NEW narg, Async(c, narg)
    PROVE  LoopInv'
<1>1. /\ sta[c] = "none" /\ sta' = [sta EXCEPT ![c] = "READY"] /\ pool' = <<c>> \o pool
      /\ since' = [d \in Coros |-> IF d = c THEN {} ELSE since[d] \ {c}]
      /\ host = "exec" \/ Running
      /\ cur' = cur /\ host' = host /\ cursor' = cursor /\ again' = again
      /\ sta \in [Coros -> CoroStates]
  BY DEF Async, runVars, hostVars, LoopInv, Pooled
<1>2. /\ Pooled(pool', sta')
      /\ \A d, e \in Coros : d # c => (Before(pool', d, e) <=> Before(pool, d, e))
  BY <1>1, PoolGrows DEF LoopInv
<1>3. sta'[c] = "READY" /\ \A d \in Coros : d # c => sta'[d] = sta[d]
  BY <1>1
<1>4. LoopTypes' /\ AtCursor'
  BY <1>1, <1>3 DEF LoopInv, LoopTypes, AtCursor
<1>5. host = "exec" => cur = NoCoro /\ cursor = NoCoro
  BY DEF LoopInv, AtCursor
<1>6. PassOver'
  BY <1>1, <1>5 DEF PassOver, Running
<1>7. \A d \in Coros : d # c => (Gone(d)' <=> Gone(d))
  BY <1>1, <1>2 DEF Gone, LoopInv, LoopTypes
<1>8. \A d \in Coros : ~Suspended(d)' \/ host' = "exec" => since'[d] = {}
  BY <1>1, <1>3 DEF LoopInv, Turns, Suspended
<1>9. ASSUME NEW d \in Coros, Suspended(d)', NEW e \in since'[d], sta'[e] # "none"
      PROVE  /\ Before(pool', d, e) \/ Gone(e)'
             /\ Gone(d)' => Before(pool', d, e) /\ Gone(e)'
  <2>1. d # c /\ e # c /\ e \in since[d] /\ e \in Coros
    BY <1>1, <1>9 DEF LoopInv, LoopTypes
  <2>2. Suspended(d) /\ sta[e] # "none"
    BY <1>3, <1>9, <2>1 DEF Suspended
  <2> QED  BY <1>2, <1>7, <2>1, <2>2 DEF LoopInv, Turns
<1>10. Turns'
  BY <1>8, <1>9 DEF Turns
<1> QED  BY <1>2, <1>4, <1>6, <1>10 DEF LoopInv

LEMMA LoopStep == LoopInv /\ [Next]_vars => LoopInv'
<1> SUFFICES ASSUME LoopInv, [Next]_vars PROVE LoopInv'
  OBVIOUS
<1>1. CASE Push \/ Pop \/ Closed \/ UNCHANGED vars
  <2>1. UNCHANGED loopVars
    BY <1>1 DEF Push, Pop, Closed, vars, loopVars, runVars, hostVars
  <2> QED  BY <2>1, LoopQuiet
<1>2. CASE \E narg \in 0..MaxStack, nres \in NResults, x \in Contexts \cup {Raw} :
              Call(narg, nres, x)
  <2>1. UNCHANGED loopVars
    BY <1>2 DEF Call, loopVars, hostVars
  <2> QED  BY <2>1, LoopQuiet
<1>3. CASE \E narg \in 1..2, nres \in {0, 1} : NativeCall(narg, nres)
  <2>1. UNCHANGED loopVars
    BY <1>3 DEF NativeCall, loopVars, hostVars
  <2> QED  BY <2>1, LoopQuiet
<1>4. CASE \E k \in 0..MaxStack : Return(k)
  <2>1. UNCHANGED loopVars
    BY <1>4 DEF Return, loopVars, hostVars
  <2> QED  BY <2>1, LoopQuiet
<1>5. CASE Suspend
  <2>1. Running /\ \E to \in {"YIELD", "END"} : Leave(to)
    BY <1>5 DEF Suspend, Yield, Finish, Fail
  <2> QED  BY <2>1, LoopLeave
<1>6. CASE ExecReturn
  <2>1. cur = NoCoro /\ cursor = NoCoro
    BY <1>6 DEF ExecReturn, LoopInv, AtCursor
  <2> QED  BY <1>6, <2>1, LoopBegins DEF ExecReturn, runVars
<1>7. ASSUME NEW c \in Coros, AwaitYield(c) PROVE LoopInv'
  BY <1>7, LoopRuns DEF AwaitYield
<1>8. ASSUME NEW c \in Coros, NEW x \in Contexts, AwaitReady(c, x) PROVE LoopInv'
  BY <1>8, LoopRuns DEF AwaitReady
<1> QED
  BY <1>1, <1>2, <1>3, <1>4, <1>5, <1>6, <1>7, <1>8, LoopPass, LoopCollect, LoopEnded, LoopFails,
     LoopAsync
  DEF Next, Instruction, Loop

-----------------------------------------------------------------------------
(* The collection and the creation of coroutines, which change the pool    *)
(* under the host's loop, leave it at a coroutine of the pool.             *)
THEOREM CursorStays == Spec => []CursorInPool
<1>1. LoopInv => CursorInPool
  BY DEF LoopInv, Pooled, LoopTypes, AtCursor, CursorInPool, ToSet
<1> QED  BY <1>1, LoopInit, LoopStep, PTL DEF Spec

(* No coroutine is left behind when the loop ends.                         *)
THEOREM LoopForgetsNone == Spec => []NoneForgotten
<1>1. LoopInv => NoneForgotten
  BY DEF LoopInv, PassOver, NoneForgotten
<1> QED  BY <1>1, LoopInit, LoopStep, PTL DEF Spec

(* The passes are fair, whatever is created and collected meanwhile.       *)
THEOREM PassesAreFair == Spec => OneTurnEach
<1> DEFINE Fair == \A c, d \in Coros : c # d /\ Suspended(d) /\ Awaits(c) /\ cur' = c
                                        => c \notin since[d]
<1>1. LoopInv => Fair
  <2> SUFFICES ASSUME LoopInv, NEW c \in Coros, NEW d \in Coros, Suspended(d), Awaits(c),
                      c \in since[d]
               PROVE  FALSE
    OBVIOUS
  <2>1. cursor = c /\ c # NoCoro /\ cur = NoCoro /\ sta[c] # "none"
    BY Sizes DEF Awaits, LoopInv, AtCursor
  <2>2. ~Before(pool, c, c)
    BY <2>1, AfterIs DEF LoopInv
  <2>3. ~Gone(c)
    BY <2>1, <2>2 DEF Gone
  <2>4. Before(pool, d, c) /\ ~Gone(d)
    BY <2>1, <2>3 DEF LoopInv, Turns
  <2> QED  BY <2>1, <2>4 DEF Gone
<1>2. LoopInv => [Fair]_vars
  BY <1>1
<1> QED  BY <1>2, LoopInit, LoopStep, PTL DEF Spec, OneTurnEach
=============================================================================

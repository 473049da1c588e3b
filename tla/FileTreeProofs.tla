--------------------------- MODULE FileTreeProofs ---------------------------
(***************************************************************************)
(* Whatever is made, moved or removed, each path of a tree is in a         *)
(* directory of the tree.                                                  *)
(***************************************************************************)
EXTENDS FileTree, SequenceTheorems, WellFoundedInduction, TLAPS

(* Each path of the tree, made of names in T, is in a directory of it.     *)
IsTree(T, t) == \A p \in DOMAIN t : p \in Seq(T) \ {<<>>} /\ IsDir(t, Front(p))

(* A set of numbers has a least one.                                       *)
LEMMA LeastOne == ASSUME NEW S \in SUBSET Nat, S # {}
                  PROVE  \E x \in S : \A y \in S : x <= y
<1> DEFINE R == OpToRel(<, Nat)
<1>1. \A x, y \in Nat : <<y, x>> \in R <=> y < x
  BY DEF OpToRel
<1>2. IsWellFoundedOn(R, Nat)
  BY NatLessThanWellFounded
<1> HIDE DEF R
<1>3. PICK x \in S : \A y \in S : ~(<<y, x>> \in R)
  BY <1>2, WFMin
<1>4. ASSUME NEW y \in S PROVE x <= y
  <2>1. x \in Nat /\ y \in Nat  OBVIOUS
  <2>2. ~(y < x)  BY <1>1, <1>3, <2>1
  <2> QED  BY <2>1, <2>2
<1> QED  BY <1>4

-----------------------------------------------------------------------------
(* Paths.                                                                  *)

LEMMA FrontProperties ==
    ASSUME NEW T, NEW s \in Seq(T), s # <<>>
    PROVE  /\ Front(s) \in Seq(T) /\ Len(Front(s)) = Len(s) - 1 /\ Len(s) \in Nat \ {0}
           /\ \A i \in 1..(Len(s) - 1) : Front(s)[i] = s[i]
           /\ Front(s) # s
<1>1. Len(s) \in Nat \ {0}
  BY EmptySeq
<1>2. \A i \in 1..(Len(s) - 1) : s[i] \in T
  BY ElementOfSeq
<1> DEFINE n == Len(s) - 1
<1>3. n \in Nat
  BY <1>1
<1>4. \A i \in 1..n : s[i] \in T
  BY <1>2
<1> HIDE DEF n
<1>5. /\ SubSeq(s, 1, n) \in Seq(T) /\ Len(SubSeq(s, 1, n)) = n
      /\ \A i \in 1..n : SubSeq(s, 1, n)[i] = s[i]
  BY <1>3, <1>4, SubSeqProperties
<1>6. /\ Front(s) \in Seq(T) /\ Len(Front(s)) = Len(s) - 1
      /\ \A i \in 1..(Len(s) - 1) : Front(s)[i] = s[i]
  BY <1>5 DEF Front, n
<1> QED  BY <1>1, <1>6

LEMMA PrefixByNames ==
    ASSUME NEW T, NEW s \in Seq(T), NEW u \in Seq(T)
    PROVE  IsPrefix(s, u) <=> Len(s) <= Len(u) /\ \A i \in 1..Len(s) : s[i] = u[i]
<1> SUFFICES ASSUME Len(s) <= Len(u)
             PROVE  SubSeq(s, 1, Len(s)) = SubSeq(u, 1, Len(s))
                        <=> \A i \in 1..Len(s) : s[i] = u[i]
  BY DEF IsPrefix
<1>1. Len(s) \in Nat /\ Len(u) \in Nat
  OBVIOUS
<1>2. SubSeq(s, 1, Len(s)) = s
  BY SubSeqFull
<1>3. \A i \in 1..Len(s) : u[i] \in T
  BY <1>1, ElementOfSeq
<1>4. /\ SubSeq(u, 1, Len(s)) \in Seq(T) /\ Len(SubSeq(u, 1, Len(s))) = Len(s)
      /\ \A i \in 1..Len(s) : SubSeq(u, 1, Len(s))[i] = u[i]
  BY <1>1, <1>3, SubSeqProperties
<1>5. (\A i \in 1..Len(s) : s[i] = u[i]) => s = SubSeq(u, 1, Len(s))
  BY <1>4, SeqEqual
<1> QED  BY <1>2, <1>4, <1>5

(* The front of a path is what comes before it, and nothing is between.    *)
LEMMA FrontPrefix ==
    ASSUME NEW T, NEW s \in Seq(T), NEW u \in Seq(T), u # <<>>
    PROVE  /\ IsPrefix(Front(u), u)
           /\ IsPrefix(s, u) /\ s # u => IsPrefix(s, Front(u))
           /\ IsPrefix(s, Front(u)) => IsPrefix(s, u)
<1>1. /\ Front(u) \in Seq(T) /\ Len(Front(u)) = Len(u) - 1 /\ Len(u) \in Nat \ {0}
      /\ \A i \in 1..(Len(u) - 1) : Front(u)[i] = u[i]
  BY FrontProperties
<1>2. Len(s) \in Nat
  OBVIOUS
<1>3. IsPrefix(Front(u), u)
  BY <1>1, PrefixByNames
<1>4. ASSUME IsPrefix(s, u), s # u PROVE IsPrefix(s, Front(u))
  <2>1. Len(s) <= Len(u) /\ \A i \in 1..Len(s) : s[i] = u[i]
    BY <1>4, PrefixByNames
  <2>2. Len(s) # Len(u)
    BY <1>4, <2>1, SeqEqual
  <2>3. Len(s) <= Len(u) - 1
    BY <1>1, <1>2, <2>1, <2>2
  <2>4. \A i \in 1..Len(s) : s[i] = Front(u)[i]
    BY <1>1, <1>2, <2>1, <2>3
  <2> QED  BY <1>1, <2>3, <2>4, PrefixByNames
<1>5. ASSUME IsPrefix(s, Front(u)) PROVE IsPrefix(s, u)
  <2>1. Len(s) <= Len(u) - 1 /\ \A i \in 1..Len(s) : s[i] = Front(u)[i]
    BY <1>1, <1>5, PrefixByNames
  <2>2. Len(s) <= Len(u) /\ \A i \in 1..Len(s) : s[i] = u[i]
    BY <1>1, <1>2, <2>1
  <2> QED  BY <2>2, PrefixByNames
<1> QED  BY <1>3, <1>4, <1>5

(* A path below another is that one and something.                         *)
LEMMA Suffix ==
    ASSUME NEW T, NEW p \in Seq(T), NEW r \in Seq(T), IsPrefix(p, r)
    PROVE  /\ SubSeq(r, Len(p) + 1, Len(r)) \in Seq(T)
           /\ p \o SubSeq(r, Len(p) + 1, Len(r)) = r
<1> DEFINE z == SubSeq(r, Len(p) + 1, Len(r))
<1>1. Len(p) \in Nat /\ Len(r) \in Nat
  OBVIOUS
<1>2. Len(p) <= Len(r) /\ \A i \in 1..Len(p) : p[i] = r[i]
  BY PrefixByNames
<1>3. \A i \in (Len(p) + 1)..Len(r) : r[i] \in T
  BY <1>1, ElementOfSeq
<1>4. /\ z \in Seq(T) /\ Len(z) = Len(r) - Len(p)
      /\ \A i \in 1..(Len(r) - Len(p)) : z[i] = r[Len(p) + i]
  BY <1>1, <1>2, <1>3, SubSeqProperties
<1> HIDE DEF z
<1>5. /\ p \o z \in Seq(T) /\ Len(p \o z) = Len(p) + Len(z)
      /\ \A i \in 1..(Len(p) + Len(z)) :
            (p \o z)[i] = IF i <= Len(p) THEN p[i] ELSE z[i - Len(p)]
  BY <1>4, ConcatProperties
<1>6. Len(p \o z) = Len(r)
  BY <1>1, <1>4, <1>5
<1>7. ASSUME NEW i \in 1..Len(p \o z) PROVE (p \o z)[i] = r[i]
  <2>1. CASE i <= Len(p)
    BY <1>1, <1>2, <1>5, <1>6, <1>4, <2>1
  <2>2. CASE i > Len(p)
    <3>1. i - Len(p) \in 1..(Len(r) - Len(p)) /\ Len(p) + (i - Len(p)) = i
      BY <1>1, <1>6, <2>2
    <3>2. z[i - Len(p)] = r[i]
      BY <1>4, <3>1
    <3> QED  BY <1>1, <1>4, <1>5, <1>6, <2>2, <3>2
  <2> QED  BY <1>1, <2>1, <2>2
<1>8. p \o z = r
  BY <1>5, <1>6, <1>7, SeqEqual
<1> QED  BY <1>4, <1>8 DEF z

(* Of a path and something, both can be told.                              *)
LEMMA Joined ==
    ASSUME NEW T, NEW p \in Seq(T), NEW z \in Seq(T)
    PROVE  /\ p \o z \in Seq(T) /\ IsPrefix(p, p \o z)
           /\ SubSeq(p \o z, Len(p) + 1, Len(p \o z)) = z
           /\ z # <<>> => Front(p \o z) = p \o Front(z)
           /\ p # <<>> => p \o z # <<>>
<1>1. Len(p) \in Nat /\ Len(z) \in Nat
  OBVIOUS
<1>2. /\ p \o z \in Seq(T) /\ Len(p \o z) = Len(p) + Len(z)
      /\ \A i \in 1..(Len(p) + Len(z)) :
            (p \o z)[i] = IF i <= Len(p) THEN p[i] ELSE z[i - Len(p)]
  BY ConcatProperties
<1>3. IsPrefix(p, p \o z)
  <2>1. Len(p) <= Len(p \o z) /\ \A i \in 1..Len(p) : p[i] = (p \o z)[i]
    BY <1>1, <1>2
  <2> QED  BY <1>2, <2>1, PrefixByNames
<1>4. p \o SubSeq(p \o z, Len(p) + 1, Len(p \o z)) = p \o z
      /\ SubSeq(p \o z, Len(p) + 1, Len(p \o z)) \in Seq(T)
  BY <1>2, <1>3, Suffix
<1>5. SubSeq(p \o z, Len(p) + 1, Len(p \o z)) = z
  BY <1>4, ConcatSimplifications
<1>6. ASSUME z # <<>> PROVE Front(p \o z) = p \o Front(z)
  <2>1. /\ Front(z) \in Seq(T) /\ Len(Front(z)) = Len(z) - 1 /\ Len(z) \in Nat \ {0}
        /\ \A i \in 1..(Len(z) - 1) : Front(z)[i] = z[i]
    BY <1>6, FrontProperties
  <2>2. p \o z # <<>>
    BY <1>1, <1>2, <2>1
  <2>3. /\ Front(p \o z) \in Seq(T) /\ Len(Front(p \o z)) = Len(p) + Len(z) - 1
        /\ \A i \in 1..(Len(p) + Len(z) - 1) : Front(p \o z)[i] = (p \o z)[i]
    <3>1. Len(p \o z) - 1 = Len(p) + Len(z) - 1
      BY <1>1, <1>2
    <3>2. /\ Front(p \o z) \in Seq(T) /\ Len(Front(p \o z)) = Len(p \o z) - 1
          /\ \A i \in 1..(Len(p \o z) - 1) : Front(p \o z)[i] = (p \o z)[i]
      BY <1>2, <2>2, FrontProperties
    <3> QED  BY <3>1, <3>2
  <2>4. /\ p \o Front(z) \in Seq(T) /\ Len(p \o Front(z)) = Len(p) + Len(z) - 1
        /\ \A i \in 1..(Len(p) + Len(z) - 1) :
              (p \o Front(z))[i] = IF i <= Len(p) THEN p[i] ELSE Front(z)[i - Len(p)]
    <3>1. /\ p \o Front(z) \in Seq(T) /\ Len(p \o Front(z)) = Len(p) + Len(Front(z))
          /\ \A i \in 1..(Len(p) + Len(Front(z))) :
                (p \o Front(z))[i] = IF i <= Len(p) THEN p[i] ELSE Front(z)[i - Len(p)]
      BY <2>1, ConcatProperties
    <3> QED  BY <1>1, <2>1, <3>1
  <2>5. ASSUME NEW i \in 1..Len(Front(p \o z)) PROVE Front(p \o z)[i] = (p \o Front(z))[i]
    <3>1. i \in 1..(Len(p) + Len(z) - 1) /\ i \in 1..(Len(p) + Len(z))
      BY <1>1, <2>3
    <3>2. CASE i <= Len(p)
      BY <1>2, <2>3, <2>4, <3>1, <3>2
    <3>3. CASE ~ (i <= Len(p))
      <4>1. i - Len(p) \in 1..(Len(z) - 1)
        BY <1>1, <3>1, <3>3
      <4> QED  BY <1>2, <2>1, <2>3, <2>4, <3>1, <3>3, <4>1
    <3> QED  BY <3>2, <3>3
  <2> QED  BY <2>3, <2>4, <2>5, SeqEqual
<1>7. p # <<>> => p \o z # <<>>
  BY ConcatEqualIffEmpty
<1> QED  BY <1>2, <1>3, <1>5, <1>6, <1>7

-----------------------------------------------------------------------------
(* Trees.                                                                  *)

(* What a path of the tree is below is a directory of the tree.            *)
LEMMA Ancestors ==
    ASSUME NEW T, NEW t, IsTree(T, t), NEW q \in Seq(T), NEW r \in DOMAIN t,
           IsStrictPrefix(q, r)
    PROVE  IsDir(t, q)
<1> SUFFICES ASSUME ~IsDir(t, q) PROVE FALSE
  OBVIOUS
<1> DEFINE Bad == {x \in DOMAIN t : IsStrictPrefix(q, x)}
           S == {Len(x) : x \in Bad}
<1>1. Bad \subseteq Seq(T) \ {<<>>}
  BY DEF IsTree
<1>2. S \in SUBSET Nat /\ S # {}
  <2>1. \A x \in Bad : Len(x) \in Nat
    BY <1>1, LenProperties
  <2>2. r \in Bad
    OBVIOUS
  <2> HIDE DEF Bad
  <2> QED  BY <2>1, <2>2
<1>3. PICK x \in Bad : \A y \in Bad : Len(x) <= Len(y)
  <2>1. PICK n \in S : \A y \in S : n <= y
    BY <1>2, LeastOne
  <2> HIDE DEF Bad
  <2> QED  BY <2>1
<1>4. x \in Seq(T) /\ x # <<>> /\ IsDir(t, Front(x))
  BY <1>3 DEF IsTree
<1>5. IsPrefix(q, Front(x)) /\ Front(x) # q
  BY <1>3, <1>4, FrontPrefix DEF IsStrictPrefix
<1>6. Front(x) \in Seq(T) /\ Len(Front(x)) = Len(x) - 1 /\ Len(x) \in Nat
  BY <1>4, FrontProperties
<1>7. CASE Front(x) = <<>>
  <2>1. Len(q) <= 0
    BY <1>5, <1>7 DEF IsPrefix
  <2>2. q = <<>>
    BY <2>1, EmptySeq
  <2> QED  BY <1>5, <1>7, <2>2
<1>8. CASE Front(x) # <<>>
  <2>1. Front(x) \in Bad
    BY <1>4, <1>5, <1>8 DEF IsDir, IsStrictPrefix
  <2> QED  BY <1>3, <1>6, <2>1
<1> QED  BY <1>7, <1>8

(* A directory or a file is made in a directory, a file not in the place   *)
(* of a directory.                                                         *)
LEMMA WithTree ==
    ASSUME NEW T, NEW t, IsTree(T, t), NEW p \in Seq(T), NEW c, p # <<>>,
           IsDir(t, Front(p)), c = Dir \/ ~IsDir(t, p)
    PROVE  IsTree(T, With(t, p, c))
<1> DEFINE u == With(t, p, c)
<1>1. DOMAIN u = DOMAIN t \cup {p} /\ \A q \in DOMAIN u : u[q] = IF q = p THEN c ELSE t[q]
  BY DEF With
<1>2. ASSUME NEW q \in DOMAIN u PROVE q \in Seq(T) \ {<<>>} /\ IsDir(u, Front(q))
  <2>1. q \in Seq(T) \ {<<>>} /\ IsDir(t, Front(q))
    BY <1>1 DEF IsTree
  <2>2. CASE Front(q) = p
    BY <1>1, <2>1, <2>2 DEF IsDir
  <2>3. CASE Front(q) # p
    BY <1>1, <2>1, <2>3 DEF IsDir
  <2> QED  BY <2>1, <2>2, <2>3
<1> QED  BY <1>2 DEF IsTree

(* What is not a directory, or is an empty one, can go.                    *)
LEMMA WithoutTree ==
    ASSUME NEW T, NEW t, IsTree(T, t), NEW p \in DOMAIN t,
           t[p] # Dir \/ Below(t, p) = {}
    PROVE  IsTree(T, Without(t, {p}))
<1> DEFINE u == Without(t, {p})
<1>1. DOMAIN u = DOMAIN t \ {p} /\ \A q \in DOMAIN u : u[q] = t[q]
  BY DEF Without
<1>2. ASSUME NEW q \in DOMAIN u PROVE q \in Seq(T) \ {<<>>} /\ IsDir(u, Front(q))
  <2>1. q \in Seq(T) \ {<<>>} /\ IsDir(t, Front(q)) /\ p # <<>>
    BY <1>1 DEF IsTree
  <2>2. Front(q) # p
    <3>1. CASE t[p] # Dir
      BY <2>1, <3>1 DEF IsDir
    <3>2. CASE Below(t, p) = {}
      <4>1. IsPrefix(Front(q), q) /\ Front(q) # q
        BY <2>1, FrontPrefix, FrontProperties
      <4>2. Front(q) = p => q \in Below(t, p)
        BY <1>1, <4>1 DEF Below, IsStrictPrefix
      <4> QED  BY <3>2, <4>2
    <3> QED  BY <3>1, <3>2
  <2> QED  BY <1>1, <2>1, <2>2 DEF IsDir
<1> QED  BY <1>2 DEF IsTree

(* So can a path with all that is below it.                                *)
LEMMA WithoutBranch ==
    ASSUME NEW T, NEW t, IsTree(T, t), NEW p \in Seq(T)
    PROVE  IsTree(T, Without(t, {p} \cup Below(t, p)))
<1> DEFINE u == Without(t, {p} \cup Below(t, p))
<1>1. DOMAIN u = DOMAIN t \ ({p} \cup Below(t, p)) /\ \A q \in DOMAIN u : u[q] = t[q]
  BY DEF Without
<1>2. ASSUME NEW q \in DOMAIN u PROVE q \in Seq(T) \ {<<>>} /\ IsDir(u, Front(q))
  <2>1. q \in DOMAIN t /\ q \in Seq(T) \ {<<>>} /\ IsDir(t, Front(q)) /\ ~IsPrefix(p, q)
    BY <1>1 DEF IsTree, Below, IsStrictPrefix
  <2>2. ~IsPrefix(p, Front(q))
    BY <2>1, FrontPrefix
  <2>3. Front(q) # p /\ Front(q) \notin Below(t, p)
    <3>1. IsPrefix(p, p)
      BY PrefixByNames
    <3> QED  BY <2>2, <3>1 DEF Below, IsStrictPrefix
  <2> QED  BY <1>1, <2>1, <2>3 DEF IsDir
<1> QED  BY <1>2 DEF IsTree

(* What is where after a move: nothing at the old path, at the new path    *)
(* and below it what was at and below the old, and else what was there.    *)
THEOREM MoveExact ==
    ASSUME NEW T, NEW t, IsTree(T, t), NEW p \in Seq(T), NEW q \in Seq(T), CanMove(t, p, q)
    PROVE  /\ \A r : r \in DOMAIN Move(t, p, q) <=>
                   \/ r \in DOMAIN t /\ ~IsPrefix(p, r) /\ r # q
                   \/ \E z \in Seq(T) : r = q \o z /\ p \o z \in DOMAIN t
           /\ \A z \in Seq(T) : p \o z \in DOMAIN t => Move(t, p, q)[q \o z] = t[p \o z]
           /\ \A r \in DOMAIN t : ~IsPrefix(p, r) /\ r # q =>
                   ~IsPrefix(q, r) /\ Move(t, p, q)[r] = t[r]
<1> DEFINE moved == {p} \cup Below(t, p)
           to(r) == q \o SubSeq(r, Len(p) + 1, Len(r))
           rest == Without(t, moved \cup {q})
           new == DOMAIN rest \cup {to(m) : m \in moved}
           N == Move(t, p, q)
<1>1. N = [r \in new |-> IF IsPrefix(q, r) THEN t[p \o SubSeq(r, Len(q) + 1, Len(r))]
                          ELSE rest[r]]
  BY DEF Move
<1>2. p \in DOMAIN t /\ p # <<>> /\ q # <<>> /\ DOMAIN t \subseteq Seq(T)
  BY DEF CanMove, Fits, Exists, IsTree
<1>3. \A r \in DOMAIN t : r \in moved <=> IsPrefix(p, r)
  <2>1. IsPrefix(p, p)
    BY PrefixByNames
  <2> QED  BY <2>1 DEF Below, IsStrictPrefix
<1>4. moved \subseteq DOMAIN t
  BY <1>2 DEF Below
<1>5. /\ DOMAIN rest = {r \in DOMAIN t : ~IsPrefix(p, r) /\ r # q}
      /\ \A r \in DOMAIN rest : rest[r] = t[r]
  BY <1>3 DEF Without
<1>6. \A r : (\E m \in moved : r = to(m)) <=> \E z \in Seq(T) : r = q \o z /\ p \o z \in DOMAIN t
  <2>1. ASSUME NEW m \in moved
        PROVE  \E z \in Seq(T) : to(m) = q \o z /\ p \o z \in DOMAIN t
    <3>1. m \in Seq(T) /\ IsPrefix(p, m) /\ m \in DOMAIN t
      BY <1>2, <1>3, <1>4
    <3>2. /\ SubSeq(m, Len(p) + 1, Len(m)) \in Seq(T)
          /\ p \o SubSeq(m, Len(p) + 1, Len(m)) = m
      BY <3>1, Suffix
    <3> QED  BY <3>1, <3>2
  <2>2. ASSUME NEW z \in Seq(T), p \o z \in DOMAIN t
        PROVE  p \o z \in moved /\ to(p \o z) = q \o z
    <3>1. IsPrefix(p, p \o z) /\ SubSeq(p \o z, Len(p) + 1, Len(p \o z)) = z
      BY Joined
    <3> QED  BY <1>3, <2>2, <3>1
  <2> HIDE DEF moved, to
  <2> QED  BY <2>1, <2>2
<1>7. \A r : r \in new <=> \/ r \in DOMAIN t /\ ~IsPrefix(p, r) /\ r # q
                          \/ \E z \in Seq(T) : r = q \o z /\ p \o z \in DOMAIN t
  <2>1. \A r : r \in {to(m) : m \in moved} <=> \E m \in moved : r = to(m)
    OBVIOUS
  <2> HIDE DEF moved, to, rest
  <2> QED  BY <1>5, <1>6, <2>1
<1>8. ASSUME NEW z \in Seq(T), p \o z \in DOMAIN t PROVE N[q \o z] = t[p \o z]
  <2>1. q \o z \in new
    BY <1>7, <1>8
  <2>2. IsPrefix(q, q \o z) /\ SubSeq(q \o z, Len(q) + 1, Len(q \o z)) = z
    BY Joined
  <2> HIDE DEF new, rest, N
  <2> QED  BY <1>1, <2>1, <2>2
<1>9. ASSUME NEW r \in DOMAIN t, ~IsPrefix(p, r), r # q
      PROVE  ~IsPrefix(q, r) /\ N[r] = t[r]
  <2>1. ~IsPrefix(q, r)
    <3> SUFFICES ASSUME IsPrefix(q, r) PROVE FALSE
      OBVIOUS
    <3>1. IsStrictPrefix(q, r)
      BY <1>9 DEF IsStrictPrefix
    <3>2. IsDir(t, q) /\ q \in DOMAIN t /\ t[q] = Dir
      BY <1>2, <3>1, Ancestors DEF IsDir
    <3>3. r \in Below(t, q)
      BY <3>1 DEF Below
    <3>4. q # p
      BY <1>9
    <3> QED  BY <3>2, <3>3, <3>4 DEF CanMove, Fits, CanRmdir, Exists, IsFile
  <2>2. r \in DOMAIN rest /\ r \in new
    BY <1>5, <1>9
  <2> HIDE DEF new, rest, N
  <2> QED  BY <1>1, <1>5, <2>1, <2>2
<1>10. DOMAIN N = new
  <2> HIDE DEF new, rest, N
  <2> QED  BY <1>1
<1> HIDE DEF N, new
<1>11. \A r : r \in DOMAIN N <=>
                   \/ r \in DOMAIN t /\ ~IsPrefix(p, r) /\ r # q
                   \/ \E z \in Seq(T) : r = q \o z /\ p \o z \in DOMAIN t
  BY <1>7, <1>10
<1> QED  BY <1>8, <1>9, <1>11 DEF N

(* A move leaves a tree.                                                   *)
THEOREM MoveTree ==
    ASSUME NEW T, NEW t, IsTree(T, t), NEW p \in Seq(T), NEW q \in Seq(T), CanMove(t, p, q)
    PROVE  IsTree(T, Move(t, p, q))
<1> DEFINE N == Move(t, p, q)
<1>1. \A r : r \in DOMAIN N <=>
             \/ r \in DOMAIN t /\ ~IsPrefix(p, r) /\ r # q
             \/ \E z \in Seq(T) : r = q \o z /\ p \o z \in DOMAIN t
  BY MoveExact
<1>2. \A z \in Seq(T) : p \o z \in DOMAIN t => N[q \o z] = t[p \o z]
  BY MoveExact
<1>3. \A r \in DOMAIN t : ~IsPrefix(p, r) /\ r # q => ~IsPrefix(q, r) /\ N[r] = t[r]
  BY MoveExact
<1>4. /\ p # <<>> /\ q # <<>> /\ p \in DOMAIN t /\ IsDir(t, Front(q))
      /\ ~IsStrictPrefix(p, q)
  BY DEF CanMove, Fits, Exists
<1> HIDE DEF N
<1>5. ASSUME NEW r \in DOMAIN t, ~IsPrefix(p, r), r # q
      PROVE  r \in Seq(T) \ {<<>>} /\ IsDir(N, Front(r))
  <2>1. r \in Seq(T) \ {<<>>} /\ IsDir(t, Front(r)) /\ ~IsPrefix(q, r)
    BY <1>3, <1>5 DEF IsTree
  <2>2. ~IsPrefix(p, Front(r)) /\ Front(r) # q
    BY <1>5, <2>1, FrontPrefix
  <2> QED  BY <1>1, <1>3, <2>1, <2>2 DEF IsDir
<1>6. ASSUME NEW z \in Seq(T), p \o z \in DOMAIN t
      PROVE  q \o z \in Seq(T) \ {<<>>} /\ IsDir(N, Front(q \o z))
  <2>1. q \o z \in Seq(T) \ {<<>>}
    BY <1>4, Joined
  <2>2. CASE z = <<>>
    <3>1. q \o z = q
      BY <2>2, ConcatEmptySeq
    <3>2. Front(q) \in Seq(T) /\ IsPrefix(Front(q), q) /\ Front(q) # q
      BY <1>4, FrontPrefix, FrontProperties
    <3>3. ~IsPrefix(p, Front(q))
      <4> SUFFICES ASSUME IsPrefix(p, Front(q)) PROVE FALSE
        OBVIOUS
      <4>1. IsPrefix(p, q)
        BY <1>4, FrontPrefix
      <4>2. p # q
        <5>1. Len(p) <= Len(Front(q)) /\ Len(Front(q)) = Len(q) - 1 /\ Len(q) \in Nat
          BY <1>4, FrontProperties DEF IsPrefix
        <5> QED  BY <5>1
      <4> QED  BY <1>4, <4>1, <4>2 DEF IsStrictPrefix
    <3> QED  BY <1>1, <1>3, <1>4, <3>1, <3>2, <3>3 DEF IsDir
  <2>3. CASE z # <<>>
    <3>1. Front(q \o z) = q \o Front(z) /\ Front(p \o z) = p \o Front(z)
      BY <2>3, Joined
    <3>2. Front(z) \in Seq(T)
      BY <2>3, FrontProperties
    <3>3. p \o Front(z) # <<>>
      BY <1>4, <3>2, Joined
    <3>4. p \o Front(z) \in DOMAIN t /\ t[p \o Front(z)] = Dir
      BY <1>6, <3>1, <3>3 DEF IsTree, IsDir
    <3>5. q \o Front(z) \in DOMAIN N
      BY <1>1, <3>2, <3>4
    <3>6. N[q \o Front(z)] = Dir
      BY <1>2, <3>2, <3>4
    <3> QED  BY <2>1, <3>1, <3>5, <3>6 DEF IsDir
  <2> QED  BY <2>1, <2>2, <2>3
<1>7. ASSUME NEW r \in DOMAIN N PROVE r \in Seq(T) \ {<<>>} /\ IsDir(N, Front(r))
  <2>1. CASE r \in DOMAIN t /\ ~IsPrefix(p, r) /\ r # q
    BY <1>5, <2>1
  <2>2. CASE \E z \in Seq(T) : r = q \o z /\ p \o z \in DOMAIN t
    <3>1. PICK z \in Seq(T) : r = q \o z /\ p \o z \in DOMAIN t
      BY <2>2
    <3>2. q \o z \in Seq(T) \ {<<>>} /\ IsDir(N, Front(q \o z))
      BY <1>6, <3>1
    <3> QED  BY <3>1, <3>2
  <2> QED  BY <1>1, <2>1, <2>2
<1> QED  BY <1>7 DEF IsTree, N
=============================================================================

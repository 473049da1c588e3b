-------------------------- MODULE MemoryFSProofs --------------------------
(***************************************************************************)
(* The table of names agrees with the directories, and the bytes of files  *)
(* with the promise, for every set of names, every size of the table and   *)
(* every way its hashes collide.                                           *)
(***************************************************************************)
EXTENDS MemoryFS, SequenceTheorems, WellFoundedInduction, TLAPS

(* A set of numbers has a least one.                                       *)
LEMMA SmallestExists == ASSUME NEW S \in SUBSET Nat, S # {}
                 PROVE  Min(S) \in S /\ \A y \in S : Min(S) <= y
<1> DEFINE R == OpToRel(<, Nat)
<1>1. \A x, y \in Nat : <<y, x>> \in R <=> y < x
  BY DEF OpToRel
<1>2. IsWellFoundedOn(R, Nat)
  BY NatLessThanWellFounded
<1> HIDE DEF R
<1>3. PICK x \in S : \A y \in S : ~(<<y, x>> \in R)
  BY <1>2, WFMin
<1>4. ASSUME NEW y \in S PROVE x <= y
  <2>1. x \in Nat /\ y \in Nat  OBVIOUS
  <2>2. ~(y < x)  BY <1>1, <1>3, <2>1
  <2> QED  BY <2>1, <2>2
<1> QED  BY <1>4 DEF Min

(* A hash is in the table.                                                 *)
LEMMA HashInTable == ASSUME NEW id \in Nat, NEW n \in Names \cup {NoName}
                     PROVE  HashName(id, n) \in 0..(TableSize - 1)
<1>1. (IF n = NoName THEN 0 ELSE NameHash[n]) \in Nat  BY Tables
<1> QED  BY <1>1, Tables DEF HashName

(* The removal of an element that is there once.                           *)
LEMMA RemoveFirstOnce ==
    ASSUME NEW T, NEW s \in Seq(T), NEW e, NEW k \in 1..Len(s), s[k] = e,
           \A j \in 1..Len(s) : s[j] = e => j = k
    PROVE  /\ RemoveFirst(s, e) \in Seq(T)
           /\ Len(RemoveFirst(s, e)) = Len(s) - 1
           /\ \A j \in 1..(Len(s) - 1) :
                 RemoveFirst(s, e)[j] = IF j < k THEN s[j] ELSE s[j + 1]
<1> DEFINE I == {i \in 1..Len(s) : s[i] = e}
<1>1. SelectInSeq(s, LAMBDA v : v = e) = IF I # {} THEN Min(I) ELSE 0
  BY DEF SelectInSeq
<1>2. I = {k}  OBVIOUS
<1>3. Min(I) = k  BY <1>2, SmallestExists
<1>4. RemoveFirst(s, e) = SubSeq(s, 1, k - 1) \o SubSeq(s, k + 1, Len(s))
  BY <1>1, <1>2, <1>3 DEF RemoveFirst, RemoveAt
<1>5. \A i \in 1..(k - 1) : s[i] \in T  OBVIOUS
<1>6. \A i \in (k + 1)..Len(s) : s[i] \in T  OBVIOUS
<1> DEFINE a == SubSeq(s, 1, k - 1)
           z == SubSeq(s, k + 1, Len(s))
<1>7. /\ a \in Seq(T) /\ Len(a) = k - 1
      /\ \A i \in 1..(k - 1) : a[i] = s[i]
  BY <1>5, SubSeqProperties
<1>8. /\ z \in Seq(T) /\ Len(z) = Len(s) - k
      /\ \A i \in 1..(Len(s) - k) : z[i] = s[k + i]
  BY <1>6, SubSeqProperties
<1>9. RemoveFirst(s, e) = a \o z
  BY <1>4
<1> HIDE DEF I, a, z
<1>10. /\ a \o z \in Seq(T) /\ Len(a \o z) = Len(s) - 1
       /\ \A i \in 1..(Len(s) - 1) : (a \o z)[i] = IF i <= k - 1 THEN a[i] ELSE z[i - (k - 1)]
  BY <1>7, <1>8, ConcatProperties
<1>11. \A j \in 1..(Len(s) - 1) : (a \o z)[j] = IF j < k THEN s[j] ELSE s[j + 1]
  <2>1. SUFFICES ASSUME NEW j \in 1..(Len(s) - 1)
                 PROVE  (a \o z)[j] = IF j < k THEN s[j] ELSE s[j + 1]
    OBVIOUS
  <2>2. CASE j < k
    BY <1>7, <1>10, <2>2
  <2>3. CASE j >= k
    <3>1. j - (k - 1) \in 1..(Len(s) - k)  BY <2>3
    <3>2. z[j - (k - 1)] = s[k + (j - (k - 1))]  BY <1>8, <3>1
    <3>3. k + (j - (k - 1)) = j + 1  OBVIOUS
    <3> QED  BY <1>10, <2>3, <3>2, <3>3
  <2>4. j < k \/ j >= k  OBVIOUS
  <2> QED  BY <2>2, <2>3, <2>4, Zenon
<1> QED  BY <1>9, <1>10, <1>11

(* A chain, when each of its nodes is in it once.                          *)
In(s, e) == \E i \in DOMAIN s : s[i] = e
Distinct(s) == \A i, j \in DOMAIN s : s[i] = s[j] => i = j

(* What is left of a chain.                                                *)
LEMMA RemovedFromChain ==
    ASSUME NEW T, NEW s \in Seq(T), Distinct(s), NEW e
    PROVE  LET t == RemoveFirst(s, e)
           IN  /\ t \in Seq(T) /\ Distinct(t)
               /\ \A x : In(t, x) <=> In(s, x) /\ x # e
<1> DEFINE t == RemoveFirst(s, e)
<1>1. CASE ~In(s, e)
  <2>1. t = s  BY <1>1 DEF RemoveFirst, In
  <2> QED  BY <1>1, <2>1 DEF In
<1>2. CASE In(s, e)
  <2>1. PICK k \in 1..Len(s) : s[k] = e  BY <1>2 DEF In
  <2>2. \A j \in 1..Len(s) : s[j] = e => j = k  BY <2>1 DEF Distinct
  <2>3. /\ t \in Seq(T) /\ Len(t) = Len(s) - 1
        /\ \A j \in 1..(Len(s) - 1) : t[j] = IF j < k THEN s[j] ELSE s[j + 1]
    BY <2>1, <2>2, RemoveFirstOnce
  <2> HIDE DEF t
  <2>4. DOMAIN t = 1..(Len(s) - 1) /\ DOMAIN s = 1..Len(s)  BY <2>3
  <2>5. Distinct(t)
    <3>1. SUFFICES ASSUME NEW i \in 1..(Len(s) - 1), NEW j \in 1..(Len(s) - 1), t[i] = t[j]
                   PROVE  i = j
      BY <2>4 DEF Distinct
    <3>2. i \in 1..Len(s) /\ j \in 1..Len(s) /\ i + 1 \in 1..Len(s) /\ j + 1 \in 1..Len(s)
      OBVIOUS
    <3> QED  BY <2>3, <2>4, <3>1, <3>2 DEF Distinct
  <2>6. ASSUME NEW x, In(t, x) PROVE In(s, x) /\ x # e
    <3>1. PICK j \in 1..(Len(s) - 1) : t[j] = x  BY <2>4, <2>6 DEF In
    <3>2. j \in 1..Len(s) /\ j + 1 \in 1..Len(s)  OBVIOUS
    <3>3. CASE j < k  BY <2>2, <2>3, <2>4, <3>1, <3>2, <3>3 DEF In
    <3>4. CASE ~(j < k)
      <4>1. j + 1 # k  BY <3>4
      <4> QED  BY <2>2, <2>3, <2>4, <3>1, <3>2, <3>4, <4>1 DEF In
    <3> QED  BY <3>3, <3>4
  <2>7. ASSUME NEW x, In(s, x), x # e PROVE In(t, x)
    <3>1. PICK i \in 1..Len(s) : s[i] = x  BY <2>4, <2>7 DEF In
    <3>2. CASE i < k
      <4>1. i \in 1..(Len(s) - 1) /\ t[i] = x  BY <2>3, <3>1, <3>2
      <4> QED  BY <2>4, <4>1 DEF In
    <3>3. CASE i > k
      <4>1. i - 1 \in 1..(Len(s) - 1) /\ ~(i - 1 < k) /\ (i - 1) + 1 = i  BY <3>3
      <4>2. t[i - 1] = x  BY <2>3, <3>1, <4>1
      <4> QED  BY <2>4, <4>1, <4>2 DEF In
    <3>4. i # k  BY <2>1, <2>7, <3>1
    <3> QED  BY <3>2, <3>3, <3>4
  <2> QED  BY <2>3, <2>5, <2>6, <2>7 DEF t
<1> QED  BY <1>1, <1>2

(* A chain with one node more.                                             *)
LEMMA AddedToChain ==
    ASSUME NEW T, NEW s \in Seq(T), NEW e \in T
    PROVE  LET t == <<e>> \o s
           IN  /\ t \in Seq(T)
               /\ Distinct(s) /\ ~In(s, e) => Distinct(t)
               /\ \A x : In(t, x) <=> In(s, x) \/ x = e
<1> DEFINE t == <<e>> \o s
<1>1. /\ t \in Seq(T) /\ Len(t) = Len(s) + 1
      /\ t[1] = e /\ \A i \in 1..Len(s) : t[i + 1] = s[i]
  OBVIOUS
<1> HIDE DEF t
<1>2. DOMAIN t = 1..(Len(s) + 1) /\ DOMAIN s = 1..Len(s)  BY <1>1
<1>3. \A i \in DOMAIN t : i = 1 \/ (i - 1 \in DOMAIN s /\ t[i] = s[i - 1])
  <2>1. SUFFICES ASSUME NEW i \in 1..(Len(s) + 1), i # 1
                 PROVE  i - 1 \in 1..Len(s) /\ t[i] = s[i - 1]
    BY <1>2
  <2>2. i - 1 \in 1..Len(s) /\ (i - 1) + 1 = i  BY <2>1
  <2> QED  BY <1>1, <2>2
<1>4. ASSUME Distinct(s), ~In(s, e) PROVE Distinct(t)
  <2>1. SUFFICES ASSUME NEW i \in DOMAIN t, NEW j \in DOMAIN t, t[i] = t[j]
                 PROVE  i = j
    BY DEF Distinct
  <2>2. i \in Int /\ j \in Int  BY <1>2
  <2>3. CASE i = 1  BY <1>1, <1>3, <1>4, <2>1, <2>3 DEF In
  <2>4. CASE j = 1  BY <1>1, <1>3, <1>4, <2>1, <2>4 DEF In
  <2>5. CASE i # 1 /\ j # 1
    <3>1. i - 1 = j - 1  BY <1>3, <1>4, <2>1, <2>5 DEF Distinct
    <3> QED  BY <2>2, <3>1
  <2> QED  BY <2>3, <2>4, <2>5
<1>5. ASSUME NEW x PROVE In(t, x) <=> In(s, x) \/ x = e
  <2>1. In(t, x) => In(s, x) \/ x = e  BY <1>1, <1>3 DEF In
  <2>2. In(s, x) => In(t, x)
    <3>1. SUFFICES ASSUME NEW i \in 1..Len(s), s[i] = x PROVE In(t, x)
      BY <1>2 DEF In
    <3>2. i + 1 \in 1..(Len(s) + 1) /\ t[i + 1] = x  BY <1>1, <3>1
    <3> QED  BY <1>2, <3>2 DEF In
  <2>3. x = e => In(t, x)
    <3>1. 1 \in DOMAIN t  BY <1>2
    <3> QED  BY <1>1, <3>1 DEF In
  <2> QED  BY <2>1, <2>2, <2>3
<1> QED  BY <1>1, <1>4, <1>5 DEF t

(* The table.                                                              *)
Chains == [0..(TableSize - 1) -> Seq(Nodes \ {NoNode})]
AllDistinct(table) == \A h \in 0..(TableSize - 1) : Distinct(table[h])

(* What is left of the table.                                              *)
LEMMA RemovedFromTable ==
    ASSUME NodeType, NEW table \in Chains, AllDistinct(table), NEW m \in Nodes \ {NoNode}
    PROVE  LET t == HashRemoveNode(table, m)
           IN  /\ t \in Chains /\ AllDistinct(t)
               /\ \A h \in 0..(TableSize - 1) : \A x :
                     In(t[h], x) <=> /\ In(table[h], x)
                                     /\ ~(h = HashName(parent[m], name[m]) /\ x = m)
<1> DEFINE t == HashRemoveNode(table, m)
           g == HashName(parent[m], name[m])
<1>1. parent[m] \in Nat /\ name[m] \in Names \cup {NoName}  BY Tables DEF NodeType, Nodes
<1>2. g \in 0..(TableSize - 1)  BY <1>1, HashInTable
<1>3. t = [table EXCEPT ![g] = RemoveFirst(@, m)]  BY DEF HashRemoveNode
<1> HIDE DEF t, g
<1>4. /\ table \in Chains /\ table[g] \in Seq(Nodes \ {NoNode})
      /\ Distinct(table[g])
  BY <1>2 DEF Chains, AllDistinct
<1>5. /\ RemoveFirst(table[g], m) \in Seq(Nodes \ {NoNode})
      /\ Distinct(RemoveFirst(table[g], m))
      /\ \A x : In(RemoveFirst(table[g], m), x) <=> In(table[g], x) /\ x # m
  BY <1>4, RemovedFromChain
<1>6. \A h \in 0..(TableSize - 1) :
         t[h] = IF h = g THEN RemoveFirst(table[g], m) ELSE table[h]
  BY <1>3, <1>4 DEF Chains
<1>7. t \in Chains  BY <1>3, <1>4, <1>5 DEF Chains
<1>8. AllDistinct(t)  BY <1>5, <1>6 DEF AllDistinct
<1>9. ASSUME NEW h \in 0..(TableSize - 1), NEW x
      PROVE  In(t[h], x) <=> In(table[h], x) /\ ~(h = g /\ x = m)
  <2>1. CASE h = g  BY <1>5, <1>6, <2>1
  <2>2. CASE h # g  BY <1>6, <2>2
  <2> QED  BY <2>1, <2>2
<1> QED  BY <1>7, <1>8, <1>9 DEF t, g

(* The table with one node more.                                           *)
LEMMA AddedToTable ==
    ASSUME NEW table \in Chains, AllDistinct(table), NEW m \in Nodes \ {NoNode},
           NEW d \in Nodes, NEW n \in Names, ~In(table[HashName(d, n)], m)
    PROVE  LET t == HashAddNode(table, m, d, n)
           IN  /\ t \in Chains /\ AllDistinct(t)
               /\ \A h \in 0..(TableSize - 1) : \A x :
                     In(t[h], x) <=> In(table[h], x) \/ (h = HashName(d, n) /\ x = m)
<1> DEFINE t == HashAddNode(table, m, d, n)
           g == HashName(d, n)
<1>1. d \in Nat  BY Tables DEF Nodes
<1>2. g \in 0..(TableSize - 1)  BY <1>1, HashInTable
<1>3. t = [table EXCEPT ![g] = <<m>> \o @]  BY DEF HashAddNode
<1> HIDE DEF t, g
<1>4. table[g] \in Seq(Nodes \ {NoNode}) /\ Distinct(table[g])
  BY <1>2 DEF Chains, AllDistinct
<1>5. /\ <<m>> \o table[g] \in Seq(Nodes \ {NoNode})
      /\ Distinct(<<m>> \o table[g])
      /\ \A x : In(<<m>> \o table[g], x) <=> In(table[g], x) \/ x = m
  BY <1>4, AddedToChain DEF g
<1>6. \A h \in 0..(TableSize - 1) : t[h] = IF h = g THEN <<m>> \o table[g] ELSE table[h]
  BY <1>3 DEF Chains
<1>7. t \in Chains  BY <1>3, <1>5 DEF Chains
<1>8. AllDistinct(t)  BY <1>5, <1>6 DEF AllDistinct
<1>9. ASSUME NEW h \in 0..(TableSize - 1), NEW x
      PROVE  In(t[h], x) <=> In(table[h], x) \/ (h = g /\ x = m)
  <2>1. CASE h = g  BY <1>5, <1>6, <2>1
  <2>2. CASE h # g  BY <1>6, <2>2
  <2> QED  BY <2>1, <2>2
<1> QED  BY <1>7, <1>8, <1>9 DEF t, g

(* A lookup finds a node of the chain with that parent and name, if there  *)
(* is one.                                                                 *)
LEMMA Lookup ==
    ASSUME NodeType, NEW d, NEW n \in Names
    PROVE  LET m == LookupNode(d, n)
               chain == nameTable[HashName(d, n)]
           IN  /\ m \in Nodes
               /\ m # NoNode => /\ d \in Directories /\ In(chain, m)
                                /\ parent[m] = d /\ name[m] = n
               /\ (m = NoNode /\ d \in Directories) =>
                     \A x : ~(In(chain, x) /\ parent[x] = d /\ name[x] = n)
<1>0. NoNode \in Nodes  BY Tables DEF Nodes, NoNode
<1>1. CASE d \notin Directories
  <2>1. LookupNode(d, n) = NoNode  BY <1>1 DEF LookupNode
  <2> QED  BY <1>0, <1>1, <2>1
<1>2. CASE d \in Directories
  <2> DEFINE chain == nameTable[HashName(d, n)]
             I == {i \in 1..Len(chain) : parent[chain[i]] = d /\ name[chain[i]] = n}
             k == SelectInSeq(chain, LAMBDA m : parent[m] = d /\ name[m] = n)
  <2>1. HashName(d, n) \in 0..(TableSize - 1)
    BY <1>2, HashInTable DEF Directories, Nodes
  <2>2. chain \in Seq(Nodes \ {NoNode})  BY <2>1 DEF NodeType
  <2>3. k = IF I # {} THEN Min(I) ELSE 0  BY DEF SelectInSeq
  <2>4. LookupNode(d, n) = IF k # 0 THEN chain[k] ELSE NoNode
    BY <1>2 DEF LookupNode
  <2> HIDE DEF k, chain
  <2>5. I \in SUBSET Nat /\ 0 \notin I  OBVIOUS
  <2>6. CASE I = {}
    <3>1. LookupNode(d, n) = NoNode  BY <2>3, <2>4, <2>6
    <3>2. \A i \in DOMAIN chain : ~(parent[chain[i]] = d /\ name[chain[i]] = n)
      BY <2>2, <2>6
    <3>3. \A x : ~(In(chain, x) /\ parent[x] = d /\ name[x] = n)  BY <3>2 DEF In
    <3> QED  BY <1>0, <3>1, <3>3 DEF chain
  <2>7. CASE I # {}
    <3>1. k \in I  BY <2>3, <2>5, <2>7, SmallestExists
    <3>2. k # 0 /\ k \in 1..Len(chain)  BY <2>5, <3>1
    <3>3. LookupNode(d, n) = chain[k] /\ parent[chain[k]] = d /\ name[chain[k]] = n
      BY <2>4, <3>1, <3>2
    <3>4. chain[k] \in Nodes \ {NoNode} /\ In(chain, chain[k])  BY <2>2, <3>2 DEF In
    <3> QED  BY <1>2, <3>3, <3>4 DEF chain
  <2> QED  BY <2>6, <2>7
<1> QED  BY <1>1, <1>2

-----------------------------------------------------------------------------
(* TableSound, said of the chains.                                         *)
Tabled ==
    /\ AllDistinct(nameTable)
    /\ \A h \in 0..(TableSize - 1) : \A m : In(nameTable[h], m) =>
          (m = Root \/ Linked(m)) /\ HashName(parent[m], name[m]) = h
    /\ \A d \in Nodes, n \in Names : entries[d][n] # NoNode =>
          /\ kind[d] = "dir" /\ parent[entries[d][n]] = d /\ name[entries[d][n]] = n
          /\ In(nameTable[HashName(d, n)], entries[d][n])

(* Both say the same.                                                      *)
LEMMA TabledSound == ASSUME NodeType PROVE TableSound <=> Tabled
<1>1. DOMAIN nameTable = 0..(TableSize - 1)  BY DEF NodeType
<1>2. ASSUME TableSound PROVE Tabled
  <2>1. AllDistinct(nameTable)  BY <1>1, <1>2 DEF TableSound, AllDistinct, Distinct
  <2>2. ASSUME NEW h \in 0..(TableSize - 1), NEW m, In(nameTable[h], m)
        PROVE  (m = Root \/ Linked(m)) /\ HashName(parent[m], name[m]) = h
    BY <1>1, <1>2, <2>2 DEF TableSound, In
  <2>3. ASSUME NEW d \in Nodes, NEW n \in Names, entries[d][n] # NoNode
        PROVE  /\ kind[d] = "dir" /\ parent[entries[d][n]] = d /\ name[entries[d][n]] = n
               /\ In(nameTable[HashName(d, n)], entries[d][n])
    BY <1>2, <2>3 DEF TableSound, In
  <2> QED  BY <2>1, <2>2, <2>3 DEF Tabled
<1>3. ASSUME Tabled PROVE TableSound
  <2>1. ASSUME NEW h \in DOMAIN nameTable, NEW i \in DOMAIN nameTable[h],
               NEW j \in DOMAIN nameTable[h]
        PROVE  LET m == nameTable[h][i]
               IN  /\ m = Root \/ Linked(m)
                   /\ HashName(parent[m], name[m]) = h
                   /\ nameTable[h][j] = m => i = j
    <3>1. In(nameTable[h], nameTable[h][i])  BY DEF In
    <3> QED  BY <1>1, <1>3, <3>1 DEF Tabled, AllDistinct, Distinct
  <2>2. ASSUME NEW d \in Nodes, NEW n \in Names
        PROVE  LET m == entries[d][n]
               IN  m # NoNode => /\ kind[d] = "dir" /\ parent[m] = d /\ name[m] = n
                                 /\ \E i \in DOMAIN nameTable[HashName(d, n)] :
                                       nameTable[HashName(d, n)][i] = m
    BY <1>3 DEF Tabled, In
  <2> QED  BY <2>1, <2>2 DEF TableSound
<1> QED  BY <1>2, <1>3

(* The root, and no node.                                                  *)
LEMMA Constants == NoNode \in Nodes /\ Root \in Nodes /\ NoNode # Root
BY Tables DEF Nodes, NoNode, Root

(* What a lookup finds is what the directory lists.                        *)
LEMMA LookupListed ==
    ASSUME NodeType, Tabled, NEW d, NEW n \in Names
    PROVE  /\ LookupNode(d, n) # NoNode =>
                 /\ d \in Directories /\ Linked(LookupNode(d, n))
                 /\ parent[LookupNode(d, n)] = d /\ name[LookupNode(d, n)] = n
           /\ d \in Directories => entries[d][n] = LookupNode(d, n)
<1> DEFINE m == LookupNode(d, n)
<1>1. /\ m \in Nodes
      /\ m # NoNode => /\ d \in Directories /\ In(nameTable[HashName(d, n)], m)
                       /\ parent[m] = d /\ name[m] = n
      /\ (m = NoNode /\ d \in Directories) =>
            \A x : ~(In(nameTable[HashName(d, n)], x) /\ parent[x] = d /\ name[x] = n)
  BY Lookup
<1> HIDE DEF m
<1>2. ASSUME m # NoNode PROVE Linked(m) /\ entries[d][n] = m
  <2>1. d \in Nodes /\ HashName(d, n) \in 0..(TableSize - 1)
    BY <1>1, <1>2, HashInTable DEF Directories, Nodes
  <2>2. m # Root  BY <1>1, <1>2, Tables DEF NodeType
  <2>3. Linked(m)  BY <1>1, <1>2, <2>1, <2>2 DEF Tabled
  <2> QED  BY <1>1, <1>2, <2>3 DEF Linked
<1>3. ASSUME m = NoNode, d \in Directories PROVE entries[d][n] = NoNode
  <2>1. d \in Nodes  BY <1>3 DEF Directories
  <2>2. SUFFICES ASSUME entries[d][n] # NoNode PROVE FALSE  OBVIOUS
  <2> QED  BY <1>1, <1>3, <2>1, <2>2 DEF Tabled
<1> QED  BY <1>1, <1>2, <1>3 DEF m

(* The call of mknod keeps the table.                                      *)
LEMMA CreateTabled ==
    ASSUME NodeType, Tabled, NEW d \in Directories, NEW n \in Names,
           NEW k \in {"dir", "file"}, LookupNode(d, n) = NoNode, CreateNode(d, n, k)
    PROVE  NodeType' /\ Tabled'
<1> DEFINE N == nextInode
           t == HashAddNode(nameTable, N, d, n)
<1>1. /\ N \in Nodes \ {NoNode} /\ N # Root /\ N \in Nat /\ kind[N] = "none"
      /\ d \in Nodes /\ kind[d] = "dir" /\ d # N
      /\ HashName(d, n) \in 0..(TableSize - 1)
  <2>1. N \in 2..MaxInode /\ N = nextInode
    BY Tables DEF NodeType, CreateNode
  <2>2. N \notin Root..(nextInode - 1)  BY <2>1 DEF Root
  <2>3. N \in Nodes \ {NoNode} /\ N # Root /\ N \in Nat
    BY <2>1, Tables DEF Nodes, NoNode, Root
  <2>4. kind[N] = "none"  BY <2>2, <2>3 DEF NodeType
  <2>5. d \in Nodes /\ kind[d] = "dir"  BY DEF Directories
  <2>6. HashName(d, n) \in 0..(TableSize - 1)  BY <2>5, HashInTable DEF Nodes
  <2> QED  BY <2>3, <2>4, <2>5, <2>6
<1>2. \A h \in 0..(TableSize - 1) : ~In(nameTable[h], N)
  BY <1>1 DEF Tabled, Linked
<1>3. /\ t \in Chains /\ AllDistinct(t)
      /\ \A h \in 0..(TableSize - 1) : \A x :
            In(t[h], x) <=> In(nameTable[h], x) \/ (h = HashName(d, n) /\ x = N)
  <2>1. nameTable \in Chains /\ AllDistinct(nameTable)  BY DEF NodeType, Chains, Tabled
  <2>2. ~In(nameTable[HashName(d, n)], N)  BY <1>1, <1>2
  <2> HIDE DEF N
  <2>3. t \in Chains  BY <1>1, <2>1, <2>2, AddedToTable
  <2>4. AllDistinct(t)  BY <1>1, <2>1, <2>2, AddedToTable
  <2>5. ASSUME NEW h \in 0..(TableSize - 1), NEW x
        PROVE  In(t[h], x) <=> In(nameTable[h], x) \/ (h = HashName(d, n) /\ x = N)
    BY <1>1, <2>1, <2>2, AddedToTable
  <2> QED  BY <2>3, <2>4, <2>5
<1>4. /\ nextInode' = N + 1 /\ kind' = [kind EXCEPT ![N] = k]
      /\ parent' = [parent EXCEPT ![N] = d] /\ name' = [name EXCEPT ![N] = n]
      /\ nameTable' = t /\ entries' = [entries EXCEPT ![d][n] = N] /\ N <= MaxInode
  BY DEF CreateNode
<1>5. entries[d][n] = NoNode  BY LookupListed
<1> HIDE DEF N, t
<1>6. NodeType'
  <2>1. nextInode' \in 2..(MaxInode + 1) /\ N = nextInode
    BY <1>1, <1>4, Tables DEF NodeType, N
  <2>2. /\ kind' \in [Nodes -> {"none", "dir", "file"}] /\ kind'[Root] = "dir"
        /\ parent' \in [Nodes -> Nodes] /\ name' \in [Nodes -> Names \cup {NoName}]
        /\ entries' \in [Nodes -> [Names -> Nodes]]
        /\ parent'[Root] = Root /\ name'[Root] = NoName
    BY <1>1, <1>4, Constants DEF NodeType
  <2>3. \A m \in Nodes : kind'[m] = "none" <=> m \notin Root..(nextInode' - 1)
    <3>1. SUFFICES ASSUME NEW m \in Nodes
                   PROVE  kind'[m] = "none" <=> m \notin Root..(nextInode' - 1)
      OBVIOUS
    <3>2. m \in Root..(nextInode' - 1) <=> (m \in Root..(nextInode - 1) \/ m = N)
      BY <1>1, <1>4, <2>1 DEF Nodes, Root, NodeType
    <3>3. kind'[m] = IF m = N THEN k ELSE kind[m]  BY <1>4 DEF NodeType
    <3> QED  BY <3>2, <3>3 DEF NodeType
  <2>4. \A m \in Nodes \ {Root} : kind'[m] # "none" => name'[m] \in Names
    BY <1>4 DEF NodeType
  <2>5. nameTable' \in [0..(TableSize - 1) -> Seq(Nodes \ {NoNode})]
    BY <1>3, <1>4 DEF Chains
  <2> QED  BY <2>1, <2>2, <2>3, <2>4, <2>5 DEF NodeType
<1>7. /\ \A m \in Nodes \ {N} : parent'[m] = parent[m] /\ name'[m] = name[m] /\ kind'[m] = kind[m]
      /\ parent'[N] = d /\ name'[N] = n /\ kind'[N] = k /\ kind'[d] = "dir"
      /\ \A x \in Nodes, y \in Names :
            entries'[x][y] = IF x = d /\ y = n THEN N ELSE entries[x][y]
  BY <1>1, <1>4 DEF NodeType
<1>8. ASSUME NEW h \in 0..(TableSize - 1), NEW m, In(nameTable'[h], m)
      PROVE  (m = Root \/ Linked(m)') /\ HashName(parent'[m], name'[m]) = h
  <2>1. CASE m = N
    <3>1. h = HashName(d, n)  BY <1>2, <1>3, <1>4, <1>8, <2>1
    <3> QED  BY <1>1, <1>7, <2>1, <3>1 DEF Linked
  <2>2. CASE m # N
    <3>1. In(nameTable[h], m)  BY <1>3, <1>4, <1>8, <2>2
    <3>2. m \in Nodes \ {N, NoNode}  BY <2>2, <3>1 DEF In, NodeType
    <3>3. (m = Root \/ Linked(m)) /\ HashName(parent[m], name[m]) = h  BY <3>1 DEF Tabled
    <3>4. ASSUME Linked(m) PROVE Linked(m)'
      <4>1. /\ m # Root /\ kind[m] # "none" /\ entries[parent[m]][name[m]] = m
            /\ parent[m] \in Nodes /\ name[m] \in Names
        BY <3>2, <3>4 DEF Linked, NodeType
      <4>2. ~(parent[m] = d /\ name[m] = n)  BY <1>5, <3>2, <4>1
      <4>3. entries'[parent[m]][name[m]] = m  BY <1>7, <4>1, <4>2
      <4> QED  BY <1>7, <3>2, <4>1, <4>3 DEF Linked
    <3> QED  BY <1>7, <3>2, <3>3, <3>4
  <2> QED  BY <2>1, <2>2
<1>9. ASSUME NEW x \in Nodes, NEW y \in Names, entries'[x][y] # NoNode
      PROVE  /\ kind'[x] = "dir" /\ parent'[entries'[x][y]] = x /\ name'[entries'[x][y]] = y
             /\ In(nameTable'[HashName(x, y)], entries'[x][y])
  <2>1. HashName(x, y) \in 0..(TableSize - 1)  BY HashInTable DEF Nodes
  <2>2. CASE x = d /\ y = n  BY <1>1, <1>3, <1>4, <1>7, <2>1, <2>2
  <2>3. CASE ~(x = d /\ y = n)
    <3>1. /\ entries'[x][y] = entries[x][y] /\ kind[x] = "dir"
          /\ parent[entries[x][y]] = x /\ name[entries[x][y]] = y
          /\ In(nameTable[HashName(x, y)], entries[x][y])
      BY <1>7, <1>9, <2>3 DEF Tabled
    <3>2. entries[x][y] \in Nodes \ {N} /\ x # N
      BY <1>1, <1>2, <2>1, <3>1 DEF NodeType
    <3> QED  BY <1>3, <1>4, <1>7, <2>1, <3>1, <3>2
  <2> QED  BY <2>2, <2>3
<1> QED  BY <1>3, <1>4, <1>6, <1>8, <1>9 DEF Tabled, AllDistinct

(* So does the removal of a name.                                          *)
LEMMA DetachTabled ==
    ASSUME NodeType, Tabled, NEW m \in Nodes \ {NoNode}, Linked(m), Detach(m)
    PROVE  NodeType' /\ Tabled'
<1> DEFINE t == HashRemoveNode(nameTable, m)
           d == parent[m]
           n == name[m]
<1>1. d \in Nodes /\ n \in Names /\ m # Root /\ entries[d][n] = m
  BY DEF NodeType, Linked
<1>2. /\ t \in Chains /\ AllDistinct(t)
      /\ \A h \in 0..(TableSize - 1) : \A x :
            In(t[h], x) <=> In(nameTable[h], x) /\ ~(h = HashName(d, n) /\ x = m)
  <2>1. nameTable \in Chains /\ AllDistinct(nameTable)  BY DEF NodeType, Chains, Tabled
  <2> QED  BY <2>1, RemovedFromTable
<1>3. /\ nameTable' = t /\ entries' = [entries EXCEPT ![d][n] = NoNode]
      /\ nextInode' = nextInode /\ kind' = kind /\ parent' = parent /\ name' = name
  BY DEF Detach
<1> HIDE DEF t
<1>4. NodeType'
  <2>1. nameTable' \in [0..(TableSize - 1) -> Seq(Nodes \ {NoNode})]
    BY <1>2, <1>3 DEF Chains
  <2> QED  BY <1>1, <1>3, <2>1, Constants DEF NodeType
<1>5. \A x \in Nodes, y \in Names :
         entries'[x][y] = IF x = d /\ y = n THEN NoNode ELSE entries[x][y]
  BY <1>1, <1>3 DEF NodeType
<1>6. ASSUME NEW h \in 0..(TableSize - 1), NEW x, In(nameTable'[h], x)
      PROVE  (x = Root \/ Linked(x)') /\ HashName(parent'[x], name'[x]) = h
  <2>1. /\ In(nameTable[h], x) /\ ~(h = HashName(d, n) /\ x = m)
        /\ (x = Root \/ Linked(x)) /\ HashName(parent[x], name[x]) = h
    BY <1>2, <1>3, <1>6 DEF Tabled
  <2>2. x # m /\ x \in Nodes
    <3>1. x # m  BY <2>1
    <3>2. nameTable[h] \in Seq(Nodes \ {NoNode})  BY DEF NodeType
    <3>3. x \in Nodes  BY <2>1, <3>2 DEF In
    <3> QED  BY <3>1, <3>3
  <2>3. ASSUME Linked(x) PROVE Linked(x)'
    <3>1. parent[x] \in Nodes /\ name[x] \in Names  BY <2>2, <2>3 DEF Linked, NodeType
    <3>2. ~(parent[x] = d /\ name[x] = n)  BY <1>1, <2>2, <2>3 DEF Linked
    <3> QED  BY <1>3, <1>5, <2>3, <3>1, <3>2 DEF Linked
  <2> QED  BY <1>3, <2>1, <2>3
<1>7. ASSUME NEW x \in Nodes, NEW y \in Names, entries'[x][y] # NoNode
      PROVE  /\ kind'[x] = "dir" /\ parent'[entries'[x][y]] = x /\ name'[entries'[x][y]] = y
             /\ In(nameTable'[HashName(x, y)], entries'[x][y])
  <2>1. HashName(x, y) \in 0..(TableSize - 1)  BY HashInTable DEF Nodes
  <2>2. entries'[x][y] = entries[x][y] /\ ~(x = d /\ y = n)  BY <1>5, <1>7
  <2>3. /\ kind[x] = "dir" /\ parent[entries[x][y]] = x /\ name[entries[x][y]] = y
        /\ In(nameTable[HashName(x, y)], entries[x][y])
    BY <1>7, <2>2 DEF Tabled
  <2> QED  BY <1>2, <1>3, <2>1, <2>2, <2>3
<1> QED  BY <1>2, <1>3, <1>4, <1>6, <1>7 DEF Tabled

(* A rename that MEMFS refuses leaves the table as it was, but for the     *)
(* order in a chain.                                                       *)
LEMMA StayTabled ==
    ASSUME NodeType, Tabled, NEW m \in Nodes \ {NoNode}, Linked(m), Stay(m)
    PROVE  NodeType' /\ Tabled'
<1> DEFINE rest == HashRemoveNode(nameTable, m)
           d == parent[m]
           n == name[m]
           g == HashName(d, n)
           t == HashAddNode(rest, m, d, n)
<1>a. d \in Nodes /\ n \in Names /\ entries[d][n] = m
  BY DEF NodeType, Linked
<1>1. g \in 0..(TableSize - 1)
  <2>1. d \in Nat /\ n \in Names \cup {NoName}  BY <1>a DEF Nodes
  <2> QED  BY <2>1, HashInTable
<1>2. In(nameTable[g], m)
  BY <1>a DEF Tabled
<1>3. /\ rest \in Chains /\ AllDistinct(rest)
      /\ \A h \in 0..(TableSize - 1) : \A x :
            In(rest[h], x) <=> In(nameTable[h], x) /\ ~(h = g /\ x = m)
  <2>1. nameTable \in Chains /\ AllDistinct(nameTable)  BY DEF NodeType, Chains, Tabled
  <2> QED  BY <2>1, RemovedFromTable
<1> HIDE DEF rest
<1>4. /\ t \in Chains /\ AllDistinct(t)
      /\ \A h \in 0..(TableSize - 1) : \A x : In(t[h], x) <=> In(rest[h], x) \/ (h = g /\ x = m)
  <2>1. ~In(rest[g], m)  BY <1>1, <1>3
  <2>3. rest \in Chains /\ AllDistinct(rest) /\ d \in Nodes  BY <1>a, <1>3
  <2> HIDE DEF d, n
  <2>4. t \in Chains  BY <1>a, <2>1, <2>3, AddedToTable
  <2>5. AllDistinct(t)  BY <1>a, <2>1, <2>3, AddedToTable
  <2>6. ASSUME NEW h \in 0..(TableSize - 1), NEW x
        PROVE  In(t[h], x) <=> In(rest[h], x) \/ (h = g /\ x = m)
    BY <1>a, <2>1, <2>3, AddedToTable
  <2> QED  BY <2>4, <2>5, <2>6
<1>5. /\ nameTable' = t /\ nextInode' = nextInode /\ kind' = kind /\ parent' = parent
      /\ name' = name /\ entries' = entries
  BY DEF Stay, rest
<1> HIDE DEF t, g, d, n
<1>6. \A h \in 0..(TableSize - 1) : \A x : In(nameTable'[h], x) <=> In(nameTable[h], x)
  BY <1>2, <1>3, <1>4, <1>5
<1>7. NodeType'
  BY <1>4, <1>5 DEF NodeType, Chains
<1>8. \A x : Linked(x)' <=> Linked(x)  BY <1>5 DEF Linked
<1>9. \A x \in Nodes, y \in Names : HashName(x, y) \in 0..(TableSize - 1)
  BY HashInTable DEF Nodes
<1>10. \A h \in 0..(TableSize - 1) : \A x : In(nameTable'[h], x) =>
          (x = Root \/ Linked(x)') /\ HashName(parent'[x], name'[x]) = h
  BY <1>5, <1>6, <1>8 DEF Tabled
<1>11. \A x \in Nodes, y \in Names : entries'[x][y] # NoNode =>
          /\ kind'[x] = "dir" /\ parent'[entries'[x][y]] = x /\ name'[entries'[x][y]] = y
          /\ In(nameTable'[HashName(x, y)], entries'[x][y])
  BY <1>5, <1>6, <1>9 DEF Tabled
<1> QED  BY <1>4, <1>5, <1>7, <1>10, <1>11 DEF Tabled

(* A rename takes the node, and the one it replaces, out of the table by   *)
(* the old parents and names, and puts the node in by the new ones.        *)
LEMMA MovedTable ==
    ASSUME NodeType, Tabled, NEW old \in Nodes \ {NoNode}, Linked(old),
           NEW d \in Nodes, NEW n \in Names, NEW new \in Nodes, new # old,
           new # NoNode => Linked(new) /\ parent[new] = d /\ name[new] = n,
           Move(old, new, d, n)
    PROVE  /\ nameTable' \in Chains /\ AllDistinct(nameTable')
           /\ \A h \in 0..(TableSize - 1) : \A x :
                 In(nameTable'[h], x) <=>
                     IF x = old THEN h = HashName(d, n) ELSE In(nameTable[h], x) /\ x # new
<1> DEFINE rest == HashRemoveNode(nameTable, old)
           both == IF new = NoNode THEN rest ELSE HashRemoveNode(rest, new)
<1>1. /\ rest \in Chains /\ AllDistinct(rest)
      /\ \A h \in 0..(TableSize - 1) : \A x :
            In(rest[h], x) <=> /\ In(nameTable[h], x)
                               /\ ~(h = HashName(parent[old], name[old]) /\ x = old)
  <2>1. nameTable \in Chains /\ AllDistinct(nameTable)  BY DEF NodeType, Chains, Tabled
  <2> QED  BY <2>1, RemovedFromTable
<1> HIDE DEF rest
<1>2. \A h \in 0..(TableSize - 1) : \A x : In(rest[h], x) <=> In(nameTable[h], x) /\ x # old
  BY <1>1 DEF Tabled
<1>3. /\ both \in Chains /\ AllDistinct(both)
      /\ \A h \in 0..(TableSize - 1) : \A x : In(both[h], x) <=> In(rest[h], x) /\ x # new
  <2>1. CASE new = NoNode
    <3>1. \A h \in 0..(TableSize - 1) : ~In(rest[h], NoNode)
      <4>1. \A h \in 0..(TableSize - 1) : rest[h] \in Seq(Nodes \ {NoNode})
        BY <1>1 DEF Chains
      <4> QED  BY <4>1 DEF In
    <3> QED  BY <1>1, <2>1, <3>1
  <2>2. CASE new # NoNode
    <3>1. /\ HashRemoveNode(rest, new) \in Chains /\ AllDistinct(HashRemoveNode(rest, new))
          /\ \A h \in 0..(TableSize - 1) : \A x :
                In(HashRemoveNode(rest, new)[h], x) <=>
                    In(rest[h], x) /\ ~(h = HashName(parent[new], name[new]) /\ x = new)
      BY <1>1, <2>2, RemovedFromTable
    <3>2. \A h \in 0..(TableSize - 1) :
             In(rest[h], new) => h = HashName(parent[new], name[new])
      BY <1>2 DEF Tabled
    <3> QED  BY <2>2, <3>1, <3>2
  <2> QED  BY <2>1, <2>2
<1>4. nameTable' = HashAddNode(both, old, d, n)  BY DEF Move, rest
<1> HIDE DEF both
<1>5. HashName(d, n) \in 0..(TableSize - 1)  BY HashInTable DEF Nodes
<1>6. ~In(both[HashName(d, n)], old)  BY <1>2, <1>3, <1>5
<1> DEFINE t == HashAddNode(both, old, d, n)
<1>7. t \in Chains  BY <1>3, <1>6, AddedToTable
<1>8. AllDistinct(t)  BY <1>3, <1>6, AddedToTable
<1>9. ASSUME NEW h \in 0..(TableSize - 1), NEW x
      PROVE  In(t[h], x) <=> In(both[h], x) \/ (h = HashName(d, n) /\ x = old)
  BY <1>3, <1>6, AddedToTable
<1> QED  BY <1>2, <1>3, <1>4, <1>5, <1>7, <1>8, <1>9

(* A rename keeps the table.                                               *)
LEMMA MoveTabled ==
    ASSUME NodeType, Tabled, NEW old \in Nodes \ {NoNode}, Linked(old),
           NEW d \in Directories, NEW n \in Names, NEW new \in Nodes, new # old,
           new = entries[d][n], Move(old, new, d, n)
    PROVE  NodeType' /\ Tabled'
<1>1. d \in Nodes /\ kind[d] = "dir"  BY DEF Directories
<1>2. new # NoNode => Linked(new) /\ parent[new] = d /\ name[new] = n
  <2>1. SUFFICES ASSUME new # NoNode PROVE Linked(new) /\ parent[new] = d /\ name[new] = n
    OBVIOUS
  <2>2. parent[new] = d /\ name[new] = n  BY <1>1, <2>1 DEF Tabled
  <2>3. In(nameTable[HashName(d, n)], new)  BY <1>1, <2>1 DEF Tabled
  <2>4. HashName(d, n) \in 0..(TableSize - 1)  BY <1>1, HashInTable DEF Nodes
  <2>5. new # Root  BY <2>2, Tables DEF NodeType
  <2> QED  BY <2>2, <2>3, <2>4, <2>5 DEF Tabled
<1>3. /\ nameTable' \in Chains /\ AllDistinct(nameTable')
      /\ \A h \in 0..(TableSize - 1) : \A x :
            In(nameTable'[h], x) <=>
                IF x = old THEN h = HashName(d, n) ELSE In(nameTable[h], x) /\ x # new
  BY <1>1, <1>2, MovedTable
<1>4. /\ parent[old] \in Nodes /\ name[old] \in Names /\ entries[parent[old]][name[old]] = old
      /\ old # Root /\ kind[old] # "none"
  BY DEF NodeType, Linked
<1>5. /\ parent' = [parent EXCEPT ![old] = d] /\ name' = [name EXCEPT ![old] = n]
      /\ entries' = [entries EXCEPT ![parent[old]][name[old]] = NoNode, ![d][n] = old]
      /\ nextInode' = nextInode /\ kind' = kind
  BY DEF Move
<1>6. NodeType'
  <2>1. nameTable' \in [0..(TableSize - 1) -> Seq(Nodes \ {NoNode})]  BY <1>3 DEF Chains
  <2>2. entries' \in [Nodes -> [Names -> Nodes]]
    BY <1>1, <1>4, <1>5, Constants DEF NodeType
  <2>3. /\ nextInode' \in 2..(MaxInode + 1)
        /\ kind' \in [Nodes -> {"none", "dir", "file"}] /\ kind'[Root] = "dir"
        /\ \A m \in Nodes : kind'[m] = "none" <=> m \notin Root..(nextInode' - 1)
    BY <1>5 DEF NodeType
  <2>4. /\ parent' \in [Nodes -> Nodes] /\ name' \in [Nodes -> Names \cup {NoName}]
        /\ parent'[Root] = Root /\ name'[Root] = NoName
        /\ \A m \in Nodes \ {Root} : kind'[m] # "none" => name'[m] \in Names
    BY <1>1, <1>4, <1>5 DEF NodeType
  <2> QED  BY <2>1, <2>2, <2>3, <2>4 DEF NodeType
<1>7. /\ \A x \in Nodes \ {old} : parent'[x] = parent[x] /\ name'[x] = name[x]
      /\ parent'[old] = d /\ name'[old] = n
  BY <1>5 DEF NodeType
<1>8. \A x \in Nodes, y \in Names :
         entries'[x][y] = IF x = d /\ y = n THEN old
                          ELSE IF x = parent[old] /\ y = name[old] THEN NoNode
                          ELSE entries[x][y]
  BY <1>1, <1>4, <1>5 DEF NodeType
<1>9. \A x \in Nodes, y \in Names : HashName(x, y) \in 0..(TableSize - 1)
  BY HashInTable DEF Nodes
<1>10. ASSUME NEW h \in 0..(TableSize - 1), NEW x, In(nameTable'[h], x)
       PROVE  (x = Root \/ Linked(x)') /\ HashName(parent'[x], name'[x]) = h
  <2>1. CASE x = old
    <3>1. h = HashName(d, n)  BY <1>3, <1>10, <2>1
    <3>2. entries'[d][n] = old  BY <1>1, <1>8
    <3> QED  BY <1>4, <1>5, <1>7, <2>1, <3>1, <3>2 DEF Linked
  <2>2. CASE x # old
    <3>1. /\ In(nameTable[h], x) /\ x # new
          /\ (x = Root \/ Linked(x)) /\ HashName(parent[x], name[x]) = h
      BY <1>3, <1>10, <2>2 DEF Tabled
    <3>2. nameTable[h] \in Seq(Nodes \ {NoNode})  BY DEF NodeType
    <3>3. x \in Nodes \ {old}  BY <2>2, <3>1, <3>2 DEF In
    <3>4. ASSUME Linked(x) PROVE Linked(x)'
      <4>1. /\ parent[x] \in Nodes /\ name[x] \in Names
            /\ entries[parent[x]][name[x]] = x
        BY <3>3, <3>4 DEF Linked, NodeType
      <4>2. ~(parent[x] = d /\ name[x] = n)  BY <3>1, <4>1
      <4>3. ~(parent[x] = parent[old] /\ name[x] = name[old])  BY <1>4, <2>2, <4>1
      <4>4. entries'[parent[x]][name[x]] = x  BY <1>8, <4>1, <4>2, <4>3
      <4> QED  BY <1>5, <1>7, <3>3, <3>4, <4>4 DEF Linked
    <3> QED  BY <1>7, <3>1, <3>3, <3>4
  <2> QED  BY <2>1, <2>2
<1>11. ASSUME NEW x \in Nodes, NEW y \in Names, entries'[x][y] # NoNode
       PROVE  /\ kind'[x] = "dir" /\ parent'[entries'[x][y]] = x /\ name'[entries'[x][y]] = y
              /\ In(nameTable'[HashName(x, y)], entries'[x][y])
  <2>1. CASE x = d /\ y = n
    <3>1. entries'[x][y] = old  BY <1>8, <2>1
    <3>2. In(nameTable'[HashName(d, n)], old)  BY <1>1, <1>3, <1>9
    <3> QED  BY <1>1, <1>5, <1>7, <2>1, <3>1, <3>2
  <2>2. CASE ~(x = d /\ y = n)
    <3> DEFINE m == entries[x][y]
    <3>1. /\ entries'[x][y] = m /\ m # NoNode /\ ~(x = parent[old] /\ y = name[old])
      BY <1>8, <1>11, <2>2
    <3>2. m \in Nodes  BY DEF NodeType
    <3>3. kind[x] = "dir" /\ parent[m] = x /\ name[m] = y /\ In(nameTable[HashName(x, y)], m)
      BY <3>1 DEF Tabled
    <3>4. m # old /\ m # new  BY <1>2, <2>2, <3>1, <3>3
    <3> QED  BY <1>3, <1>5, <1>7, <1>9, <3>1, <3>2, <3>3, <3>4
  <2> QED  BY <2>1, <2>2
<1> QED  BY <1>3, <1>6, <1>10, <1>11 DEF Tabled

-----------------------------------------------------------------------------
(* The bytes of a file.                                                    *)
FileType == [contents : Seq(Nat), usedBytes : Nat]

(* The new array is as long as it has to be.                               *)
LEMMA CapacityEnough ==
    ASSUME NEW prev \in Nat, NEW needed \in Nat
    PROVE  Capacity(prev, needed) \in Nat /\ Capacity(prev, needed) >= needed
<1>1. CapacityFrom(prev) \in Nat  BY DEF CapacityFrom
<1>2. Larger(needed, CapacityFrom(prev)) \in Nat /\ Larger(needed, CapacityFrom(prev)) >= needed
  BY <1>1 DEF Larger
<1>3. (IF prev # 0 THEN MinCapacity ELSE 0) \in Nat  BY Capacities
<1> QED  BY <1>2, <1>3 DEF Capacity, Larger

(* It holds the bytes of before, then zeros.                               *)
LEMMA ExpandedSound ==
    ASSUME NEW f \in FileType, Sound(f), NEW needed \in Nat, needed > f.usedBytes
    PROVE  LET g == ExpandFileStorage(f, needed)
           IN  /\ g \in FileType /\ g.usedBytes = f.usedBytes
               /\ Len(g.contents) >= needed
               /\ \A i \in 1..Len(g.contents) :
                     g.contents[i] = IF i <= f.usedBytes THEN f.contents[i] ELSE 0
<1> DEFINE prev == Len(f.contents)
           n == Capacity(prev, needed)
           c == [i \in 1..n |-> IF i <= f.usedBytes THEN f.contents[i] ELSE 0]
<1>1. prev \in Nat /\ f.usedBytes \in Nat /\ f.usedBytes <= prev /\ DOMAIN f.contents = 1..prev
      /\ \A i \in 1..prev : f.contents[i] \in Nat
  BY DEF FileType, Sound
<1>2. CASE prev >= needed
  BY <1>1, <1>2 DEF ExpandFileStorage, Sound
<1>3. CASE ~(prev >= needed)
  <2>1. n \in Nat /\ n >= needed  BY <1>1, CapacityEnough
  <2>2. ExpandFileStorage(f, needed) = [f EXCEPT !.contents = c]  BY <1>3 DEF ExpandFileStorage
  <2> HIDE DEF n
  <2>3. \A i \in 1..n : (IF i <= f.usedBytes THEN f.contents[i] ELSE 0) \in Nat  BY <1>1
  <2>4. c \in Seq(Nat) /\ Len(c) = n  BY <2>1, <2>3
  <2>5. \A i \in 1..n : c[i] = IF i <= f.usedBytes THEN f.contents[i] ELSE 0  OBVIOUS
  <2> HIDE DEF c
  <2> QED  BY <2>1, <2>2, <2>4, <2>5 DEF FileType
<1> QED  BY <1>2, <1>3

(* A copy into the array.                                                  *)
LEMMA SetType ==
    ASSUME NEW s \in Seq(Nat), NEW pos \in Nat, NEW buf \in Seq(Nat)
    PROVE  /\ Set(s, pos, buf) \in Seq(Nat) /\ Len(Set(s, pos, buf)) = Len(s)
           /\ \A i \in 1..Len(s) : Set(s, pos, buf)[i] =
                 IF i > pos /\ i <= pos + Len(buf) THEN buf[i - pos] ELSE s[i]
<1>1. DOMAIN s = 1..Len(s) /\ Len(s) \in Nat  OBVIOUS
<1>2. \A i \in 1..Len(s) :
         (IF i > pos /\ i <= pos + Len(buf) THEN buf[i - pos] ELSE s[i]) \in Nat
  OBVIOUS
<1>3. Set(s, pos, buf) = [i \in 1..Len(s) |->
         IF i > pos /\ i <= pos + Len(buf) THEN buf[i - pos] ELSE s[i]]
  BY <1>1 DEF Set
<1> QED  BY <1>1, <1>2, <1>3

(* A write leaves in the array the bytes of before, the bytes that are     *)
(* written over them, and zeros.                                           *)
LEMMA WrittenBytes ==
    ASSUME NEW f \in FileType, Sound(f), NEW pos \in Nat, NEW buf \in Seq(Nat), buf # <<>>
    PROVE  LET g == Written(f, pos, buf)
           IN  /\ g \in FileType
               /\ g.usedBytes = Larger(f.usedBytes, pos + Len(buf))
               /\ g.usedBytes <= Len(g.contents)
               /\ \A i \in 1..Len(g.contents) : g.contents[i] =
                     IF i > pos /\ i <= pos + Len(buf) THEN buf[i - pos]
                     ELSE IF i <= f.usedBytes THEN f.contents[i] ELSE 0
<1> DEFINE end == pos + Len(buf)
           e == ExpandFileStorage(f, end)
           g == Written(f, pos, buf)
<1>1. /\ Len(f.contents) \in Nat /\ f.usedBytes \in Nat /\ f.usedBytes <= Len(f.contents)
      /\ DOMAIN f.contents = 1..Len(f.contents) /\ f.contents \in Seq(Nat)
      /\ \A i \in 1..Len(f.contents) : i > f.usedBytes => f.contents[i] = 0
  BY DEF FileType, Sound
<1>2. Len(buf) \in Nat \ {0} /\ end \in Nat  OBVIOUS
<1>3. SUFFICES /\ g \in FileType
               /\ g.usedBytes = Larger(f.usedBytes, end)
               /\ g.usedBytes <= Len(g.contents)
               /\ \A i \in 1..Len(g.contents) : g.contents[i] =
                     IF i > pos /\ i <= end THEN buf[i - pos]
                     ELSE IF i <= f.usedBytes THEN f.contents[i] ELSE 0
  OBVIOUS
<1>4. CASE f.usedBytes = 0 /\ pos = 0
  <2>1. g = [contents |-> buf, usedBytes |-> Len(buf)]  BY <1>4 DEF Written
  <2> HIDE DEF g
  <2> QED  BY <1>2, <1>4, <2>1 DEF FileType, Larger
<1>5. CASE ~(f.usedBytes = 0 /\ pos = 0) /\ end <= f.usedBytes
  <2> DEFINE c == Set(f.contents, pos, buf)
  <2>1. g = [f EXCEPT !.contents = c]  BY <1>5 DEF Written
  <2>2. /\ c \in Seq(Nat) /\ Len(c) = Len(f.contents)
        /\ \A i \in 1..Len(f.contents) : c[i] =
              IF i > pos /\ i <= end THEN buf[i - pos] ELSE f.contents[i]
    BY <1>1, SetType
  <2> HIDE DEF c, g
  <2>3. g \in FileType /\ g.contents = c /\ g.usedBytes = f.usedBytes
    BY <2>1, <2>2 DEF FileType
  <2>4. \A i \in 1..Len(c) : c[i] =
           IF i > pos /\ i <= end THEN buf[i - pos]
           ELSE IF i <= f.usedBytes THEN f.contents[i] ELSE 0
    <3>1. \A i \in 1..Len(f.contents) :
             f.contents[i] = IF i <= f.usedBytes THEN f.contents[i] ELSE 0
      BY <1>1
    <3> QED  BY <2>2, <3>1
  <2>5. Larger(f.usedBytes, end) = f.usedBytes  BY <1>1, <1>2, <1>5 DEF Larger
  <2> QED  BY <1>1, <2>2, <2>3, <2>4, <2>5
<1>6. CASE ~(f.usedBytes = 0 /\ pos = 0) /\ ~(end <= f.usedBytes)
  <2> DEFINE c == Set(e.contents, pos, buf)
  <2>1. g = [contents |-> c, usedBytes |-> Larger(f.usedBytes, end)]  BY <1>6 DEF Written
  <2>2. end > f.usedBytes  BY <1>1, <1>2, <1>6
  <2> HIDE DEF end, g
  <2>3. /\ e \in FileType /\ Len(e.contents) >= end
        /\ \A i \in 1..Len(e.contents) :
              e.contents[i] = IF i <= f.usedBytes THEN f.contents[i] ELSE 0
    BY <1>2, <2>2, ExpandedSound
  <2> HIDE DEF e
  <2>4. e.contents \in Seq(Nat) /\ Len(e.contents) \in Nat  BY <2>3 DEF FileType
  <2>5. /\ c \in Seq(Nat) /\ Len(c) = Len(e.contents)
        /\ \A i \in 1..Len(e.contents) : c[i] =
              IF i > pos /\ i <= end THEN buf[i - pos] ELSE e.contents[i]
    BY <2>4, SetType DEF end
  <2> HIDE DEF c
  <2>6. Larger(f.usedBytes, end) = end  BY <1>1, <1>2, <2>2 DEF Larger
  <2>7. g \in FileType /\ g.contents = c /\ g.usedBytes = Larger(f.usedBytes, end)
    BY <1>2, <2>1, <2>5, <2>6 DEF FileType
  <2>8. \A i \in 1..Len(c) : c[i] =
           IF i > pos /\ i <= end THEN buf[i - pos]
           ELSE IF i <= f.usedBytes THEN f.contents[i] ELSE 0
    BY <2>3, <2>5
  <2> QED  BY <2>3, <2>5, <2>6, <2>7, <2>8
<1> QED  BY <1>4, <1>5, <1>6

(* A write keeps the zeros behind the end.                                 *)
LEMMA WrittenSound ==
    ASSUME NEW f \in FileType, Sound(f), NEW pos \in Nat, NEW buf \in Seq(Nat)
    PROVE  Written(f, pos, buf) \in FileType /\ Sound(Written(f, pos, buf))
<1>1. CASE buf = <<>>  BY <1>1 DEF Written
<1>2. CASE buf # <<>>
  <2> DEFINE g == Written(f, pos, buf)
  <2>1. /\ g \in FileType
        /\ g.usedBytes = Larger(f.usedBytes, pos + Len(buf))
        /\ g.usedBytes <= Len(g.contents)
        /\ \A i \in 1..Len(g.contents) : g.contents[i] =
              IF i > pos /\ i <= pos + Len(buf) THEN buf[i - pos]
              ELSE IF i <= f.usedBytes THEN f.contents[i] ELSE 0
    BY <1>2, WrittenBytes
  <2> HIDE DEF g
  <2>2. /\ f.usedBytes \in Nat /\ Len(buf) \in Nat \ {0}
        /\ g.usedBytes >= f.usedBytes /\ g.usedBytes >= pos + Len(buf) /\ g.usedBytes # 0
        /\ g.usedBytes \in Nat /\ DOMAIN g.contents = 1..Len(g.contents)
    BY <1>2, <2>1 DEF FileType, Larger
  <2>3. \A i \in DOMAIN g.contents : i > g.usedBytes => g.contents[i] = 0
    BY <2>1, <2>2
  <2> QED  BY <2>1, <2>2, <2>3 DEF Sound, g
<1> QED  BY <1>1, <1>2

(* The bytes that count are a sequence.                                    *)
LEMMA StoredBytes ==
    ASSUME NEW f \in FileType, Sound(f)
    PROVE  /\ Stored(f) \in Seq(Nat) /\ Len(Stored(f)) = f.usedBytes
           /\ \A i \in 1..f.usedBytes : Stored(f)[i] = f.contents[i]
<1>1. \A i \in 1..f.usedBytes : f.contents[i] \in Nat
  BY DEF FileType, Sound
<1>2. f.usedBytes \in Nat  BY DEF FileType
<1> QED  BY <1>1, <1>2 DEF Stored

(* A write to the array does to the bytes that count what the promise      *)
(* says: no byte of before the array grew, or beyond the end of the file,  *)
(* comes back.                                                             *)
THEOREM WriteExact ==
    ASSUME NEW f \in FileType, Sound(f), NEW pos \in Nat, NEW buf \in Seq(Nat)
    PROVE  Stored(Written(f, pos, buf)) = Promise!Overwritten(Stored(f), pos, buf)
<1> DEFINE g == Written(f, pos, buf)
           d == Stored(f)
           n == pos + Len(buf)
<1>1. d \in Seq(Nat) /\ Len(d) = f.usedBytes /\ (\A i \in 1..f.usedBytes : d[i] = f.contents[i])
      /\ f.usedBytes \in Nat
  BY StoredBytes DEF FileType
<1>2. CASE buf = <<>>
  BY <1>2 DEF Written, Promise!Overwritten
<1>3. CASE buf # <<>>
  <2>1. /\ g \in FileType
        /\ g.usedBytes = Larger(f.usedBytes, n)
        /\ g.usedBytes <= Len(g.contents)
        /\ \A i \in 1..Len(g.contents) : g.contents[i] =
              IF i > pos /\ i <= n THEN buf[i - pos]
              ELSE IF i <= f.usedBytes THEN f.contents[i] ELSE 0
    BY <1>3, WrittenBytes
  <2> HIDE DEF g, d
  <2>2. Larger(f.usedBytes, n) = (IF Len(d) < n THEN n ELSE Len(d)) /\ g.usedBytes \in Nat
    BY <1>1, <2>1 DEF Larger, FileType
  <2>3. \A i \in 1..g.usedBytes : g.contents[i] =
           IF i > pos /\ i <= n THEN buf[i - pos] ELSE IF i <= Len(d) THEN d[i] ELSE 0
    <3>1. SUFFICES ASSUME NEW i \in 1..g.usedBytes
                   PROVE  g.contents[i] =
                            IF i > pos /\ i <= n THEN buf[i - pos]
                            ELSE IF i <= Len(d) THEN d[i] ELSE 0
      OBVIOUS
    <3>2. Len(g.contents) \in Nat  BY <2>1 DEF FileType
    <3>3. i \in 1..Len(g.contents)  BY <2>1, <2>2, <3>2
    <3>4. i <= f.usedBytes => d[i] = f.contents[i]  BY <1>1, <2>2
    <3> QED  BY <1>1, <2>1, <3>3, <3>4
  <2>4. Promise!Overwritten(d, pos, buf) =
           [i \in 1..g.usedBytes |->
               IF i > pos /\ i <= n THEN buf[i - pos] ELSE IF i <= Len(d) THEN d[i] ELSE 0]
    BY <1>3, <2>1, <2>2 DEF Promise!Overwritten
  <2>5. Stored(g) = [i \in 1..g.usedBytes |-> g.contents[i]]  BY DEF Stored
  <2> QED  BY <2>3, <2>4, <2>5 DEF g, d
<1> QED  BY <1>2, <1>3

(* Of two writes, the second from where the first ends.                    *)
LEMMA OverwrittenTwice ==
    ASSUME NEW d \in Seq(Nat), NEW pos \in Nat, NEW x \in Seq(Nat), NEW y \in Seq(Nat)
    PROVE  Promise!Overwritten(Promise!Overwritten(d, pos, x), pos + Len(x), y)
             = Promise!Overwritten(d, pos, x \o y)
<1>1. CASE x = <<>>
  <2>1. x \o y = y /\ pos + Len(x) = pos  BY <1>1
  <2> QED  BY <1>1, <2>1 DEF Promise!Overwritten
<1>2. CASE y = <<>>
  <2>1. x \o y = x  BY <1>2
  <2> QED  BY <1>2, <2>1 DEF Promise!Overwritten
<1>3. CASE x # <<>> /\ y # <<>>
  <2> DEFINE z == x \o y
             d1 == Promise!Overwritten(d, pos, x)
             mid == pos + Len(x)
             end == mid + Len(y)
             n1 == IF Len(d) < mid THEN mid ELSE Len(d)
             n2 == IF Len(d) < end THEN end ELSE Len(d)
  <2>1. /\ Len(z) = Len(x) + Len(y) /\ z # <<>>
        /\ \A i \in 1..(Len(x) + Len(y)) :
              z[i] = IF i <= Len(x) THEN x[i] ELSE y[i - Len(x)]
    BY <1>3
  <2> HIDE DEF z
  <2>2. /\ Len(d) \in Nat /\ Len(x) \in Nat \ {0} /\ Len(y) \in Nat \ {0} /\ mid \in Nat
        /\ end \in Nat /\ mid > pos /\ end > mid
    BY <1>3
  <2>3. d1 = [i \in 1..n1 |-> IF i > pos /\ i <= mid THEN x[i - pos]
                              ELSE IF i <= Len(d) THEN d[i] ELSE 0]
    BY <1>3 DEF Promise!Overwritten
  <2>4. n1 \in Nat /\ n1 >= mid /\ n1 >= Len(d)  BY <2>2
  <2> HIDE DEF n1, d1
  <2>5. Len(d1) = n1 /\ \A i \in 1..n1 : d1[i] =
           IF i > pos /\ i <= mid THEN x[i - pos] ELSE IF i <= Len(d) THEN d[i] ELSE 0
    <3> DEFINE F(i) == IF i > pos /\ i <= mid THEN x[i - pos]
                       ELSE IF i <= Len(d) THEN d[i] ELSE 0
    <3>1. \A i \in 1..n1 : F(i) \in Nat
      <4>1. SUFFICES ASSUME NEW i \in 1..n1 PROVE F(i) \in Nat  OBVIOUS
      <4>2. CASE i > pos /\ i <= mid
        <5>1. i - pos \in 1..Len(x)  BY <2>2, <2>4, <4>2
        <5> QED  BY <4>2, <5>1
      <4>3. CASE ~(i > pos /\ i <= mid)  BY <2>2, <2>4, <4>3
      <4> QED  BY <4>2, <4>3
    <3>2. d1 = [i \in 1..n1 |-> F(i)]  BY <2>3
    <3> HIDE DEF F
    <3>3. d1 \in Seq(Nat) /\ Len(d1) = n1 /\ \A i \in 1..n1 : d1[i] = F(i)
      BY <2>4, <3>1, <3>2
    <3> QED  BY <3>3 DEF F
  <2>6. (IF Len(d1) < end THEN end ELSE Len(d1)) = n2
    BY <2>2, <2>5 DEF n1
  <2>7. Promise!Overwritten(d1, mid, y) =
          [i \in 1..n2 |-> IF i > mid /\ i <= end THEN y[i - mid]
                           ELSE IF i <= n1 THEN d1[i] ELSE 0]
    BY <1>3, <2>5, <2>6 DEF Promise!Overwritten
  <2>8. Promise!Overwritten(d, pos, z) =
          [i \in 1..n2 |-> IF i > pos /\ i <= end THEN z[i - pos]
                           ELSE IF i <= Len(d) THEN d[i] ELSE 0]
    <3>1. pos + Len(z) = end  BY <2>1, <2>2
    <3> HIDE DEF end
    <3> QED  BY <2>1, <3>1 DEF Promise!Overwritten
  <2>9. ASSUME NEW i \in 1..n2
        PROVE  (IF i > mid /\ i <= end THEN y[i - mid] ELSE IF i <= n1 THEN d1[i] ELSE 0)
               = (IF i > pos /\ i <= end THEN z[i - pos] ELSE IF i <= Len(d) THEN d[i] ELSE 0)
    <3>1. i \in Nat \ {0}  BY <2>2
    <3>2. CASE i > mid /\ i <= end
      <4>1. /\ i - pos \in 1..(Len(x) + Len(y)) /\ ~(i - pos <= Len(x))
            /\ (i - pos) - Len(x) = i - mid
        BY <2>2, <3>1, <3>2
      <4>2. z[i - pos] = y[i - mid]  BY <2>1, <4>1
      <4>3. i > pos  BY <2>2, <3>1, <3>2
      <4> QED  BY <3>2, <4>2, <4>3
    <3>3. CASE i > pos /\ i <= mid
      <4>1. i - pos \in 1..(Len(x) + Len(y)) /\ i - pos <= Len(x)  BY <2>2, <3>1, <3>3
      <4>2. z[i - pos] = x[i - pos]  BY <2>1, <4>1
      <4>3. i \in 1..n1 /\ i <= end /\ ~(i > mid)  BY <2>2, <2>4, <3>1, <3>3
      <4>4. d1[i] = x[i - pos]  BY <2>5, <3>3, <4>3
      <4> QED  BY <3>3, <4>2, <4>3, <4>4
    <3>4. CASE ~(i > pos /\ i <= end)
      <4>1. ~(i > mid /\ i <= end) /\ ~(i > pos /\ i <= mid)  BY <2>2, <3>1, <3>4
      <4>2. i <= n1 => d1[i] = IF i <= Len(d) THEN d[i] ELSE 0  BY <2>5, <3>1, <4>1
      <4>3. ~(i <= n1) => ~(i <= Len(d))  BY <2>2, <2>4, <3>1
      <4> QED  BY <3>4, <4>1, <4>2, <4>3
    <3>5. (i > mid /\ i <= end) \/ (i > pos /\ i <= mid) \/ ~(i > pos /\ i <= end)
      BY <2>2, <3>1
    <3> QED  BY <3>2, <3>3, <3>4, <3>5
  <2> DEFINE F(i) == IF i > mid /\ i <= end THEN y[i - mid] ELSE IF i <= n1 THEN d1[i] ELSE 0
             G(i) == IF i > pos /\ i <= end THEN z[i - pos] ELSE IF i <= Len(d) THEN d[i] ELSE 0
  <2>10. [i \in 1..n2 |-> F(i)] = [i \in 1..n2 |-> G(i)]
    <3>1. \A i \in 1..n2 : F(i) = G(i)  BY <2>9
    <3> HIDE DEF F, G, n2
    <3> QED  BY <3>1
  <2>11. Promise!Overwritten(d1, mid, y) = [i \in 1..n2 |-> F(i)]  BY <2>7
  <2>12. Promise!Overwritten(d, pos, z) = [i \in 1..n2 |-> G(i)]  BY <2>8
  <2> HIDE DEF F, G, n2
  <2>13. Promise!Overwritten(d1, mid, y) = Promise!Overwritten(d, pos, z)
    BY <2>10, <2>11, <2>12
  <2> QED  BY <2>13 DEF d1, z
<1> QED  BY <1>1, <1>2, <1>3

(* A write of two pieces, each to where it goes when its turn comes, is a  *)
(* write of both; in append mode, too.                                     *)
THEOREM WriteVExact ==
    ASSUME NEW f \in FileType, Sound(f), NEW mode \in {"write", "append"}, NEW position \in Nat,
           NEW x \in Seq(Nat), NEW y \in Seq(Nat)
    PROVE  LET pos == At(mode, f, position)
               g == Written(f, pos, x)
               next == At(mode, g, pos + Len(x))
           IN  /\ Stored(Written(g, next, y)) = Promise!Overwritten(Stored(f), pos, x \o y)
               /\ next + Len(y) = pos + Len(x \o y)
<1> DEFINE pos == At(mode, f, position)
           g == Written(f, pos, x)
           next == At(mode, g, pos + Len(x))
<1>1. f.usedBytes \in Nat  BY DEF FileType
<1>2. pos \in Nat  BY <1>1 DEF At
<1>3. g \in FileType /\ Sound(g)  BY <1>2, WrittenSound
<1>4. next = pos + Len(x)
  <2>1. CASE mode = "write"  BY <2>1 DEF At
  <2>2. CASE mode = "append"
    <3>1. pos = f.usedBytes /\ next = g.usedBytes  BY <2>2 DEF At
    <3>2. CASE x = <<>>  BY <1>1, <3>1, <3>2 DEF Written
    <3>3. CASE x # <<>>
      <4>1. g.usedBytes = Larger(f.usedBytes, pos + Len(x))  BY <1>2, <3>3, WrittenBytes
      <4> QED  BY <1>1, <3>1, <4>1 DEF Larger
    <3> QED  BY <3>2, <3>3
  <2> QED  BY <2>1, <2>2
<1> HIDE DEF pos, g, next
<1>5. Stored(g) = Promise!Overwritten(Stored(f), pos, x)  BY <1>2, WriteExact DEF g
<1>6. next \in Nat  BY <1>2, <1>4
<1>7. Stored(Written(g, next, y)) = Promise!Overwritten(Stored(g), next, y)
  BY <1>3, <1>6, WriteExact
<1>8. Stored(f) \in Seq(Nat)  BY StoredBytes
<1>9. Promise!Overwritten(Promise!Overwritten(Stored(f), pos, x), pos + Len(x), y)
        = Promise!Overwritten(Stored(f), pos, x \o y)
  BY <1>2, <1>8, OverwrittenTwice
<1>10. next + Len(y) = pos + Len(x \o y)  BY <1>2, <1>4
<1> QED  BY <1>4, <1>5, <1>7, <1>9, <1>10 DEF pos, g, next

(* A read of the array finds the bytes that the promise says.              *)
THEOREM ReadExact ==
    ASSUME NEW f \in FileType, Sound(f), NEW pos \in Nat, NEW n \in Nat
    PROVE  Found(f, pos, n) = Promise!Bytes(Stored(f), pos, n)
<1> DEFINE d == Stored(f)
           used == f.usedBytes
           end == IF pos + n < Len(d) THEN pos + n ELSE Len(d)
<1>1. d \in Seq(Nat) /\ Len(d) = used /\ (\A i \in 1..used : d[i] = f.contents[i])
      /\ used \in Nat
  BY StoredBytes DEF FileType
<1>2. Promise!Bytes(d, pos, n) = SubSeq(d, pos + 1, end)  BY DEF Promise!Bytes
<1> HIDE DEF d
<1>3. CASE pos >= used
  <2>1. end \in Int /\ end < pos + 1  BY <1>1, <1>3
  <2>2. SubSeq(d, pos + 1, end) = <<>>  BY <2>1, SubSeqEmpty
  <2> QED  BY <1>2, <1>3, <2>2 DEF Found, d
<1>4. CASE ~(pos >= used)
  <2> DEFINE k == Smaller(used - pos, n)
  <2>1. k \in Nat /\ end = pos + k /\ pos + k <= used
    <3>1. k = IF used - pos < n THEN used - pos ELSE n  BY DEF Smaller
    <3>2. end = IF pos + n < used THEN pos + n ELSE used  BY <1>1
    <3> HIDE DEF k, end, used
    <3>3. used \in Nat /\ used > pos  BY <1>1, <1>4
    <3>4. CASE used - pos < n  BY <3>1, <3>2, <3>3, <3>4
    <3>5. CASE ~(used - pos < n)  BY <3>1, <3>2, <3>3, <3>5
    <3> QED  BY <3>4, <3>5
  <2>2. Found(f, pos, n) = [i \in 1..k |-> f.contents[pos + i]]  BY <1>4 DEF Found
  <2> HIDE DEF k, end, used
  <2>3. \A i \in (pos + 1)..end : d[i] \in Nat  BY <1>1, <2>1
  <2>4. /\ SubSeq(d, pos + 1, end) \in Seq(Nat) /\ Len(SubSeq(d, pos + 1, end)) = k
        /\ \A i \in 1..k : SubSeq(d, pos + 1, end)[i] = d[pos + i]
    <3>1. pos + 1 \in Int /\ end \in Int  BY <2>1
    <3>2. /\ SubSeq(d, pos + 1, end) \in Seq(Nat)
          /\ Len(SubSeq(d, pos + 1, end)) =
                IF pos + 1 <= end THEN end - (pos + 1) + 1 ELSE 0
          /\ \A i \in 1..(end - (pos + 1) + 1) :
                SubSeq(d, pos + 1, end)[i] = d[pos + 1 + i - 1]
      BY <2>3, <3>1, SubSeqProperties
    <3>3. end - (pos + 1) + 1 = k  BY <2>1
    <3>4. \A i \in 1..k : pos + 1 + i - 1 = pos + i  BY <2>1
    <3> QED  BY <2>1, <3>2, <3>3, <3>4
  <2>5. \A i \in 1..k : pos + i \in 1..used  BY <1>1, <2>1
  <2>6. SubSeq(d, pos + 1, end) = [i \in 1..k |-> f.contents[pos + i]]
    <3>1. \A i \in 1..k : SubSeq(d, pos + 1, end)[i] = f.contents[pos + i]
      BY <1>1, <2>4, <2>5
    <3> DEFINE q == SubSeq(d, pos + 1, end)
    <3>2. q \in Seq(Nat) /\ Len(q) = k  BY <2>4
    <3> HIDE DEF q
    <3>3. q = [i \in 1..k |-> q[i]]  BY <3>2, LenProperties
    <3> QED  BY <3>1, <3>3 DEF q
  <2> QED  BY <1>2, <2>2, <2>6 DEF d
<1> QED  BY <1>3, <1>4

(* A read of two pieces, the second one if the first was filled, is a read *)
(* of as many bytes.                                                       *)
THEOREM ReadVExact ==
    ASSUME NEW f \in FileType, Sound(f), NEW pos \in Nat, NEW n \in Nat \X Nat
    PROVE  ReadV(f, pos, n) = Promise!Bytes(Stored(f), pos, n[1] + n[2])
<1> DEFINE d == Stored(f)
           size == Len(d)
           UpTo(k) == IF pos + k < size THEN pos + k ELSE size
           x == n[1]
           y == n[2]
<1>1. d \in Seq(Nat) /\ size \in Nat /\ x \in Nat /\ y \in Nat
  BY StoredBytes
<1>2. \A p, k \in Nat : Found(f, p, k) = Promise!Bytes(d, p, k)  BY ReadExact
<1> HIDE DEF d
<1>3. \A k \in Nat : Promise!Bytes(d, pos, k) = SubSeq(d, pos + 1, UpTo(k))
  BY DEF Promise!Bytes
<1>4. Promise!Bytes(d, pos + x, y) = SubSeq(d, pos + x + 1, UpTo(x + y))
  <2>1. pos + x + y = pos + (x + y)  BY <1>1
  <2> QED  BY <2>1 DEF Promise!Bytes
<1>5. Found(f, pos, x) = SubSeq(d, pos + 1, UpTo(x))
  BY <1>1, <1>2, <1>3
<1>6. Found(f, pos + x, y) = SubSeq(d, pos + x + 1, UpTo(x + y))
  <2>1. pos + x \in Nat  BY <1>1
  <2> QED  BY <1>1, <1>2, <1>4, <2>1
<1>7. Promise!Bytes(d, pos, x + y) = SubSeq(d, pos + 1, UpTo(x + y))
  <2>1. x + y \in Nat  BY <1>1
  <2> QED  BY <1>3, <2>1
<1>8. ReadV(f, pos, n) = IF Len(Found(f, pos, x)) < x THEN Found(f, pos, x)
                         ELSE Found(f, pos, x) \o Found(f, pos + x, y)
  BY DEF ReadV
<1>9. Len(Found(f, pos, x)) = IF pos + 1 <= UpTo(x) THEN UpTo(x) - pos ELSE 0
  <2>1. pos + 1 \in Int /\ UpTo(x) \in Int  BY <1>1
  <2>2. \A i \in (pos + 1)..UpTo(x) : d[i] \in Nat  BY <1>1
  <2>3. Len(SubSeq(d, pos + 1, UpTo(x))) =
           IF pos + 1 <= UpTo(x) THEN UpTo(x) - (pos + 1) + 1 ELSE 0
    BY <2>1, <2>2, SubSeqProperties
  <2>4. UpTo(x) - (pos + 1) + 1 = UpTo(x) - pos  BY <2>1
  <2> QED  BY <1>5, <2>3, <2>4
<1>10. CASE pos + x > size
  <2>1. UpTo(x) = size /\ UpTo(x + y) = size  BY <1>1, <1>10
  <2>2. CASE x = 0
    <3>1. UpTo(x) < pos + 1  BY <1>1, <1>10, <2>1, <2>2
    <3>2. Found(f, pos, x) = <<>>
      <4>1. pos + 1 \in Int /\ UpTo(x) \in Int  BY <1>1
      <4> QED  BY <1>5, <3>1, <4>1, SubSeqEmpty
    <3>3. Found(f, pos + x, y) = <<>>
      <4>1. pos + x + 1 \in Int /\ size \in Int /\ size < pos + x + 1  BY <1>1, <1>10
      <4> QED  BY <1>6, <2>1, <4>1, SubSeqEmpty
    <3>4. ReadV(f, pos, n) = <<>>  BY <1>8, <3>2, <3>3
    <3> QED  BY <1>5, <1>7, <2>1, <3>2, <3>4 DEF d
  <2>3. CASE x # 0
    <3>1. Len(Found(f, pos, x)) < x  BY <1>1, <1>9, <1>10, <2>1, <2>3
    <3> QED  BY <1>5, <1>7, <1>8, <2>1, <3>1 DEF d
  <2> QED  BY <2>2, <2>3
<1>11. CASE ~(pos + x > size)
  <2>1. UpTo(x) = pos + x  BY <1>1, <1>11
  <2>2. ~(Len(Found(f, pos, x)) < x)  BY <1>1, <1>9, <2>1
  <2>3. /\ pos + 1 \in 1..(size + 1) /\ pos + x \in (pos + 1 - 1)..size
        /\ UpTo(x + y) \in (pos + x)..size
    BY <1>1, <1>11
  <2>4. SubSeq(d, pos + 1, pos + x) \o SubSeq(d, pos + x + 1, UpTo(x + y))
          = SubSeq(d, pos + 1, UpTo(x + y))
    <3> DEFINE e == UpTo(x + y)
               l == pos + 1
               k == pos + x
    <3>1. l \in 1..(Len(d) + 1) /\ k \in (l - 1)..Len(d) /\ e \in k..Len(d)  BY <2>3
    <3> HIDE DEF e, l, k
    <3>2. SubSeq(d, l, k) \o SubSeq(d, k + 1, e) = SubSeq(d, l, e)
      BY <1>1, <3>1, ConcatAdjacentSubSeq
    <3> QED  BY <3>2 DEF e, l, k
  <2>5. ReadV(f, pos, n) = Found(f, pos, x) \o Found(f, pos + x, y)  BY <1>8, <2>2
  <2>6. Found(f, pos, x) = SubSeq(d, pos + 1, pos + x)
    <3>1. SubSeq(d, pos + 1, UpTo(x)) = SubSeq(d, pos + 1, pos + x)  BY <2>1
    <3> QED  BY <1>5, <3>1
  <2> HIDE DEF UpTo, x, y
  <2> QED  BY <1>6, <1>7, <2>4, <2>5, <2>6 DEF d, x, y
<1> QED  BY <1>10, <1>11

-----------------------------------------------------------------------------
(* The calls.                                                              *)
Inv == TypeOK /\ TableSound

StreamsOK ==
    /\ file \in [Nodes -> FileType]
    /\ \A m \in Nodes : Sound(file[m]) /\ (kind[m] # "file" => file[m] = NoBytes)
    /\ streams \in [Fds -> StreamType \cup {NoStream}]
    /\ \A fd \in Fds : IsOpen(fd) => kind[streams[fd].node] # "none"

(* The invariant, by its parts.                                            *)
LEMMA InvParts == Inv <=> NodeType /\ Tabled /\ StreamsOK
BY TabledSound DEF Inv, TypeOK, StreamsOK, FileType

(* A path ends with a name.                                                *)
LEMMA PathType == ASSUME NEW p \in Paths PROVE Last(p) \in Names
<1>1. p \in Seq(Names) /\ p # <<>>  BY Tables
<1> QED  BY <1>1 DEF Last

(* A new file.                                                             *)
LEMMA NoBytesSound == NoBytes \in FileType /\ Sound(NoBytes)
BY DEF NoBytes, FileType, Sound

(* What a call does to the nodes and the table of names.                   *)
LEMMA NodesKept ==
    ASSUME NodeType, Tabled, UNCHANGED nodes
    PROVE  NodeType' /\ Tabled'
<1>1. \A m : Linked(m)' <=> Linked(m)  BY DEF nodes, Linked
<1>2. NodeType'  BY DEF nodes, NodeType
<1>3. Tabled'  BY <1>1 DEF nodes, Tabled, AllDistinct
<1> QED  BY <1>2, <1>3

(* The node at a path is listed.                                           *)
LEMMA NodeAtType ==
    ASSUME NodeType, Tabled, NEW p \in Paths, NodeAt(p) # NoNode
    PROVE  /\ NodeAt(p) \in Nodes \ {NoNode} /\ Linked(NodeAt(p))
           /\ ParentOf(p) \in Directories /\ entries[ParentOf(p)][Last(p)] = NodeAt(p)
<1>1. Last(p) \in Names  BY PathType
<1>2. NodeAt(p) \in Nodes  BY <1>1, Lookup DEF NodeAt
<1> QED  BY <1>1, <1>2, LookupListed DEF NodeAt

(* mkdir and the nodes.                                                    *)
LEMMA MkDirNodes ==
    ASSUME NodeType, Tabled, NEW p \in Paths, MkDir(p) PROVE NodeType' /\ Tabled'
<1>1. CASE MayCreate(ParentOf(p), Last(p))
  <2>1. CreateNode(ParentOf(p), Last(p), "dir")  BY <1>1 DEF MkDir
  <2>2. ParentOf(p) \in Directories /\ LookupNode(ParentOf(p), Last(p)) = NoNode
    BY <1>1 DEF MayCreate
  <2> QED  BY <2>1, <2>2, PathType, CreateTabled
<1>2. CASE ~MayCreate(ParentOf(p), Last(p))
  BY <1>2, NodesKept DEF MkDir
<1> QED  BY <1>1, <1>2

(* rmdir and the nodes.                                                    *)
LEMMA RmdirNodes ==
    ASSUME NodeType, Tabled, NEW p \in Paths, Rmdir(p) PROVE NodeType' /\ Tabled'
<1>1. UNCHANGED nodes \/ (NodeAt(p) # NoNode /\ Detach(NodeAt(p)))  BY DEF Rmdir
<1> QED  BY <1>1, NodesKept, NodeAtType, DetachTabled

(* unlink and the nodes.                                                   *)
LEMMA UnlinkNodes ==
    ASSUME NodeType, Tabled, NEW p \in Paths, Unlink(p) PROVE NodeType' /\ Tabled'
<1>1. UNCHANGED nodes \/ (NodeAt(p) # NoNode /\ Detach(NodeAt(p)))  BY DEF Unlink
<1> QED  BY <1>1, NodesKept, NodeAtType, DetachTabled

(* rename and the nodes.                                                   *)
LEMMA RenameNodes ==
    ASSUME NodeType, Tabled, NEW p \in Paths, NEW q \in Paths, Rename(p, q)
    PROVE  NodeType' /\ Tabled'
<1> DEFINE old == NodeAt(p)
           new == NodeAt(q)
           d == ParentOf(q)
           n == Last(q)
<1>1. \/ UNCHANGED nodes
      \/ MayRename(p, q) /\ old # new /\ Stay(old)
      \/ MayRename(p, q) /\ old # new /\ Move(old, new, d, n)
  BY DEF Rename
<1>2. MayRename(p, q) => old # NoNode  BY DEF MayRename
<1>3. CASE MayRename(p, q) /\ old # new /\ Stay(old)
  BY <1>2, <1>3, NodeAtType, StayTabled
<1>4. CASE MayRename(p, q) /\ old # new /\ Move(old, new, d, n)
  <2>1. old \in Nodes \ {NoNode} /\ Linked(old)  BY <1>2, <1>4, NodeAtType
  <2>2. n \in Names  BY PathType
  <2>3. new # NoNode \/ MayCreate(d, n)  BY <1>4 DEF MayRename
  <2>4. d \in Directories  BY <2>3, NodeAtType DEF MayCreate
  <2>5. new \in Nodes /\ new = entries[d][n]
    BY <2>2, <2>4, Lookup, LookupListed DEF NodeAt
  <2> HIDE DEF old, new, d, n
  <2> QED  BY <1>4, <2>1, <2>2, <2>4, <2>5, MoveTabled
<1> QED  BY <1>1, <1>3, <1>4, NodesKept

(* open and the nodes.                                                     *)
LEMMA OpenNodes ==
    ASSUME NodeType, Tabled, NEW p \in Paths, NEW mode \in Modes, Open(p, mode)
    PROVE  NodeType' /\ Tabled'
<1>1. \/ UNCHANGED nodes
      \/ MayCreate(ParentOf(p), Last(p)) /\ CreateNode(ParentOf(p), Last(p), "file")
  BY DEF Open
<1>2. CASE MayCreate(ParentOf(p), Last(p)) /\ CreateNode(ParentOf(p), Last(p), "file")
  <2>1. ParentOf(p) \in Directories /\ LookupNode(ParentOf(p), Last(p)) = NoNode
    BY <1>2 DEF MayCreate
  <2> QED  BY <1>2, <2>1, PathType, CreateTabled
<1> QED  BY <1>1, <1>2, NodesKept

(* Nodes that a call makes have no bytes, and no stream before it.         *)
KindsKept == \A m \in Nodes : kind[m] # "none" => kind'[m] = kind[m]

(* The node that is made was none before.                                  *)
LEMMA CreateKinds ==
    ASSUME NodeType, NEW d, NEW n, NEW k, CreateNode(d, n, k)
    PROVE  KindsKept /\ nextInode \in Nodes \ {NoNode} /\ kind[nextInode] = "none"
           /\ kind'[nextInode] = k
<1>1. nextInode \in 2..MaxInode  BY Tables DEF NodeType, CreateNode
<1>2. nextInode \in Nodes \ {NoNode} /\ nextInode \notin Root..(nextInode - 1)
  BY <1>1, Tables DEF Nodes, NoNode, Root
<1>3. kind[nextInode] = "none"  BY <1>2 DEF NodeType
<1>4. kind' = [kind EXCEPT ![nextInode] = k]  BY DEF CreateNode
<1> QED  BY <1>2, <1>3, <1>4 DEF KindsKept, NodeType

(* Streams and bytes that a call leaves alone.                             *)
LEMMA StreamsKept ==
    ASSUME NodeType, StreamsOK, KindsKept, UNCHANGED <<file, streams>>
    PROVE  StreamsOK'
<1>1. \A m \in Nodes : kind'[m] # "file" => file'[m] = NoBytes
  BY DEF StreamsOK, KindsKept, NodeType
<1>2. \A fd \in Fds : IsOpen(fd)' => kind'[streams'[fd].node] # "none"
  BY DEF StreamsOK, KindsKept, IsOpen, StreamType
<1> QED  BY <1>1, <1>2 DEF StreamsOK

(* The removal of a name keeps the node.                                   *)
LEMMA DetachKinds == ASSUME NEW m, Detach(m) \/ UNCHANGED nodes PROVE KindsKept
BY DEF Detach, nodes, KindsKept

(* Calls on paths leave bytes and streams alone.                           *)
LEMMA CallsOnPaths ==
    ASSUME NodeType, StreamsOK, NEW p \in Paths, NEW q \in Paths,
           MkDir(p) \/ Rmdir(p) \/ Unlink(p) \/ Look(p) \/ Rename(p, q)
    PROVE  StreamsOK'
<1>1. UNCHANGED <<file, streams>>  BY DEF MkDir, Rmdir, Unlink, Look, Rename
<1>2. KindsKept
  <2>1. CASE MkDir(p)
    <3>1. UNCHANGED nodes \/ CreateNode(ParentOf(p), Last(p), "dir")  BY <2>1 DEF MkDir
    <3> QED  BY <3>1, CreateKinds DEF nodes, KindsKept
  <2>2. CASE Rmdir(p) \/ Unlink(p)
    <3>1. UNCHANGED nodes \/ Detach(NodeAt(p))  BY <2>2 DEF Rmdir, Unlink
    <3> QED  BY <3>1, DetachKinds
  <2>3. CASE Look(p)  BY <2>3 DEF Look, nodes, KindsKept
  <2>4. CASE Rename(p, q)
    <3>1. kind' = kind  BY <2>4 DEF Rename, Stay, Move, nodes
    <3> QED  BY <3>1 DEF KindsKept
  <2> QED  BY <2>1, <2>2, <2>3, <2>4
<1> QED  BY <1>1, <1>2, StreamsKept

(* A new stream, or none.                                                  *)
LEMMA CreateStreamType ==
    ASSUME StreamsOK, NEW c, NEW m \in Nodes \ {NoNode}, NEW mode \in Modes,
           CreateStream(c, m, mode)
    PROVE  /\ streams' \in [Fds -> StreamType \cup {NoStream}]
           /\ \A fd \in Fds : streams'[fd] # NoStream =>
                 streams'[fd].node = m \/ (IsOpen(fd) /\ streams'[fd] = streams[fd])
<1> DEFINE r == [node |-> m, mode |-> mode, position |-> 0]
<1>1. r \in StreamType  BY DEF StreamType
<1>2. UNCHANGED streams \/ \E fd \in Fds : streams' = [streams EXCEPT ![fd] = r]
  BY DEF CreateStream, Free
<1>3. CASE UNCHANGED streams  BY <1>3 DEF StreamsOK, IsOpen
<1>4. ASSUME NEW fd \in Fds, streams' = [streams EXCEPT ![fd] = r]
      PROVE  /\ streams' \in [Fds -> StreamType \cup {NoStream}]
             /\ \A x \in Fds : streams'[x] # NoStream =>
                   streams'[x].node = m \/ (IsOpen(x) /\ streams'[x] = streams[x])
  <2>1. r.node = m  OBVIOUS
  <2> HIDE DEF r
  <2> QED  BY <1>1, <1>4, <2>1 DEF StreamsOK, IsOpen
<1> QED  BY <1>2, <1>3, <1>4

(* open and the streams.                                                   *)
LEMMA OpenStreams ==
    ASSUME NodeType, Tabled, StreamsOK, NEW p \in Paths, NEW mode \in Modes, Open(p, mode)
    PROVE  StreamsOK'
<1> DEFINE m == NodeAt(p)
           c == <<"open", p, mode>>
<1>1. \/ /\ MayOpen(m, mode)
         /\ file' = IF mode = "write" THEN [file EXCEPT ![m] = NoBytes] ELSE file
         /\ CreateStream(c, m, mode)
         /\ UNCHANGED nodes
      \/ /\ mode \in {"write", "append"}
         /\ CreateNode(ParentOf(p), Last(p), "file")
         /\ CreateStream(c, nextInode, mode)
         /\ UNCHANGED file
      \/ UNCHANGED <<nodes, file, streams>>
  BY DEF Open
<1>2. m \in Nodes
  BY PathType, Lookup DEF NodeAt
<1>3. kind[NoNode] = "none"  BY Constants DEF NodeType, Root, NoNode
<1>4. CASE /\ MayOpen(m, mode)
           /\ file' = IF mode = "write" THEN [file EXCEPT ![m] = NoBytes] ELSE file
           /\ CreateStream(c, m, mode)
           /\ UNCHANGED nodes
  <2>1. m \in Nodes \ {NoNode} /\ kind[m] # "none"
    BY <1>2, <1>3, <1>4 DEF MayOpen
  <2>2. /\ streams' \in [Fds -> StreamType \cup {NoStream}]
        /\ \A fd \in Fds : streams'[fd] # NoStream =>
              streams'[fd].node = m \/ (IsOpen(fd) /\ streams'[fd] = streams[fd])
    BY <1>4, <2>1, CreateStreamType
  <2>3. kind' = kind  BY <1>4 DEF nodes
  <2>4. /\ file' \in [Nodes -> FileType]
        /\ \A x \in Nodes : Sound(file'[x]) /\ (kind[x] # "file" => file'[x] = NoBytes)
    BY <1>4, <2>1, NoBytesSound DEF StreamsOK
  <2>5. \A fd \in Fds : IsOpen(fd)' => kind[streams'[fd].node] # "none"
    BY <2>1, <2>2 DEF StreamsOK, IsOpen
  <2> QED  BY <2>2, <2>3, <2>4, <2>5 DEF StreamsOK
<1>5. CASE /\ mode \in {"write", "append"}
           /\ CreateNode(ParentOf(p), Last(p), "file")
           /\ CreateStream(c, nextInode, mode)
           /\ UNCHANGED file
  <2>1. KindsKept /\ nextInode \in Nodes \ {NoNode} /\ kind'[nextInode] = "file"
    BY <1>5, CreateKinds
  <2>2. /\ streams' \in [Fds -> StreamType \cup {NoStream}]
        /\ \A fd \in Fds : streams'[fd] # NoStream =>
              streams'[fd].node = nextInode \/ (IsOpen(fd) /\ streams'[fd] = streams[fd])
    BY <1>5, <2>1, CreateStreamType
  <2>3. \A x \in Nodes : kind'[x] # "file" => file'[x] = NoBytes
    BY <1>5, <2>1 DEF StreamsOK, KindsKept, NodeType
  <2>4. ASSUME NEW fd \in Fds, IsOpen(fd)' PROVE kind'[streams'[fd].node] # "none"
    <3>1. CASE streams'[fd].node = nextInode  BY <2>1, <3>1
    <3>2. CASE IsOpen(fd) /\ streams'[fd] = streams[fd]
      <4>1. kind[streams[fd].node] # "none" /\ streams[fd].node \in Nodes
        BY <3>2 DEF StreamsOK, IsOpen, StreamType
      <4> QED  BY <2>1, <3>2, <4>1 DEF KindsKept
    <3> QED  BY <2>2, <2>4, <3>1, <3>2 DEF IsOpen
  <2> QED  BY <1>5, <2>2, <2>3, <2>4 DEF StreamsOK
<1>6. CASE UNCHANGED <<nodes, file, streams>>
  BY <1>6, StreamsKept DEF nodes, KindsKept
<1> QED  BY <1>1, <1>4, <1>5, <1>6

(* A stream at another position.                                           *)
LEMMA PositionMoved ==
    ASSUME StreamsOK, NEW fd \in Fds, IsOpen(fd), NEW pos \in Nat,
           streams' = [streams EXCEPT ![fd].position = pos]
    PROVE  /\ streams' \in [Fds -> StreamType \cup {NoStream}]
           /\ \A x \in Fds : IsOpen(x)' => IsOpen(x) /\ streams'[x].node = streams[x].node
<1> DEFINE r == [streams[fd] EXCEPT !.position = pos]
<1>1. streams[fd] \in StreamType  BY DEF StreamsOK, IsOpen
<1>2. r \in StreamType /\ r.node = streams[fd].node  BY <1>1 DEF StreamType
<1>3. streams' = [streams EXCEPT ![fd] = r]  OBVIOUS
<1> HIDE DEF r
<1>4. \A x \in Fds : streams'[x] = IF x = fd THEN r ELSE streams[x]
  BY <1>3 DEF StreamsOK
<1> QED  BY <1>2, <1>3, <1>4 DEF StreamsOK, IsOpen

(* A read finds bytes.                                                     *)
LEMMA FoundBytes ==
    ASSUME NEW f \in FileType, Sound(f), NEW pos \in Nat, NEW n \in Nat
    PROVE  Found(f, pos, n) \in Seq(Nat)
<1>1. f.usedBytes \in Nat /\ \A i \in 1..f.usedBytes : f.contents[i] \in Nat
  BY DEF FileType, Sound
<1>2. CASE pos >= f.usedBytes  BY <1>2 DEF Found
<1>3. CASE ~(pos >= f.usedBytes)
  <2> DEFINE k == Smaller(f.usedBytes - pos, n)
  <2>1. k \in Nat /\ k <= f.usedBytes - pos  BY <1>1, <1>3 DEF Smaller
  <2>2. Found(f, pos, n) = [i \in 1..k |-> f.contents[pos + i]]  BY <1>3 DEF Found
  <2> HIDE DEF k
  <2>3. \A i \in 1..k : f.contents[pos + i] \in Nat  BY <1>1, <2>1
  <2> QED  BY <2>1, <2>2, <2>3
<1> QED  BY <1>2, <1>3

(* read and the streams.                                                   *)
LEMMA ReadStreams ==
    ASSUME NodeType, StreamsOK, NEW fd \in Fds, NEW n \in Counts, Read(fd, n)
    PROVE  StreamsOK' /\ UNCHANGED nodes
<1>1. CASE ~CanRead(fd)
  BY <1>1, StreamsKept DEF Read, Refused, nodes, KindsKept
<1>2. CASE CanRead(fd)
  <2> DEFINE f == file[streams[fd].node]
             pos == streams[fd].position
             got == ReadV(f, pos, n)
  <2>1. streams[fd] \in StreamType /\ IsOpen(fd)  BY <1>2 DEF CanRead, IsOpen, StreamsOK
  <2>2. f \in FileType /\ Sound(f) /\ pos \in Nat /\ n[1] \in Nat /\ n[2] \in Nat
    BY <2>1, Arguments DEF StreamsOK, StreamType
  <2> HIDE DEF f
  <2>3. got \in Seq(Nat)
    <3>1. Found(f, pos, n[1]) \in Seq(Nat)  BY <2>2, FoundBytes
    <3>2. Found(f, pos + n[1], n[2]) \in Seq(Nat)
      <4>1. pos + n[1] \in Nat  BY <2>2
      <4> QED  BY <2>2, <4>1, FoundBytes
    <3> QED  BY <3>1, <3>2 DEF ReadV
  <2>4. /\ streams' = [streams EXCEPT ![fd].position = @ + Len(got)]
        /\ UNCHANGED <<nodes, file>>
    BY <1>2 DEF Read, Refused, f
  <2> HIDE DEF got
  <2>5. pos + Len(got) \in Nat  BY <2>2, <2>3
  <2>6. streams' = [streams EXCEPT ![fd].position = pos + Len(got)]
    BY <2>1, <2>4 DEF StreamsOK
  <2>7. /\ streams' \in [Fds -> StreamType \cup {NoStream}]
        /\ \A x \in Fds : IsOpen(x)' => IsOpen(x) /\ streams'[x].node = streams[x].node
    BY <2>1, <2>5, <2>6, PositionMoved
  <2>8. kind' = kind /\ file' = file  BY <2>4 DEF nodes
  <2> QED  BY <2>4, <2>7, <2>8 DEF StreamsOK
<1> QED  BY <1>1, <1>2

(* lseek and the streams.                                                  *)
LEMMA SeekStreams ==
    ASSUME NodeType, StreamsOK, NEW fd \in Fds, NEW s \in Seeks, Seek(fd, s)
    PROVE  StreamsOK' /\ UNCHANGED nodes
<1>1. CASE ~CanSeek(fd, s)
  BY <1>1, StreamsKept DEF Seek, Refused, nodes, KindsKept
<1>2. CASE CanSeek(fd, s)
  <2>1. streams[fd] \in StreamType /\ IsOpen(fd) /\ Target(fd, s) >= 0
    BY <1>2 DEF CanSeek, IsOpen, StreamsOK
  <2>2. /\ s[1] \in Int /\ s[2] \in {"start", "here", "end"}
        /\ streams[fd].position \in Int /\ file[streams[fd].node].usedBytes \in Int
    BY <2>1, Arguments DEF StreamsOK, StreamType, FileType
  <2>3. Target(fd, s) \in Nat
    <3>1. CASE s[2] = "start"  BY <2>1, <2>2, <3>1 DEF Target
    <3>2. CASE s[2] = "here"  BY <2>1, <2>2, <3>2 DEF Target
    <3>3. CASE s[2] = "end"  BY <2>1, <2>2, <3>3 DEF Target
    <3> QED  BY <2>2, <3>1, <3>2, <3>3
  <2>4. streams' = [streams EXCEPT ![fd].position = Target(fd, s)] /\ UNCHANGED <<nodes, file>>
    BY <1>2 DEF Seek, Refused
  <2>5. /\ streams' \in [Fds -> StreamType \cup {NoStream}]
        /\ \A x \in Fds : IsOpen(x)' => IsOpen(x) /\ streams'[x].node = streams[x].node
    BY <2>1, <2>3, <2>4, PositionMoved
  <2>6. kind' = kind /\ file' = file  BY <2>4 DEF nodes
  <2> QED  BY <2>4, <2>5, <2>6 DEF StreamsOK
<1> QED  BY <1>1, <1>2

(* write, the bytes and the streams.                                       *)
LEMMA WriteStreams ==
    ASSUME NodeType, StreamsOK, NEW fd \in Fds, NEW b \in Bufs, Write(fd, b)
    PROVE  StreamsOK' /\ UNCHANGED nodes
<1>1. CASE ~CanWrite(fd)
  BY <1>1, StreamsKept DEF Write, Refused, nodes, KindsKept
<1>2. CASE CanWrite(fd)
  <2> DEFINE m == streams[fd].node
             f == file[m]
             pos == At(streams[fd].mode, f, streams[fd].position)
             g == Written(f, pos, b[1])
             next == At(streams[fd].mode, g, pos + Len(b[1]))
             h == Written(g, next, b[2])
  <2>1. streams[fd] \in StreamType /\ IsOpen(fd) /\ kind[m] = "file"
    BY <1>2 DEF CanWrite, IsOpen, StreamsOK
  <2>2. /\ file' = [file EXCEPT ![m] = h]
        /\ streams' = [streams EXCEPT ![fd].position = next + Len(b[2])]
        /\ UNCHANGED nodes
    BY <1>2 DEF Write, Refused
  <2>3. m \in Nodes /\ b[1] \in Seq(Nat) /\ b[2] \in Seq(Nat) /\ streams[fd].position \in Nat
    BY <2>1, Arguments DEF StreamType
  <2>4. f \in FileType /\ Sound(f)  BY <2>3 DEF StreamsOK
  <2>5. pos \in Nat  BY <2>3, <2>4 DEF At, FileType
  <2>6. g \in FileType /\ Sound(g)  BY <2>3, <2>4, <2>5, WrittenSound
  <2>7. next \in Nat  BY <2>3, <2>5, <2>6 DEF At, FileType
  <2> HIDE DEF g, next, m
  <2>8. h \in FileType /\ Sound(h)  BY <2>3, <2>6, <2>7, WrittenSound
  <2>9. next + Len(b[2]) \in Nat  BY <2>3, <2>7
  <2> HIDE DEF h
  <2>10. /\ streams' \in [Fds -> StreamType \cup {NoStream}]
         /\ \A x \in Fds : IsOpen(x)' => IsOpen(x) /\ streams'[x].node = streams[x].node
    BY <2>1, <2>2, <2>9, PositionMoved
  <2>11. kind' = kind  BY <2>2 DEF nodes
  <2>12. /\ file' \in [Nodes -> FileType]
         /\ \A x \in Nodes : Sound(file'[x]) /\ (kind[x] # "file" => file'[x] = NoBytes)
    BY <2>1, <2>2, <2>3, <2>8 DEF StreamsOK
  <2> QED  BY <2>2, <2>10, <2>11, <2>12 DEF StreamsOK
<1> QED  BY <1>1, <1>2

(* close and the streams.                                                  *)
LEMMA CloseStreams ==
    ASSUME NodeType, StreamsOK, NEW fd \in Fds, Close(fd)
    PROVE  StreamsOK' /\ UNCHANGED nodes
<1>1. streams' = [streams EXCEPT ![fd] = NoStream] /\ UNCHANGED <<nodes, file>>  BY DEF Close
<1>2. kind' = kind /\ file' = file  BY <1>1 DEF nodes
<1>3. streams' \in [Fds -> StreamType \cup {NoStream}]
  BY <1>1 DEF StreamsOK
<1>4. \A x \in Fds : streams'[x] # NoStream => streams'[x] = streams[x]
  BY <1>1 DEF StreamsOK
<1> QED  BY <1>1, <1>2, <1>3, <1>4 DEF StreamsOK, IsOpen

-----------------------------------------------------------------------------
(* The invariant holds at first.                                           *)
LEMMA InitInv == Init => Inv
<1> SUFFICES ASSUME Init PROVE Inv
  OBVIOUS
<1> DEFINE g == HashName(Root, NoName)
<1>1. g \in 0..(TableSize - 1)  BY HashInTable DEF Root
<1>2. MaxInode \in Nat \ {0}  BY Tables
<1> HIDE DEF g
<1>3. nameTable = [h \in 0..(TableSize - 1) |-> IF h = g THEN <<Root>> ELSE <<>>]
  BY DEF Init, g
<1>4. <<Root>> \in Seq(Nodes \ {NoNode}) /\ <<>> \in Seq(Nodes \ {NoNode})  BY Constants
<1>5. NodeType
  <2>1. nameTable \in [0..(TableSize - 1) -> Seq(Nodes \ {NoNode})]  BY <1>3, <1>4
  <2>2. \A m \in Nodes : kind[m] = "none" <=> m \notin Root..(nextInode - 1)
    BY DEF Init, Nodes, Root
  <2>3. nextInode \in 2..(MaxInode + 1)  BY <1>2 DEF Init, Root
  <2> QED  BY <2>1, <2>2, <2>3, Constants DEF Init, NodeType
<1>6. \A h \in 0..(TableSize - 1) : \A m : In(nameTable[h], m) => h = g /\ m = Root
  BY <1>3 DEF In
<1>7. Tabled
  <2>1. AllDistinct(nameTable)  BY <1>3 DEF AllDistinct, Distinct
  <2>2. \A h \in 0..(TableSize - 1) : \A m : In(nameTable[h], m) =>
           (m = Root \/ Linked(m)) /\ HashName(parent[m], name[m]) = h
    <3>1. parent[Root] = Root /\ name[Root] = NoName  BY Constants DEF Init
    <3> QED  BY <1>6, <3>1 DEF g
  <2>3. \A d \in Nodes, n \in Names : entries[d][n] = NoNode  BY DEF Init
  <2> QED  BY <2>1, <2>2, <2>3 DEF Tabled
<1>8. StreamsOK  BY NoBytesSound DEF Init, StreamsOK, IsOpen
<1> QED  BY <1>5, <1>7, <1>8, InvParts

(* Each call keeps the invariant.                                          *)
LEMMA NextInv == ASSUME Inv, [Next]_vars PROVE Inv'
<1>1. NodeType /\ Tabled /\ StreamsOK  BY InvParts
<1>2. SUFFICES NodeType' /\ Tabled' /\ StreamsOK'
  <2>1. NodeType' /\ Tabled' /\ StreamsOK' => Inv'  BY InvParts, PTL
  <2> QED  BY <2>1
<1>3. ASSUME NEW p \in Paths, NEW q \in Paths,
             MkDir(p) \/ Rmdir(p) \/ Unlink(p) \/ Look(p) \/ Rename(p, q)
      PROVE  NodeType' /\ Tabled' /\ StreamsOK'
  <2>1. StreamsOK'  BY <1>1, <1>3, CallsOnPaths
  <2>2. CASE MkDir(p)  BY <1>1, <2>1, <2>2, MkDirNodes
  <2>3. CASE Rmdir(p)  BY <1>1, <2>1, <2>3, RmdirNodes
  <2>4. CASE Unlink(p)  BY <1>1, <2>1, <2>4, UnlinkNodes
  <2>5. CASE Look(p)
    <3>1. UNCHANGED nodes  BY <2>5 DEF Look
    <3> QED  BY <1>1, <2>1, <3>1, NodesKept
  <2>6. CASE Rename(p, q)  BY <1>1, <2>1, <2>6, RenameNodes
  <2> QED  BY <1>3, <2>2, <2>3, <2>4, <2>5, <2>6
<1>4. ASSUME NEW p \in Paths, NEW mode \in Modes, Open(p, mode)
      PROVE  NodeType' /\ Tabled' /\ StreamsOK'
  BY <1>1, <1>4, OpenNodes, OpenStreams
<1>5. ASSUME NEW fd \in Fds,
             \/ Close(fd)
             \/ \E n \in Counts : Read(fd, n)
             \/ \E b \in Bufs : Write(fd, b)
             \/ \E s \in Seeks : Seek(fd, s)
      PROVE  NodeType' /\ Tabled' /\ StreamsOK'
  <2>1. StreamsOK' /\ UNCHANGED nodes
    BY <1>1, <1>5, CloseStreams, ReadStreams, WriteStreams, SeekStreams
  <2> QED  BY <1>1, <2>1, NodesKept
<1>6. CASE UNCHANGED vars
  <2>1. UNCHANGED nodes /\ UNCHANGED <<file, streams>>  BY <1>6 DEF vars, nodes
  <2>2. KindsKept  BY <2>1 DEF nodes, KindsKept
  <2> QED  BY <1>1, <2>1, <2>2, NodesKept, StreamsKept
<1> QED  BY <1>3, <1>4, <1>5, <1>6 DEF Next

(* Types, for every set of names and paths and every size of the table.    *)
THEOREM TypeCorrect == Spec => []TypeOK
<1>1. Inv => TypeOK  BY DEF Inv
<1> QED  BY <1>1, InitInv, NextInv, PTL DEF Spec

(* The table of names agrees with the directories whatever is called, in   *)
(* particular after a rename, which changes the parent and the name that   *)
(* its hash is made of, or has to put the node back.                       *)
THEOREM TableCorrect == Spec => []TableSound
<1>1. Inv => TableSound  BY DEF Inv
<1> QED  BY <1>1, InitInv, NextInv, PTL DEF Spec

(* A lookup and the directory agree where the table is sound.              *)
LEMMA InvLookups == Inv => LookupExact
<1> SUFFICES ASSUME Inv, NEW d \in Nodes, NEW n \in Names
             PROVE  LookupNode(d, n) = IF kind[d] = "dir" THEN entries[d][n] ELSE NoNode
  BY DEF LookupExact
<1>1. NodeType /\ Tabled  BY InvParts
<1>2. d \in Directories <=> kind[d] = "dir"  BY DEF Directories
<1> QED  BY <1>1, <1>2, LookupListed

(* A program finds at a name what the directory lists there.               *)
THEOREM LookupsCorrect == Spec => []LookupExact
BY InitInv, NextInv, InvLookups, PTL DEF Spec
============================================================================
